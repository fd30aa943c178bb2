----------------------------- MODULE MCRemoteJob -----------------------------
(* Small instances of RemoteJob: the abort, the peer interrupt and the two     *)
(* cleanup callbacks the streamed executor registers.                         *)
EXTENDS RemoteJob, TLC

CONSTANTS t1, t2, t3, a1, q1, c1, c2

MCPhaseOf == (a1 :> "abort") @@ (q1 :> "peer_interrupt")
             @@ (c1 :> "cleanup") @@ (c2 :> "cleanup")
==============================================================================
