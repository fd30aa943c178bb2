------------------------------ MODULE MCGroupRun ------------------------------
(* A small instance of GroupRun: our run at the peer, of any kind, and a      *)
(* neighbour's request.  Every request has a prompt id of its own.            *)
EXTENDS GroupRun

OwnPrompts == [r \in Requests |-> r]

\* Bound: a neighbour's request, or an interrupt of it, comes only beside a posted run.
BesidePosted ==
  kind # "posted" => \A r \in Neighbours : run[r] = "idle" /\ PromptOf[r] \notin asked
===============================================================================
