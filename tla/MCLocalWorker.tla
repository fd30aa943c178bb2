----------------------------- MODULE MCLocalWorker -----------------------------
(* LocalWorker with three clients and three process identities.                   *)
EXTENDS LocalWorker

CONSTANTS c1, c2, c3, p1, p2, p3
===============================================================================
