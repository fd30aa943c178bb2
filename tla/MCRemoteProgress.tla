-------------------------- MODULE MCRemoteProgress --------------------------
(* A run with two nodes of any kind, and a stream beside it.                 *)
EXTENDS RemoteProgress, TLC

CONSTANTS r1, r2, n1, n2, m1, m2, e1

MCNodesOf == (r1 :> {n1, n2}) @@ (r2 :> {})
Same == Permutations({m1, m2}) \cup Permutations({n1, n2})

\* Bars and modules share no variable but peer, and streams no bar: bars are explored
\* over all their orders with no module loaded and no other stream, modules and
\* several streams with no bar begun.
OneHalf ==
  \/ \A r \in Runs : Begun(r) = {}
  \/ loaded = {} /\ \E r \in Runs : \A q \in Runs \ {r} : peer[q] = "before" /\ client[q] = "streaming"

\* Bars of a run: one node starts twice, or each starts once.
FewBars == \A r \in Runs : Cardinality(Begun(r)) > 1 => \A n \in NodesOf[r] : bar[r][n].bars = 1
=============================================================================
