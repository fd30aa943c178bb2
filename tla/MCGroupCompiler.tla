--------------------------- MODULE MCGroupCompiler ---------------------------
(* Graphs of four nodes.  Wide: every graph with latent and runtime wires,    *)
(* nodes in either group or in none, at most one of them of a special kind.   *)
(* Odd: three nodes with wires of every type, in one group, in the other, in  *)
(* none, across a border, or where the groups' boxes overlap.                 *)
EXTENDS GroupCompiler

\* Two groups that overlap, and where nodes are.
MCBoxes == <<<<0, 0, 30, 30>>, <<20, 0, 30, 30>>>>
InFirst == <<0, 0, 10, 10>>
InSecond == <<40, 0, 10, 10>>
InBoth == <<20, 0, 10, 10>>
Across == <<15, 0, 10, 10>>
Clear == <<60, 0, 10, 10>>

Recipe(n, kind) == [i \in 1..4 |-> IF i = n THEN kind ELSE "plain"]
Wide ==
  [wires: [Pairs -> {"none", "latent", "model"}],
   recipe: {Recipe(0, "plain"), Recipe(1, "output"), Recipe(2, "output"), Recipe(2, "fixed")},
   place: [Nodes -> {InFirst, InSecond, Clear}]]
\* Wires of node 4 are of no interest here.
Odd ==
  [wires: {[w \in Pairs |-> IF w[2] = 4 THEN "none" ELSE t[w]] :
             t \in [{<<1, 2>>, <<1, 3>>, <<2, 3>>} -> Types \cup {"none"}]},
   recipe: {Recipe(0, "plain")},
   place: {p \in [Nodes -> {InFirst, InSecond, InBoth, Across, Clear}] : p[4] = Clear}]
MCGraphs == Wide \cup Odd
=============================================================================
