---------------------------- MODULE MCMediaCache ----------------------------
(* Three contents of sizes 1, 2 and 2 in a directory of 3, three outputs of  *)
(* two prompts or of none.                                                   *)
EXTENDS MediaCache, TLC

CONSTANTS f1, f2, f3, c1, c2, c3, p1, p2

MCSize == (f1 :> 1) @@ (f2 :> 2) @@ (f3 :> 2)
Same == Permutations({c1, c2, c3}) \cup Permutations({p1, p2}) \cup Permutations({f2, f3})
=============================================================================
