---------------------------- MODULE MCModelTransfer ----------------------------
(* ModelTransfer with two installations: two tasks of the first share a file, *)
(* a third brings another file; the second brings another content under the   *)
(* name of the shared one.                                                    *)
EXTENDS ModelTransfer, TLC

CONSTANTS t1, t2, t3, t4, f1, f2, g1, A, B

MCFileOf == [t \in Tasks |-> CASE t \in {t1, t2} -> f1 [] t = t3 -> f2 [] OTHER -> g1]
MCHostOf == (f1 :> 1) @@ (f2 :> 1) @@ (g1 :> 2)
MCDestOf == (f1 :> 1) @@ (f2 :> 2) @@ (g1 :> 1)
MCOriginal == (f1 :> A) @@ (f2 :> A) @@ (g1 :> B)
Sharing == Permutations({t1, t2})
===============================================================================
