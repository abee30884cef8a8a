------------------------- MODULE MC_OrderLifecycle -------------------------
(***************************************************************************)
(* Instances of OrderLifecycle for TLC.                                    *)
(***************************************************************************)
EXTENDS OrderLifecycle, TLC
CONSTANTS t1, t2, s1, s2

\* Two sales that take the same two supplies in opposite orders, the first of
\* them one supply twice.
CrossedRecipe == t1 :> <<s1, s2, s1>> @@ t2 :> <<s2, s1>>

SymmetricUsers == Permutations(Users)
=============================================================================
