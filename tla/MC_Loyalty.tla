---------------------------- MODULE MC_Loyalty ----------------------------
(***************************************************************************)
(* Instances of Loyalty for TLC.                                           *)
(***************************************************************************)
EXTENDS Loyalty, TLC

Symmetric == Permutations(Requests) \cup Permutations(Members)
=============================================================================
