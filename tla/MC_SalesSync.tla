---------------------------- MODULE MC_SalesSync ----------------------------
(***************************************************************************)
(* Instances of SalesSync for TLC.                                         *)
(***************************************************************************)
EXTENDS SalesSync, TLC

CONSTANTS c1

\* Every sale was made by the one cashier.
OneCashier == [s \in Sales |-> c1]

Symmetric == Permutations(Requests) \cup Permutations(Sales) \cup Permutations(Shifts)
=============================================================================
