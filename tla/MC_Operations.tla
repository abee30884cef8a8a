---------------------------- MODULE MC_Operations ----------------------------
(***************************************************************************)
(* Inventory, Summaries and Books for TLC.  What they share, the sales and *)
(* the stock, each reads or writes in ways of its own that the others only *)
(* know as data, so that each behaviour is about one of them, chosen at    *)
(* the start.  The messages on orders have their own behaviours, without   *)
(* the clock that they do not depend on.                                   *)
(***************************************************************************)
EXTENDS Inventory, Summaries, Books, TLC

VARIABLE desk

MCSpan == 5 .. 7     \* a Friday, a month's first day and a Sunday
Interchangeable ==
    Permutations(Clerks) \cup Permutations(Supplies)
        \cup Permutations(SaleIds) \cup Permutations(Outlets)

Init ==
    /\ InventoryInit /\ SummariesInit /\ BooksInit
    /\ desk \in {"stock", "daily", "notices", "books"}
    /\ desk # "stock" => \A v \in Services, s \in Supplies : mapping[v][s] = 1
    /\ desk # "daily" => \A t \in Owners : settings[t].time = 0
    /\ desk # "books" => today = 5

Next ==
    /\ UNCHANGED desk
    /\ \/ desk = "stock" /\ InventoryNext /\ UNCHANGED <<summaryVars, bookVars>>
       \/ desk = "daily" /\ DailyNext /\ UNCHANGED <<inventoryVars, bookVars>>
       \/ desk = "notices" /\ NoticesNext /\ UNCHANGED <<inventoryVars, bookVars>>
       \/ desk = "books" /\ BooksNext /\ UNCHANGED <<inventoryVars, summaryVars>>

\* Every variable keeps its type: among other things, no two requests have written
\* one supply (inventory_service.go:216-219), and no summary is marked before the
\* clock has begun.
OperationsTypeOK == InventoryTypeOK /\ SummariesTypeOK /\ BooksTypeOK
=============================================================================
