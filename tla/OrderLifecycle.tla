--------------------------- MODULE OrderLifecycle ---------------------------
(***************************************************************************)
(* Orders (internal/service/order_service.go) and the stock an order takes *)
(* when it is done (internal/service/inventory_service.go).  Each request  *)
(* runs in the one transaction of middleware.TenantIsolation, PostgreSQL   *)
(* at READ COMMITTED: UpdateStatus reads the order without locking it,     *)
(* validates the step against what it read, and only then waits for the    *)
(* row.  The stock of each supply is a row of its own, locked from its     *)
(* deduction to the end of the transaction, so that two orders that are    *)
(* done at once may wait for each other.                                   *)
(***************************************************************************)
EXTENDS Integers, Sequences, FiniteSetsExt

CONSTANTS
    Users,          \* slots for requests in progress
    Orders,         \* order ids, each a fresh UUID
    Transactions,   \* the sales an order may belong to
    NoTransaction,  \* orders.transaction_id IS NULL
    Supplies,
    Recipe,         \* Recipe[t]: the supplies that the items of sale t use, in order
    MaxLog          \* bound on the history of one order

\* There are finitely many UUIDs.
ASSUME OrdersAssumption == IsFiniteSet(Orders)
ASSUME NoTransactionAssumption == NoTransaction \notin Transactions
ASSUME RecipeAssumption == Recipe \in [Transactions -> Seq(Supplies)]
ASSUME MaxLogAssumption == MaxLog \in Nat

VARIABLES
    order,    \* order[o]: the committed row
    log,      \* log[o]: its committed order_status_logs, in the order of commit
    stock,    \* stock[s]: current_stock, against what it was at the start
    moves,    \* moves[o][s]: committed 'out' movements of s noted for order o
    pc,       \* how far the request of u has come
    job,      \* the step that the request of u makes
    work,     \* the version of the order row that it has written
    todo,     \* the deductions it has still to make
    taken     \* taken[u][s]: those it has made and not committed

tables == <<order, log, stock, moves>>
session == <<job, work, todo, taken>>
vars == <<order, log, stock, moves, pc, job, work, todo, taken>>

Statuses == {"received", "washing", "drying", "ironing", "done", "picked_up", "cancelled"}

validTransitions ==
    [s \in Statuses |->
        CASE s = "received" -> {"washing", "cancelled"}
          [] s = "washing"  -> {"drying", "ironing", "cancelled"}
          [] s = "drying"   -> {"ironing", "done", "cancelled"}
          [] s = "ironing"  -> {"done", "cancelled"}
          [] s = "done"     -> {"picked_up", "cancelled"}
          [] OTHER          -> {}]

Rows == [tx: Transactions \cup {NoTransaction}, status: Statuses,
         completed: BOOLEAN, pickedUp: BOOLEAN]
NoOrder == [status |-> "none"]
Entries == [from: Statuses \cup {"none"}, to: Statuses]
Jobs == [order: Orders, entry: Entries]
NoJob == [order |-> "none"]
Nothing == [s \in Supplies |-> 0]

TypeOK ==
    /\ order \in [Orders -> Rows \cup {NoOrder}]
    /\ log \in [Orders -> Seq(Entries)]
    /\ stock \in [Supplies -> Int]
    /\ moves \in [Orders -> [Supplies -> Nat]]
    /\ pc \in [Users -> {"idle", "read", "written", "failed"}]
    /\ job \in [Users -> Jobs \cup {NoJob}]
    /\ work \in [Users -> Rows \cup {NoOrder}]
    /\ todo \in [Users -> Seq(Supplies)]
    /\ taken \in [Users -> [Supplies -> Nat]]

Init ==
    /\ order = [o \in Orders |-> NoOrder]
    /\ log = [o \in Orders |-> <<>>]
    /\ stock = [s \in Supplies |-> 0]
    /\ moves = [o \in Orders |-> Nothing]
    /\ pc = [u \in Users |-> "idle"]
    /\ job = [u \in Users |-> NoJob]
    /\ work = [u \in Users |-> NoOrder]
    /\ todo = [u \in Users |-> <<>>]
    /\ taken = [u \in Users |-> Nothing]

-----------------------------------------------------------------------------
(***************************************************************************)
(* Locks, all held from the statement that takes them to the end of the    *)
(* transaction: the order row that a request has inserted or updated, and  *)
(* the supplies it has deducted from.                                      *)
(***************************************************************************)
LocksOrder(u, o) == pc[u] = "written" /\ job[u].order = o
LocksSupply(u, s) == taken[u][s] > 0
HasDeduction(u) == pc[u] = "written" /\ todo[u] # <<>>

WaitsFor(u, v) == u # v /\ HasDeduction(u) /\ LocksSupply(v, Head(todo[u]))

\* The requests that wait for one another in a circle.
Deadlocked(D) == D # {} /\ \A u \in D : \E v \in D : WaitsFor(u, v)

-----------------------------------------------------------------------------
(***************************************************************************)
(* Creating orders, by a cashier (Create) or by the sync upload of a sale  *)
(* (CreateFromTransaction).  transaction_id is UNIQUE: the insert waits    *)
(* for another that is under way, and if a row with that sale is committed *)
(* the first fails, ending as Abort, while the second inserts nothing.     *)
(***************************************************************************)
Uses(row, t) == row # NoOrder /\ t # NoTransaction /\ row.tx = t

\* Mutant of TransactionFree: a SELECT sees the committed rows only.
CommittedFree(t) == \A o \in Orders : ~Uses(order[o], t)

TransactionFree(t) ==
    /\ \A o \in Orders : ~Uses(order[o], t)
    /\ \A u \in Users : ~Uses(work[u], t)

\* Mutant of NewRow: a status that validTransitions does not know.
NewRowPending(t) ==
    [tx |-> t, status |-> "pending", completed |-> FALSE, pickedUp |-> FALSE]

NewRow(t) ==
    [tx |-> t, status |-> "received", completed |-> FALSE, pickedUp |-> FALSE]

InsertOrder(u, o, t) ==
    /\ pc[u] = "idle"
    /\ order[o] = NoOrder
    /\ \A v \in Users : job[v] # NoJob => job[v].order # o
    /\ TransactionFree(t)
    /\ pc' = [pc EXCEPT ![u] = "written"]
    /\ job' = [job EXCEPT ![u] =
                  [order |-> o, entry |-> [from |-> "none", to |-> "received"]]]
    /\ work' = [work EXCEPT ![u] = NewRow(t)]
    /\ UNCHANGED <<tables, todo, taken>>

Create(u, o, t) == InsertOrder(u, o, t)

CreateFromTransaction(u, o, t) == t # NoTransaction /\ InsertOrder(u, o, t)

-----------------------------------------------------------------------------
(***************************************************************************)
(* UpdateStatus.                                                           *)
(***************************************************************************)
\* The bound on histories counts the requests in progress as well, so that it
\* never holds one of them up.
LogHasRoom(o) ==
    Len(log[o]) + Cardinality({u \in Users : job[u] # NoJob /\ job[u].order = o}) < MaxLog

\* Mutant of ReadOrder: the client says from which status the order is to move.
ReadTrustsClient(u, o, s) ==
    /\ pc[u] = "idle"
    /\ order[o] # NoOrder
    /\ LogHasRoom(o)
    /\ pc' = [pc EXCEPT ![u] = "read"]
    /\ \E f \in Statuses :
          /\ s \in validTransitions[f]
          /\ job' = [job EXCEPT ![u] = [order |-> o, entry |-> [from |-> f, to |-> s]]]
    /\ UNCHANGED <<tables, work, todo, taken>>

\* The SELECT, and the validation against the status it returned.
ReadOrder(u, o, s) ==
    /\ pc[u] = "idle"
    /\ order[o] # NoOrder
    /\ s \in validTransitions[order[o].status]
    /\ LogHasRoom(o)
    /\ pc' = [pc EXCEPT ![u] = "read"]
    /\ job' = [job EXCEPT ![u] =
                  [order |-> o, entry |-> [from |-> order[o].status, to |-> s]]]
    /\ UNCHANGED <<tables, work, todo, taken>>

\* Mutant of UpdatedRow: a cancelled order is no longer a completed one.
ClearsCompletion(row, s) ==
    [row EXCEPT !.status = s,
                !.completed = (@ \/ s = "done") /\ s # "cancelled",
                !.pickedUp = @ \/ s = "picked_up"]

UpdatedRow(row, s) ==
    [row EXCEPT !.status = s,
                !.completed = @ \/ s = "done",
                !.pickedUp = @ \/ s = "picked_up"]

\* The UPDATE names the id alone: it waits for the row and then overwrites
\* whatever status it finds.  An order without a sale deducts nothing.
WriteStatus(u) ==
    LET o == job[u].order
        s == job[u].entry.to
    IN  /\ pc[u] = "read"
        /\ \A v \in Users : ~LocksOrder(v, o)
        /\ pc' = [pc EXCEPT ![u] = "written"]
        /\ work' = [work EXCEPT ![u] = UpdatedRow(order[o], s)]
        /\ todo' = [todo EXCEPT ![u] =
                       IF s = "done" /\ order[o].tx # NoTransaction
                       THEN Recipe[order[o].tx] ELSE <<>>]
        /\ UNCHANGED <<tables, job, taken>>

\* DeductStockForOrder: one movement and one UPDATE of supplies.
Deduct(u) ==
    /\ HasDeduction(u)
    /\ \A v \in Users : ~WaitsFor(u, v)
    /\ taken' = [taken EXCEPT ![u][Head(todo[u])] = @ + 1]
    /\ todo' = [todo EXCEPT ![u] = Tail(@)]
    /\ UNCHANGED <<tables, pc, job, work>>

RollBack(u) ==
    /\ work' = [work EXCEPT ![u] = NoOrder]
    /\ todo' = [todo EXCEPT ![u] = <<>>]
    /\ taken' = [taken EXCEPT ![u] = Nothing]
    /\ job' = [job EXCEPT ![u] = NoJob]

\* Mutant of DeductionFails: the loop's "continue" does what it says, and the
\* transaction lives on without the deduction.
SkipsDeduction(u) ==
    /\ HasDeduction(u)
    /\ todo' = [todo EXCEPT ![u] = Tail(@)]
    /\ UNCHANGED <<tables, pc, job, work, taken>>

\* A statement of the deduction fails.  The loop logs it and continues, but
\* PostgreSQL has aborted the transaction and dropped its locks; nothing the
\* request does after that has an effect, although it is answered 200.
DeductionFails(u) ==
    /\ HasDeduction(u)
    /\ pc' = [pc EXCEPT ![u] = "failed"]
    /\ RollBack(u)
    /\ UNCHANGED tables

\* PostgreSQL picks a member of a circle of waiters as the victim.
DeadlockVictim(u) ==
    /\ \E D \in SUBSET Users : Deadlocked(D) /\ u \in D
    /\ DeductionFails(u)

-----------------------------------------------------------------------------
(***************************************************************************)
(* The end of the request's transaction.                                   *)
(***************************************************************************)
Commit(u) ==
    LET o == job[u].order
    IN  /\ pc[u] = "written"
        /\ todo[u] = <<>>
        /\ order' = [order EXCEPT ![o] = work[u]]
        /\ log' = [log EXCEPT ![o] = Append(@, job[u].entry)]
        /\ stock' = [s \in Supplies |-> stock[s] - taken[u][s]]
        /\ moves' = [moves EXCEPT ![o] = [s \in Supplies |-> @[s] + taken[u][s]]]
        /\ pc' = [pc EXCEPT ![u] = "idle"]
        /\ RollBack(u)

\* Mutant of EndFailed: the commit is skipped after an error, and so is the
\* rollback: the request keeps its connection.
NeverEndsFailed(u) ==
    /\ pc[u] = "failed"
    /\ UNCHANGED vars

\* The commit of an aborted transaction rolls it back.
EndFailed(u) ==
    /\ pc[u] = "failed"
    /\ pc' = [pc EXCEPT ![u] = "idle"]
    /\ UNCHANGED <<tables, session>>

\* The client goes away, a statement outside the deduction fails, or the
\* server dies.
Abort(u) ==
    /\ pc[u] \in {"read", "written"}
    /\ pc' = [pc EXCEPT ![u] = "idle"]
    /\ RollBack(u)
    /\ UNCHANGED tables

Next ==
    \E u \in Users :
        \/ \E o \in Orders :
              \/ \E t \in Transactions \cup {NoTransaction} : Create(u, o, t)
              \/ \E t \in Transactions : CreateFromTransaction(u, o, t)
              \/ \E s \in Statuses : ReadOrder(u, o, s)
        \/ WriteStatus(u)
        \/ Deduct(u)
        \/ DeductionFails(u)
        \/ DeadlockVictim(u)
        \/ Commit(u)
        \/ EndFailed(u)
        \/ Abort(u)

Spec == Init /\ [][Next]_vars

(***************************************************************************)
(* Handlers run to their end, PostgreSQL serves the waiters of a lock and  *)
(* breaks every deadlock.  Nobody need ask for anything, and no other      *)
(* statement need fail.                                                    *)
(***************************************************************************)
Fairness ==
    \A u \in Users :
        /\ SF_vars(WriteStatus(u))
        /\ SF_vars(Deduct(u))
        /\ WF_vars(DeadlockVictim(u))
        /\ WF_vars(Commit(u) \/ EndFailed(u))

FairSpec == Spec /\ Fairness

-----------------------------------------------------------------------------
(***************************************************************************)
(* Properties                                                              *)
(***************************************************************************)
LoggedTo(o, s) == {n \in 1 .. Len(log[o]) : log[o][n].to = s}
UsesOf(o, s) ==
    IF order[o] = NoOrder \/ order[o].tx = NoTransaction THEN 0
    ELSE Cardinality({n \in 1 .. Len(Recipe[order[o].tx]) : Recipe[order[o].tx][n] = s})

\* A sale has at most one order, committed or about to be, although a cashier
\* and any number of uploads may create it (Create, CreateFromTransaction).
OneOrderPerTransaction ==
    \A t \in Transactions :
        /\ \A o, p \in Orders : Uses(order[o], t) /\ Uses(order[p], t) => o = p
        /\ \A u, v \in Users :
              Uses(work[u], t) /\ Uses(work[v], t) => job[u].order = job[v].order

\* The history explains the row: it begins with the creation and with no other,
\* it ends in the order's status, and the order is completed or picked up
\* exactly if the history says so, even when stale requests overwrite one
\* another's status (UpdateStatus).
HistoryExplainsOrder ==
    \A o \in Orders :
        IF order[o] = NoOrder THEN log[o] = <<>>
        ELSE /\ log[o] # <<>>
             /\ \A n \in 1 .. Len(log[o]) : log[o][n].from = "none" <=> n = 1
             /\ order[o].status = log[o][Len(log[o])].to
             /\ order[o].completed <=> LoggedTo(o, "done") # {}
             /\ order[o].pickedUp <=> LoggedTo(o, "picked_up") # {}

\* A step leaves a status that the order has had, never one that some request
\* wrote and rolled back (UpdateStatus reads what is committed).
StepsFromHistory ==
    \A o \in Orders : \A n \in 2 .. Len(log[o]) :
        \E m \in 1 .. n - 1 : log[o][m].to = log[o][n].from

\* Stock leaves the shelves exactly once for each time an order was logged as
\* done, each supply as often as the sale's items use it, and the stock of a
\* supply is what the movements say: no swallowed error, deadlock or lost
\* request leaves a part of a deduction behind (DeductStockForOrder).
StockMatchesOrders ==
    /\ \A o \in Orders, s \in Supplies :
          moves[o][s] = Cardinality(LoggedTo(o, "done")) * UsesOf(o, s)
    /\ \A s \in Supplies : stock[s] = -MapThenSumSet(LAMBDA o : moves[o][s], Orders)

\* Every request comes to its end: two orders done at once, which take the
\* same supplies in opposite orders, do not wait for each other for ever.
RequestEnds == \A u \in Users : pc[u] # "idle" ~> pc[u] = "idle"

-----------------------------------------------------------------------------
\* order_service.go:29 has validTransitions define "the allowed status
\* transitions for orders", and a test has a picked_up order refuse any step.
\* So the committed status of an order moves along validTransitions.
TransitionsAllowed ==
    [][\A o \in Orders :
          order[o] # NoOrder /\ order'[o].status # order[o].status
              => order'[o].status \in validTransitions[order[o].status]]_vars
=============================================================================
