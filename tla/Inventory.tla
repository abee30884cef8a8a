----------------------------- MODULE Inventory -----------------------------
(***************************************************************************)
(* Supplies (inventory_service.go): their stock and its movements, what a  *)
(* service uses of them, the deductions made by an upload of sales         *)
(* (sync_service.go) or by an order that is done, and the alerts of low    *)
(* stock, read on connections of their own by the upload's goroutine and   *)
(* by the scheduler.                                                       *)
(*                                                                         *)
(* current_stock and the quantity of a movement are NUMERIC(12,2), what a  *)
(* service uses is NUMERIC(10,3): stock is counted in cents of a unit and  *)
(* quantities in half cents, which each column rounds for itself.          *)
(* Requests of one statement are one step; they still wait for the row.    *)
(***************************************************************************)
EXTENDS Integers, Sequences, FiniteSets

CONSTANTS
    Clerks,       \* slots for requests in progress
    Supplies, Services,
    Quantities,   \* what requests and mappings give, in half cents
    FirstStock,   \* stock that a supply is created with, in cents
    Threshold,    \* min_stock, in cents, of a supply that has one
    MaxTasks,     \* bound on requests of several statements, and on the others
    MaxEntries,
    MaxItems      \* items of a sale (bound)

ASSUME ClerksAssumption == IsFiniteSet(Clerks)
ASSUME QuantitiesAssumption == Quantities \subseteq Nat \ {0}
ASSUME StockAssumption == FirstStock \in Nat /\ Threshold \in Nat \ {0}
ASSUME TaskBoundsAssumption == {MaxTasks, MaxEntries, MaxItems} \subseteq Nat

VARIABLES
    supply,     \* supply[s]: the committed row, or NoSupply
    ledger,     \* ledger[s]: what its committed movements add up to
    mapping,    \* mapping[v][s]: what service v uses of s, 0 without a mapping
    task,       \* task[c]: a request in progress
    held,       \* held[c][s]: the row of s as c has written it, and not committed
    alertsDue,  \* goroutines that have still to look for low stock
    alerted,    \* the supplies that an alert has been about
    wasLow,     \* the supplies that were low on stock in a committed state
    tasks, entries

inventoryVars == <<supply, ledger, mapping, task, held, alertsDue, alerted, wasLow, tasks, entries>>

Kinds == {"in", "out", "adjustment"}
Supply == [stock: Int, min: {0, Threshold}, active: BOOLEAN]
NoSupply == [stock |-> 0, min |-> 0, active |-> FALSE, absent |-> TRUE]
Known(s) == supply[s] # NoSupply

Moves == [supply: Supplies, kind: Kinds, quantity: Quantities]
Ledgers == [sum: Int, halves: Nat]

\* A row that a request has written, with the ledger as its movements leave it.
Writes == [written: BOOLEAN, stock: Int, ledger: Ledgers]
Unwritten == [written |-> FALSE, stock |-> 0, ledger |-> [sum |-> 0, halves |-> 0]]
Nothing == [s \in Supplies |-> Unwritten]

\* "todo" are the movements to be made, "items" the services still to look up,
\* "owes" what the mappings read so far ask for, "took" what was moved.
Tasks == [op: {"none", "movement", "sale", "order"}, at: {"idle", "items", "move", "alert", "done"},
          items: Seq(Services), todo: SUBSET Moves, owes: [Supplies -> Nat], took: [Supplies -> Nat],
          broken: BOOLEAN]
NoTask == [op |-> "none", at |-> "idle", items |-> <<>>, todo |-> {},
           owes |-> [s \in Supplies |-> 0], took |-> [s \in Supplies |-> 0], broken |-> FALSE]

InventoryTypeOK ==
    /\ supply \in [Supplies -> Supply \cup {NoSupply}]
    /\ ledger \in [Supplies -> Ledgers]
    /\ mapping \in [Services -> [Supplies -> Quantities \cup {0}]]
    /\ task \in [Clerks -> Tasks]
    /\ held \in [Clerks -> [Supplies -> Writes]]
    /\ \A c \in Clerks, s \in Supplies :
          /\ held[c][s].written <=> task[c].took[s] > 0
          /\ held[c][s].written => ~\E d \in Clerks \ {c} : held[d][s].written
    /\ alertsDue \in 0 .. MaxTasks + MaxEntries
    /\ alerted \subseteq Supplies /\ wasLow \subseteq Supplies
    /\ tasks \in 0 .. MaxTasks /\ entries \in 0 .. MaxEntries

InventoryInit ==
    /\ supply = [s \in Supplies |-> [stock |-> FirstStock, min |-> Threshold, active |-> TRUE]]
    /\ ledger = [s \in Supplies |-> [sum |-> FirstStock, halves |-> 0]]
    /\ mapping \in [Services -> {[s \in Supplies |-> q] : q \in Quantities}]
    /\ task = [c \in Clerks |-> NoTask]
    /\ held = [c \in Clerks |-> Nothing]
    /\ alertsDue = 0 /\ alerted = {}
    /\ wasLow = {s \in Supplies : FirstStock <= Threshold}
    /\ tasks = 0 /\ entries = 0

-----------------------------------------------------------------------------
\* Half cents as cents, half away from zero, as NUMERIC rounds.
Cents(h) == IF h >= 0 THEN (h + 1) \div 2 ELSE -((1 - h) \div 2)

\* Mutant of LowStock: the goroutine reads in the transaction of the upload.
LowStockOfOpen ==
    {s \in Supplies : Known(s) /\ supply[s].active /\ supply[s].min > 0
                      /\ \/ supply[s].stock <= supply[s].min
                         \/ \E c \in Clerks : held[c][s].written /\ held[c][s].stock <= supply[s].min}

\* GetLowStockAlerts: supplies in use, at or below their minimum.
LowStock ==
    {s \in Supplies : Known(s) /\ supply[s].active /\ supply[s].min > 0
                      /\ supply[s].stock <= supply[s].min}

Committed == wasLow' = wasLow \cup {s \in Supplies :
                            /\ supply'[s] # NoSupply /\ supply'[s].active
                            /\ 0 < supply'[s].min /\ supply'[s].stock <= supply'[s].min}

\* Mutant of HeldByOther: the UPDATE does not wait for the row.
HeldByNobody(c, s) == FALSE

HeldByOther(c, s) == \E d \in Clerks \ {c} : held[d][s].written
StockSeen(c, s) == IF held[c][s].written THEN held[c][s].stock ELSE supply[s].stock
LedgerSeen(c, s) == IF held[c][s].written THEN held[c][s].ledger ELSE ledger[s]

After(c, todo, items) ==
    IF todo # {} THEN "move"
    ELSE IF items # <<>> THEN "items"
    ELSE IF task[c].op = "sale" THEN "alert" ELSE "done"

Undertake(c, t) ==
    /\ task[c] = NoTask
    /\ tasks < MaxTasks
    /\ tasks' = tasks + 1
    /\ task' = [task EXCEPT ![c] = t]
    /\ UNCHANGED <<supply, ledger, mapping, held, alertsDue, alerted, wasLow, entries>>

-----------------------------------------------------------------------------
(***************************************************************************)
(* Movements and deductions.                                               *)
(***************************************************************************)
RecordMovement(c, s, kind, q) ==
    Undertake(c, [NoTask EXCEPT !.op = "movement", !.at = "move",
                                !.todo = {[supply |-> s, kind |-> kind, quantity |-> q]}])

\* autoDeductStockForTransactions and DeductStockForOrder: the items of a sale.
DeductSale(c, op, items) ==
    Undertake(c, [NoTask EXCEPT !.op = op, !.at = "items", !.items = items])

\* The mappings of the next item, as they are committed by now.
ReadMappings(c) ==
    /\ task[c].at = "items"
    /\ LET v == Head(task[c].items)
           todo == {[supply |-> s, kind |-> "out", quantity |-> mapping[v][s]] :
                        s \in {x \in Supplies : mapping[v][x] > 0 /\ Known(x)}}
           items == Tail(task[c].items)
       IN task' = [task EXCEPT
                      ![c].todo = todo, ![c].items = items, ![c].at = After(c, todo, items),
                      ![c].owes = [s \in Supplies |->
                                      @[s] + IF Known(s) THEN mapping[v][s] ELSE 0]]
    /\ UNCHANGED <<supply, ledger, mapping, held, alertsDue, alerted, wasLow, tasks, entries>>

\* Mutant of Moved: the sum is made from the stock as it was committed.
MovedFromCommitted(c, m) ==
    LET stock == supply[m.supply].stock
    IN CASE m.kind = "in" -> Cents(2 * stock + m.quantity)
         [] m.kind = "out" -> Cents(2 * stock - m.quantity)
         [] m.kind = "adjustment" -> Cents(m.quantity)

\* current_stock after a movement: an adjustment sets it, the others add to it.
Moved(c, m) ==
    LET stock == StockSeen(c, m.supply)
    IN CASE m.kind = "in" -> Cents(2 * stock + m.quantity)
         [] m.kind = "out" -> Cents(2 * stock - m.quantity)
         [] m.kind = "adjustment" -> Cents(m.quantity)

\* What the movement m makes of a ledger.
Entered(l, m) ==
    IF m.kind = "adjustment" THEN [sum |-> Cents(m.quantity), halves |-> 0]
    ELSE [sum |-> l.sum + IF m.kind = "in" THEN Cents(m.quantity) ELSE -Cents(m.quantity),
          halves |-> l.halves + (m.quantity % 2)]

\* The INSERT of a movement, which nobody else sees, and the UPDATE of the stock,
\* which waits for the row.  The mappings come in no order.
MakeMovement(c) ==
    /\ task[c].at = "move"
    /\ \E m \in task[c].todo :
          /\ Known(m.supply)
          /\ ~HeldByOther(c, m.supply)
          /\ held' = [held EXCEPT ![c][m.supply] =
                          [written |-> TRUE, stock |-> Moved(c, m),
                           ledger |-> Entered(LedgerSeen(c, m.supply), m)]]
          /\ task' = [task EXCEPT ![c].todo = @ \ {m}, ![c].took[m.supply] = @ + m.quantity,
                                  ![c].at = After(c, task[c].todo \ {m}, task[c].items)]
    /\ UNCHANGED <<supply, ledger, mapping, alertsDue, alerted, wasLow, tasks, entries>>

\* Mutant of BreakTask: the loop's "continue" leaves out this movement only.
SkipMovement(c) ==
    /\ \E m \in task[c].todo :
          task' = [task EXCEPT ![c].todo = @ \ {m},
                               ![c].at = After(c, task[c].todo \ {m}, task[c].items)]
    /\ UNCHANGED <<supply, ledger, mapping, held, alertsDue, alerted, wasLow, tasks, entries>>

\* The transaction is aborted.  A deduction logs that and goes on, and every
\* statement after it fails too; the sale's goroutine is started all the same.
BreakTask(c) ==
    /\ task' = [task EXCEPT ![c] = [NoTask EXCEPT !.op = task[c].op, !.broken = TRUE,
                                       !.at = IF task[c].op = "sale" THEN "alert" ELSE "done"]]
    /\ held' = [held EXCEPT ![c] = Nothing]
    /\ UNCHANGED <<supply, ledger, mapping, alertsDue, alerted, wasLow, tasks, entries>>

\* A supply that does not exist, by its foreign key, or any other failure.
MovementFails(c) == task[c].at = "move" /\ BreakTask(c)

\* Two requests that move the same supplies in opposite orders.
Awaits(c, d) ==
    /\ task[c].at = "move"
    /\ \A m \in task[c].todo : HeldByOther(c, m.supply)
    /\ \E m \in task[c].todo : held[d][m.supply].written
MovementDeadlock(c) == (\E d \in Clerks \ {c} : Awaits(c, d) /\ Awaits(d, c)) /\ BreakTask(c)

\* Before the upload's transaction has ended.
StartAlert(c) ==
    /\ task[c].at = "alert"
    /\ task' = [task EXCEPT ![c].at = "done"]
    /\ alertsDue' = alertsDue + 1
    /\ UNCHANGED <<supply, ledger, mapping, held, alerted, wasLow, tasks, entries>>

CommitTask(c) ==
    /\ task[c].at = "done" /\ ~task[c].broken
    /\ supply' = [s \in Supplies |->
                     IF held[c][s].written THEN [supply[s] EXCEPT !.stock = held[c][s].stock]
                     ELSE supply[s]]
    /\ ledger' = [s \in Supplies |-> LedgerSeen(c, s)]
    /\ Committed
    /\ held' = [held EXCEPT ![c] = Nothing]
    /\ task' = [task EXCEPT ![c] = NoTask]
    /\ UNCHANGED <<mapping, alertsDue, alerted, tasks, entries>>

\* The commit of an aborted transaction, or a client that has gone.
RollBackTask(c) ==
    /\ task[c] # NoTask
    /\ held' = [held EXCEPT ![c] = Nothing]
    /\ task' = [task EXCEPT ![c] = NoTask]
    /\ UNCHANGED <<supply, ledger, mapping, alertsDue, alerted, wasLow, tasks, entries>>

-----------------------------------------------------------------------------
(***************************************************************************)
(* Requests of one statement, and the alerts.                              *)
(***************************************************************************)
Entry == entries < MaxEntries /\ entries' = entries + 1

CreateSupply(s, min) ==
    /\ Entry
    /\ ~Known(s)
    /\ supply' = [supply EXCEPT ![s] = [stock |-> FirstStock, min |-> min, active |-> TRUE]]
    /\ ledger' = [ledger EXCEPT ![s] = [sum |-> FirstStock, halves |-> 0]]
    /\ Committed
    /\ UNCHANGED <<mapping, task, held, alertsDue, alerted, tasks>>

\* is_active is TRUE unless the request says otherwise; the stock is not touched.
UpdateSupply(s, min, active) ==
    /\ Entry
    /\ Known(s)
    /\ \A c \in Clerks : ~held[c][s].written
    /\ supply' = [supply EXCEPT ![s].min = min, ![s].active = active]
    /\ Committed
    /\ UNCHANGED <<ledger, mapping, task, held, alertsDue, alerted, tasks>>

SetMapping(v, s, q) ==
    /\ mapping' = [mapping EXCEPT ![v][s] = q]
    /\ UNCHANGED <<supply, ledger, task, held, alertsDue, alerted, wasLow, tasks>>

CreateMapping(v, s, q) == Entry /\ Known(s) /\ mapping[v][s] = 0 /\ SetMapping(v, s, q)
UpdateMapping(v, s, q) == Entry /\ mapping[v][s] # 0 /\ SetMapping(v, s, q)
DeleteMapping(v, s) == Entry /\ mapping[v][s] # 0 /\ SetMapping(v, s, 0)

\* Alongside the daily summary (scheduler.go).
DailyAlert ==
    /\ Entry
    /\ alertsDue' = alertsDue + 1
    /\ UNCHANGED <<supply, ledger, mapping, task, held, alerted, wasLow, tasks>>

\* The goroutine reads; whether the owner is told is up to the settings.  The
\* message may be on its way for long, and says what was read.
SendLowStockAlert ==
    /\ alertsDue > 0
    /\ alertsDue' = alertsDue - 1
    /\ alerted' \in {alerted, alerted \cup LowStock}
    /\ UNCHANGED <<supply, ledger, mapping, task, held, wasLow, tasks, entries>>

ItemLists == UNION {[1 .. n -> Services] : n \in 1 .. MaxItems}

InventoryRequest ==
    \/ \E s \in Supplies : \E min \in {0, Threshold} :
          \/ CreateSupply(s, min)
          \/ \E active \in BOOLEAN : UpdateSupply(s, min, active)
    \/ \E v \in Services, s \in Supplies :
          \/ \E q \in Quantities : CreateMapping(v, s, q) \/ UpdateMapping(v, s, q)
          \/ DeleteMapping(v, s)
    \/ DailyAlert

InventoryNext ==
    \/ InventoryRequest
    \/ SendLowStockAlert
    \/ \E c \in Clerks :
          \/ \E s \in Supplies, kind \in Kinds, q \in Quantities : RecordMovement(c, s, kind, q)
          \/ \E op \in {"sale", "order"}, items \in ItemLists : DeductSale(c, op, items)
          \/ ReadMappings(c) \/ MakeMovement(c) \/ MovementFails(c) \/ MovementDeadlock(c)
          \/ StartAlert(c) \/ CommitTask(c) \/ RollBackTask(c)

InventorySpec == InventoryInit /\ [][InventoryNext]_inventoryVars

-----------------------------------------------------------------------------
(***************************************************************************)
(* Properties.                                                             *)
(***************************************************************************)
Distance(a, b) == IF a > b THEN a - b ELSE b - a

\* The movements of a supply, in the order they were committed in and starting
\* over at each adjustment, account for its stock, up to a cent for each
\* quantity with half a cent: the movement rounds it up, and the stock after a
\* deduction, or after a delivery while it is negative, rounds it down
\* (inventory_service.go:175-227, 458-484; the columns of migrations/00025_inventory_module.sql).
LedgerExplainsStock ==
    \A s \in Supplies :
        Known(s) => Distance(supply[s].stock, ledger[s].sum) <= ledger[s].halves

\* A sale that is about to be committed has taken from each supply what the
\* mappings of its items asked for, though the loop goes on after an error
\* (sync_service.go:399-418, inventory_service.go:463-482).
SalesDeductWhole ==
    \A c \in Clerks :
        task[c].at = "done" /\ ~task[c].broken /\ task[c].op # "movement" =>
            task[c].took = task[c].owes

\* An alert is about stock that was low once what was sold had been saved, and
\* never about the deductions of an upload that came to nothing: it is started
\* by the upload, before its end (sync_service.go:424-445).
AlertedWasLow == alerted \subseteq wasLow

\* The stock is accounted for, by its movements and by the sales that were
\* deducted from it (inventory_service.go:175-227, 458-484, sync_service.go:399-418).
StockAccounted == LedgerExplainsStock /\ SalesDeductWhole
=============================================================================
