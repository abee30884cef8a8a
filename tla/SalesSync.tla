------------------------------ MODULE SalesSync ------------------------------
(***************************************************************************)
(* The sync upload (internal/service/sync_service.go with                  *)
(* internal/handler/pos/sync_handler.go), the monthly usage it is counted  *)
(* in (billing_service.go) and the cashiers' shifts its sales are linked   *)
(* to (shift_service.go).  Each request runs in the one transaction of     *)
(* middleware.TenantIsolation, PostgreSQL at READ COMMITTED.  A device     *)
(* uploads a sale as often as it likes, and its requests overlap.  What an *)
(* upload does to orders, stock and members is in OrderLifecycle and       *)
(* Loyalty.  There is one outlet; the sales of one upload name one shift,  *)
(* or none; every sale is paid in cash and has the amount 1; opening and   *)
(* closing cash, which only enter a sum and a difference, are left out.    *)
(***************************************************************************)
EXTENDS Integers, Sequences, FiniteSetsExt

CONSTANTS
    Requests,   \* slots for requests in progress
    Sales,      \* transactions.id, chosen by the devices
    Statuses,   \* what a device may say of a sale
    Cashiers,
    SoldBy,     \* SoldBy[s]: created_by of sale s
    Shifts,     \* shift ids, each a fresh UUID
    NoShift,    \* the device names no shift
    Limit,      \* max_transactions_per_month of the tenant's plan
    Months,     \* the last month, counted from 1 (bound)
    MaxBatch    \* sales in one upload (bound)

\* Each request holds a connection of the pool, whose MaxConns is 50.
ASSUME RequestsAssumption == IsFiniteSet(Requests)
ASSUME SoldByAssumption == SoldBy \in [Sales -> Cashiers]
ASSUME NoShiftAssumption == NoShift \notin Shifts
\* "-" stands for a sale that is not stored, which no device says of one.
ASSUME StatusesAssumption == "-" \notin Statuses
ASSUME LimitAssumption == Limit \in Nat \ {0}
ASSUME BoundsAssumption == Months \in Nat \ {0} /\ MaxBatch \in Nat \ {0}

VARIABLES
    sale,     \* sale[s]: status of the committed row
    linked,   \* linked[h]: the sales of shift_transactions
    shift,    \* shift[h]: the committed row
    usage,    \* usage[m]: transaction_count of month m
    month,    \* the current month
    pc,       \* how far a request has come
    job,      \* what it is about
    work      \* what it has written and not committed

tables == <<sale, linked, shift, usage>>
vars == <<sale, linked, shift, usage, month, pc, job, work>>

Rows == [cashier: Cashiers, status: {"open", "closed"}, expected: Nat]
Unopened == [status |-> "unopened"]
Unwritten == [status |-> "unwritten"]

Items == [sale: Sales, status: Statuses]
Batches == UNION {[1 .. n -> Items] : n \in 1 .. MaxBatch}
Uploads == [todo: Seq(Items), size: Nat, shift: Shifts \cup {NoShift}]
Countings == [size: Nat, month: 1 .. Months]
Openings == [opens: Shifts, cashier: Cashiers]
Closings == [closes: Shifts, expected: Nat]
NoJob == [none |-> TRUE]

Writes == [sale: [Sales -> Statuses \cup {"-"}], linked: [Shifts -> SUBSET Sales],
           shift: [Shifts -> Rows \cup {Unwritten}], usage: [1 .. Months -> Nat]]
Clean == [sale |-> [s \in Sales |-> "-"], linked |-> [h \in Shifts |-> {}],
          shift |-> [h \in Shifts |-> Unwritten], usage |-> [m \in 1 .. Months |-> 0]]

TypeOK ==
    /\ sale \in [Sales -> Statuses \cup {"-"}]
    /\ linked \in [Shifts -> SUBSET Sales]
    /\ shift \in [Shifts -> Rows \cup {Unopened}]
    /\ usage \in [1 .. Months -> Nat]
    /\ month \in 1 .. Months
    /\ pc \in [Requests -> {"idle", "upload", "linked", "counting", "opening", "closing", "summed",
                            "written", "failed"}]
    /\ job \in [Requests -> Uploads \cup Countings \cup Openings \cup Closings \cup {NoJob}]
    /\ work \in [Requests -> Writes]

Init ==
    /\ sale = [s \in Sales |-> "-"]
    /\ linked = [h \in Shifts |-> {}]
    /\ shift = [h \in Shifts |-> Unopened]
    /\ usage = [m \in 1 .. Months |-> 0]
    /\ month = 1
    /\ pc = [r \in Requests |-> "idle"]
    /\ job = [r \in Requests |-> NoJob]
    /\ work = [r \in Requests |-> Clean]

-----------------------------------------------------------------------------
(***************************************************************************)
(* Locks, all held to the end of the transaction: the sales a request has  *)
(* written, the month it has counted in, the shift it has opened or closed.*)
(***************************************************************************)
LocksSale(r, s) == work[r].sale[s] # "-"
LocksMonth(r, m) == work[r].usage[m] > 0
LocksShift(r, h) == work[r].shift[h] # Unwritten

NextItem(r) == Head(job[r].todo)
Inserting(r) == pc[r] = "upload" /\ job[r].todo # <<>>

\* The open shift of c that q has written or is closing, either of which makes
\* the insertion of another open shift of c wait.
OpensFor(q, c) ==
    \E h \in Shifts : LocksShift(q, h) /\ work[q].shift[h].cashier = c

WaitsFor(q, r) ==
    /\ q # r
    /\ \/ Inserting(q) /\ LocksSale(r, NextItem(q).sale)
       \/ pc[q] = "counting" /\ LocksMonth(r, job[q].month)
       \/ pc[q] = "opening" /\ OpensFor(r, job[q].cashier)
       \/ pc[q] = "summed" /\ LocksShift(r, job[q].closes)
Waits(q) == \E r \in Requests : WaitsFor(q, r)

\* The requests that wait for one another in a circle.
Deadlocked(D) == D # {} /\ \A q \in D : \E r \in D : WaitsFor(q, r)

End(r) ==
    /\ pc' = [pc EXCEPT ![r] = "idle"]
    /\ job' = [job EXCEPT ![r] = NoJob]
    /\ work' = [work EXCEPT ![r] = Clean]

\* A statement fails: PostgreSQL aborts the transaction and drops its locks;
\* nothing the request still does has an effect, whatever it answers.
Break(r) ==
    /\ pc' = [pc EXCEPT ![r] = "failed"]
    /\ work' = [work EXCEPT ![r] = Clean]
    /\ UNCHANGED <<tables, month, job>>

-----------------------------------------------------------------------------
(***************************************************************************)
(* SyncHandler.Upload.                                                     *)
(***************************************************************************)
\* Mutant of WithinLimit: the period is not that of the current month.
WithinFirstMonth == usage[1] < Limit

\* CheckTransactionLimit reads the committed usage of the current month.
WithinLimit == usage[month] < Limit

BeginUpload(r, batch, h) ==
    /\ pc[r] = "idle"
    /\ WithinLimit
    /\ pc' = [pc EXCEPT ![r] = "upload"]
    /\ job' = [job EXCEPT ![r] = [todo |-> batch, size |-> Len(batch), shift |-> h]]
    /\ UNCHANGED <<tables, month, work>>

\* INSERT ... ON CONFLICT (id) DO UPDATE SET status: it waits for another
\* upload of the sale, and counts as an insertion in either case.
InsertSale(r) ==
    /\ Inserting(r)
    /\ ~Waits(r)
    /\ work' = [work EXCEPT ![r].sale[NextItem(r).sale] = NextItem(r).status]
    /\ job' = [job EXCEPT ![r].todo = Tail(@)]
    /\ UNCHANGED <<tables, month, pc>>

\* The shift the device names, or else the committed open one of the cashier.
ShiftFor(r, s, h) ==
    \/ h = job[r].shift
    \/ /\ job[r].shift = NoShift
       /\ shift[h].status = "open"
       /\ shift[h].cashier = SoldBy[s]

LinksOf(r) == [h \in Shifts |-> {s \in Sales : LocksSale(r, s) /\ ShiftFor(r, s, h)}]

\* Mutant of LinkShifts: shift_transactions does not refer to shifts.
LinkUnchecked(r) ==
    /\ pc[r] = "upload"
    /\ job[r].todo = <<>>
    /\ work' = [work EXCEPT ![r].linked = LinksOf(r)]
    /\ pc' = [pc EXCEPT ![r] = "linked"]
    /\ UNCHANGED <<tables, month, job>>

LinkShifts(r) ==
    /\ pc[r] = "upload"
    /\ job[r].todo = <<>>
    /\ job[r].shift # NoShift => shift[job[r].shift] # Unopened
    /\ work' = [work EXCEPT ![r].linked = LinksOf(r)]
    /\ pc' = [pc EXCEPT ![r] = "linked"]
    /\ UNCHANGED <<tables, month, job>>

\* The foreign key refuses a shift that is not committed; the error is logged.
LinkFails(r) ==
    /\ pc[r] = "upload"
    /\ job[r].todo = <<>>
    /\ job[r].shift # NoShift
    /\ shift[job[r].shift] = Unopened
    /\ Break(r)

\* IncrementUsage looks at the clock again, and then waits for the month's row.
ChooseMonth(r) ==
    /\ pc[r] = "linked"
    /\ job' = [job EXCEPT ![r] = [size |-> job[r].size, month |-> month]]
    /\ pc' = [pc EXCEPT ![r] = "counting"]
    /\ UNCHANGED <<tables, month, work>>

IncrementUsage(r) ==
    /\ pc[r] = "counting"
    /\ ~Waits(r)
    /\ work' = [work EXCEPT ![r].usage[job[r].month] = job[r].size]
    /\ pc' = [pc EXCEPT ![r] = "written"]
    /\ UNCHANGED <<tables, month, job>>

-----------------------------------------------------------------------------
(***************************************************************************)
(* OpenShift and CloseShift.                                               *)
(***************************************************************************)
HasOpenShift(c) == \E h \in Shifts : shift[h].status = "open" /\ shift[h].cashier = c

Fresh(h) ==
    /\ shift[h] = Unopened
    /\ \A q \in Requests : job[q] \notin [opens: {h}, cashier: Cashiers]

BeginOpen(r, h, c) ==
    /\ pc[r] = "idle"
    /\ Fresh(h)
    /\ ~HasOpenShift(c)
    /\ pc' = [pc EXCEPT ![r] = "opening"]
    /\ job' = [job EXCEPT ![r] = [opens |-> h, cashier |-> c]]
    /\ UNCHANGED <<tables, month, work>>

WriteShift(r, h, row) ==
    /\ work' = [work EXCEPT ![r].shift[h] = row]
    /\ pc' = [pc EXCEPT ![r] = "written"]
    /\ UNCHANGED <<tables, month, job>>

InsertOpen(r) ==
    WriteShift(r, job[r].opens,
               [cashier |-> job[r].cashier, status |-> "open", expected |-> 0])

\* Mutant of InsertShift: there is no unique index, only the count before it.
InsertUnchecked(r) == pc[r] = "opening" /\ InsertOpen(r)

\* The unique index on open shifts makes the insertion wait for a transaction
\* that opens or closes a shift of the cashier.
InsertShift(r) ==
    /\ pc[r] = "opening"
    /\ ~Waits(r)
    /\ ~HasOpenShift(job[r].cashier)
    /\ InsertOpen(r)

\* 409: a shift has been opened since the count.
DuplicateShift(r) ==
    /\ pc[r] = "opening"
    /\ ~Waits(r)
    /\ HasOpenShift(job[r].cashier)
    /\ Break(r)

\* ShiftHandler.Close finds the cashier's open shift, CloseShift finds it again.
BeginClose(r, h) ==
    /\ pc[r] = "idle"
    /\ shift[h].status = "open"
    /\ pc' = [pc EXCEPT ![r] = "closing"]
    /\ job' = [job EXCEPT ![r] = [closes |-> h, expected |-> 0]]
    /\ UNCHANGED <<tables, month, work>>

\* Mutant of CashOf: every sale of the cashier counts.
CashOfCashier(h) ==
    Cardinality({s \in Sales : SoldBy[s] = shift[h].cashier /\ sale[s] = "completed"})

CashOf(h) == Cardinality({s \in linked[h] : sale[s] = "completed"})

SumCash(r) ==
    /\ pc[r] = "closing"
    /\ job' = [job EXCEPT ![r].expected = CashOf(job[r].closes)]
    /\ pc' = [pc EXCEPT ![r] = "summed"]
    /\ UNCHANGED <<tables, month, work>>

\* The UPDATE names the id alone: it waits for the row and closes it, even if
\* another request has closed it meanwhile.
WriteClose(r) ==
    LET h == job[r].closes
    IN  /\ pc[r] = "summed"
        /\ ~Waits(r)
        /\ WriteShift(r, h, [shift[h] EXCEPT !.status = "closed",
                                             !.expected = job[r].expected])

-----------------------------------------------------------------------------
(***************************************************************************)
(* The end of the request's transaction, and time.                         *)
(***************************************************************************)
\* Mutant of CountedWith: SET transaction_count = EXCLUDED.transaction_count.
CountReplaced(r, m) ==
    IF LocksMonth(r, m) THEN work[r].usage[m] ELSE usage[m]

\* Mutant of CountedWith: the quota that is left is counted instead.
CountedDown(r, m) == usage[m] - work[r].usage[m]

\* transaction_count + n
CountedWith(r, m) == usage[m] + work[r].usage[m]

Commit(r) ==
    /\ pc[r] = "written"
    /\ sale' = [s \in Sales |-> IF LocksSale(r, s) THEN work[r].sale[s] ELSE sale[s]]
    /\ linked' = [h \in Shifts |-> linked[h] \cup work[r].linked[h]]
    /\ shift' = [h \in Shifts |-> IF LocksShift(r, h) THEN work[r].shift[h] ELSE shift[h]]
    /\ usage' = [m \in 1 .. Months |-> CountedWith(r, m)]
    /\ End(r)
    /\ UNCHANGED month

\* The commit of an aborted transaction rolls it back.
EndFailed(r) ==
    /\ pc[r] = "failed"
    /\ End(r)
    /\ UNCHANGED <<tables, month>>

\* The client goes away, any statement or the commit fails, or the server dies.
\* The response may have been sent.
Abort(r) ==
    /\ pc[r] \notin {"idle", "failed"}
    /\ End(r)
    /\ UNCHANGED <<tables, month>>

DeadlockVictim(r) ==
    /\ \E D \in SUBSET Requests : Deadlocked(D) /\ r \in D
    /\ Break(r)

NextMonth ==
    /\ month < Months
    /\ month' = month + 1
    /\ UNCHANGED <<tables, pc, job, work>>

Next ==
    \/ \E r \in Requests :
          \/ \E b \in Batches, h \in Shifts \cup {NoShift} : BeginUpload(r, b, h)
          \/ InsertSale(r)
          \/ LinkShifts(r)
          \/ LinkFails(r)
          \/ ChooseMonth(r)
          \/ IncrementUsage(r)
          \/ \E h \in Shifts : BeginClose(r, h) \/ \E c \in Cashiers : BeginOpen(r, h, c)
          \/ InsertShift(r)
          \/ DuplicateShift(r)
          \/ SumCash(r)
          \/ WriteClose(r)
          \/ DeadlockVictim(r)
          \/ Commit(r)
          \/ EndFailed(r)
          \/ Abort(r)
    \/ NextMonth

Spec == Init /\ [][Next]_vars

-----------------------------------------------------------------------------
(***************************************************************************)
(* Properties                                                              *)
(***************************************************************************)
Stored == {s \in Sales : sale[s] # "-"}
OpenOf(c, h) ==
    LET open == [cashier |-> c, status |-> "open", expected |-> 0]
    IN  shift[h] = open \/ \E r \in Requests : work[r].shift[h] = open

\* A cashier has at most one open shift, committed or about to be, although
\* OpenShift only counts the committed ones before it inserts.
OneOpenShift ==
    \A c \in Cashiers, g, h \in Shifts :
        OpenOf(c, g) /\ OpenOf(c, h) => g = h

\* No sale is stored without being counted, in whichever month its upload ended
\* and whatever became of the error that IncrementUsage returned.
SalesCounted == Cardinality(Stored) <= MapThenSumSet(LAMBDA m : usage[m], 1 .. Months)

\* The plan's limit is checked before an upload on a usage that other uploads
\* are about to change, in a month that may end: it can be passed, but by no
\* more than what the requests in progress bring (CheckTransactionLimit
\* against IncrementUsage).
OvershootBounded ==
    \A m \in 1 .. Months : usage[m] <= Limit - 1 + Cardinality(Requests) * MaxBatch

\* What a shift is linked to is stored, the shift was opened, and what it was
\* closed with is no more than what it is linked to, although uploads go on
\* linking to a shift that is being closed (LinkShifts against CloseShift).
ShiftsBacked ==
    \A h \in Shifts :
        /\ linked[h] \subseteq Stored
        /\ linked[h] # {} => shift[h] # Unopened
        /\ shift[h].status = "closed" => shift[h].expected <= Cardinality(linked[h])
=============================================================================
