-------------------------- MODULE SalesSync_proofs --------------------------
(***************************************************************************)
(* Proofs about SalesSync for any number of requests, sales, cashiers,     *)
(* shifts and months: one open shift for each cashier, no sale stored      *)
(* without being counted, shifts backed by what they are linked to, and    *)
(* the bound on what concurrent uploads pass the plan's limit by.          *)
(***************************************************************************)
EXTENDS SalesSync, FiniteSums_proofs, SequenceTheorems

(***************************************************************************)
(* The inductive invariant: what each request has done so far.             *)
(***************************************************************************)
Locked(r) == {s \in Sales : LocksSale(r, s)}

NoSales(r) == \A s \in Sales : work[r].sale[s] = "-"
NoLinks(r) == \A h \in Shifts : work[r].linked[h] = {}
NoShifts(r) == \A h \in Shifts : work[r].shift[h] = Unwritten
NoUsage(r) == \A m \in 1 .. Months : work[r].usage[m] = 0

\* The request has locked no more sales than it counts.
LockedWithin(r, n) == IsFiniteSet(Locked(r)) /\ Cardinality(Locked(r)) <= n

\* It links sales of its own, and only to a shift that has been opened.
LinksBacked(r) ==
    \A h \in Shifts :
        /\ work[r].linked[h] \subseteq Locked(r)
        /\ work[r].linked[h] # {} => shift[h] # Unopened

\* It is on its way to count between one and MaxBatch sales.
Uploading(r) ==
    /\ job[r].size \in 1 .. MaxBatch
    /\ LockedWithin(r, job[r].size)
    /\ NoShifts(r)

Closable(r) == job[r] \in Closings /\ shift[job[r].closes] # Unopened
Covered(r, n) == n <= Cardinality(linked[job[r].closes])

WrittenUpload(r) ==
    /\ job[r] \in Countings /\ Uploading(r) /\ LinksBacked(r)
    /\ job[r].month <= month
    /\ \A m \in 1 .. Months :
          work[r].usage[m] = IF m = job[r].month THEN job[r].size ELSE 0

WrittenOpen(r) ==
    /\ job[r] \in Openings
    /\ NoSales(r) /\ NoLinks(r) /\ NoUsage(r)
    /\ \A h \in Shifts : h # job[r].opens => work[r].shift[h] = Unwritten
    /\ work[r].shift[job[r].opens].status = "open"

WrittenClose(r) ==
    /\ Closable(r)
    /\ NoSales(r) /\ NoLinks(r) /\ NoUsage(r)
    /\ \A h \in Shifts : h # job[r].closes => work[r].shift[h] = Unwritten
    /\ work[r].shift[job[r].closes].status = "closed"
    /\ Covered(r, work[r].shift[job[r].closes].expected)

RequestOK(r) ==
    /\ pc[r] \in {"idle", "opening", "closing", "summed", "failed"} =>
          NoSales(r) /\ NoLinks(r) /\ NoShifts(r) /\ NoUsage(r)
    /\ pc[r] = "upload" =>
          /\ job[r] \in Uploads /\ Uploading(r) /\ NoLinks(r) /\ NoUsage(r)
          /\ Cardinality(Locked(r)) + Len(job[r].todo) <= job[r].size
    /\ pc[r] = "linked" =>
          job[r] \in Uploads /\ Uploading(r) /\ LinksBacked(r) /\ NoUsage(r)
    /\ pc[r] = "counting" =>
          /\ job[r] \in Countings /\ Uploading(r) /\ LinksBacked(r) /\ NoUsage(r)
          /\ job[r].month <= month
    /\ pc[r] = "opening" => job[r] \in Openings
    /\ pc[r] \in {"closing", "summed"} => Closable(r)
    /\ pc[r] = "summed" => Covered(r, job[r].expected)
    /\ pc[r] = "written" => WrittenUpload(r) \/ WrittenOpen(r) \/ WrittenClose(r)

Counted == Cardinality(Stored) <= SumOver(usage, 1 .. Months)
NoneAhead == \A m \in 1 .. Months : m > month => usage[m] = 0

Inv ==
    /\ TypeOK
    /\ \A r \in Requests : RequestOK(r)
    /\ ShiftsBacked
    /\ NoneAhead
    /\ IsFiniteSet(Stored)
    /\ Counted

(***************************************************************************)
(* The strengthening of OneOpenShift: a request that has written an open   *)
(* shift of a cashier is the only one, and none is committed.              *)
(***************************************************************************)
IsOpen(row, c) == row.status = "open" /\ row.cashier = c
Opened(r, c) == \E h \in Shifts : IsOpen(work[r].shift[h], c)

ShiftsInv ==
    /\ \A g, h \in Shifts, c \in Cashiers : IsOpen(shift[g], c) /\ IsOpen(shift[h], c) => g = h
    /\ \A r \in Requests, c \in Cashiers :
          Opened(r, c) => /\ ~HasOpenShift(c)
                          /\ \A q \in Requests \ {r} : ~Opened(q, c)

(***************************************************************************)
(* The strengthening of OvershootBounded: once a month has reached the     *)
(* limit, what it holds and what the requests that may still add to it     *)
(* bring are within the bound.                                             *)
(***************************************************************************)
MayAdd(r, m) ==
    \/ pc[r] \in {"upload", "linked"} /\ month <= m
    \/ pc[r] = "counting" /\ job[r].month = m
    \/ pc[r] = "written" /\ work[r].usage[m] > 0

Adding(m) == {r \in Requests : MayAdd(r, m)}

LimitInv ==
    \A m \in 1 .. Months :
        \/ usage[m] < Limit
        \/ usage[m] + MaxBatch * Cardinality(Adding(m))
               <= Limit - 1 + MaxBatch * Cardinality(Requests)

\* The form of SalesCounted that the proofs use.
LEMMA CountedSales == Counted <=> SalesCounted
  BY DEF Counted, SalesCounted, SumOver

-----------------------------------------------------------------------------
(***************************************************************************)
(* What every action leaves alone.                                         *)
(***************************************************************************)
\* The months are finitely many.
LEMMA MonthsFinite == IsFiniteSet(1 .. Months)
  BY BoundsAssumption, FS_Interval

\* The tables only gain: shifts stay opened, links stay, time does not go back.
Grown ==
    /\ \A h \in Shifts : shift[h] # Unopened => shift'[h] # Unopened
    /\ \A h \in Shifts : /\ Cardinality(linked[h]) \in Nat
                         /\ Cardinality(linked'[h]) \in Nat
                         /\ Cardinality(linked[h]) <= Cardinality(linked'[h])
    /\ month <= month'

SameRequest(q) == pc'[q] = pc[q] /\ job'[q] = job[q] /\ work'[q] = work[q]

\* What a shift is linked to is finite.
LEMMA LinkedFinite ==
    ASSUME TypeOK, ShiftsBacked, IsFiniteSet(Stored), NEW h \in Shifts
    PROVE  IsFiniteSet(linked[h]) /\ Cardinality(linked[h]) \in Nat
  <1>1. linked[h] \subseteq Stored
    BY DEF ShiftsBacked
  <1>2. QED
    BY <1>1, FS_Subset, FS_CardinalityType

\* A request that does nothing keeps its invariant when the tables gain.
LEMMA RequestKept ==
    ASSUME TypeOK, TypeOK', NEW q \in Requests, RequestOK(q), SameRequest(q), Grown
    PROVE  RequestOK(q)'
  <1>1. Locked(q)' = Locked(q)
    BY DEF Locked, LocksSale, SameRequest
  <1>2. /\ NoSales(q)' = NoSales(q)
        /\ NoLinks(q)' = NoLinks(q)
        /\ NoShifts(q)' = NoShifts(q)
        /\ NoUsage(q)' = NoUsage(q)
    BY DEF NoSales, NoLinks, NoShifts, NoUsage, SameRequest
  <1>3. Uploading(q) => Uploading(q)'
    BY <1>1, <1>2 DEF Uploading, LockedWithin, SameRequest
  <1>4. LinksBacked(q) => LinksBacked(q)'
    BY <1>1 DEF LinksBacked, SameRequest, Grown
  <1>5. Closable(q) => Closable(q)'
    BY DEF Closable, SameRequest, Grown, Closings
  <1>6. ASSUME NEW n \in Nat, Closable(q), Covered(q, n)
        PROVE  n <= Cardinality(linked'[job'[q].closes])
    BY <1>6 DEF Covered, Closable, SameRequest, Grown, Closings
  <1>7. ASSUME job[q] \in Countings, job[q].month <= month
        PROVE  job'[q].month <= month'
    BY <1>7 DEF Countings, SameRequest, Grown, TypeOK
  <1>8. WrittenUpload(q) => WrittenUpload(q)'
    BY <1>3, <1>4, <1>7 DEF WrittenUpload, SameRequest
  <1>9. WrittenOpen(q) => WrittenOpen(q)'
    BY <1>2 DEF WrittenOpen, SameRequest
  <1>10. WrittenClose(q) => WrittenClose(q)'
    <2>1. SUFFICES ASSUME WrittenClose(q) PROVE WrittenClose(q)'
      OBVIOUS
    <2>2. job[q].closes \in Shifts
      BY <2>1 DEF WrittenClose, Closable, Closings
    <2> DEFINE row == work[q].shift[job[q].closes]
    <2>3. row \in Rows
      BY <2>1, <2>2 DEF WrittenClose, TypeOK, Writes, Unwritten
    <2>4. row.expected \in Nat
      BY <2>3 DEF Rows
    <2>5. Covered(q, row.expected)'
      BY <2>1, <2>4, <1>6 DEF WrittenClose, Covered, SameRequest
    <2>6. QED
      BY <2>1, <2>5, <1>2, <1>5 DEF WrittenClose, SameRequest
  <1>11. pc[q] = "summed" => Covered(q, job[q].expected)'
    BY <1>6 DEF RequestOK, Covered, Closable, Closings, SameRequest
  <1>12. QED
    <2>1. (pc[q] \in {"idle", "opening", "closing", "summed", "failed"} =>
            NoSales(q) /\ NoLinks(q) /\ NoShifts(q) /\ NoUsage(q))'
      BY <1>2 DEF RequestOK, SameRequest
    <2>2. (pc[q] = "upload" =>
            /\ job[q] \in Uploads /\ Uploading(q) /\ NoLinks(q) /\ NoUsage(q)
            /\ Cardinality(Locked(q)) + Len(job[q].todo) <= job[q].size)'
      BY <1>1, <1>2, <1>3 DEF RequestOK, SameRequest
    <2>3. (pc[q] = "linked" =>
            job[q] \in Uploads /\ Uploading(q) /\ LinksBacked(q) /\ NoUsage(q))'
      BY <1>2, <1>3, <1>4 DEF RequestOK, SameRequest
    <2>4. (pc[q] = "counting" =>
            /\ job[q] \in Countings /\ Uploading(q) /\ LinksBacked(q) /\ NoUsage(q)
            /\ job[q].month <= month)'
      BY <1>2, <1>3, <1>4, <1>7 DEF RequestOK, SameRequest
    <2>5. (pc[q] = "opening" => job[q] \in Openings)'
      BY DEF RequestOK, SameRequest
    <2>6. (pc[q] \in {"closing", "summed"} => Closable(q))'
      BY <1>5 DEF RequestOK, SameRequest
    <2>7. (pc[q] = "summed" => Covered(q, job[q].expected))'
      BY <1>11 DEF SameRequest, Covered
    <2>8. (pc[q] = "written" => WrittenUpload(q) \/ WrittenOpen(q) \/ WrittenClose(q))'
      BY <1>8, <1>9, <1>10 DEF RequestOK, SameRequest
    <2>9. QED
      BY <2>1, <2>2, <2>3, <2>4, <2>5, <2>6, <2>7, <2>8 DEF RequestOK

\* A step of request r alone that writes nothing to the tables.
Alone(r) ==
    /\ UNCHANGED <<tables, month>>
    /\ \A q \in Requests \ {r} : SameRequest(q)

\* A step of one request that leaves the tables alone keeps the invariant if it
\* keeps that of the request.
LEMMA InvKept ==
    ASSUME Inv, TypeOK', NEW r \in Requests, Alone(r), RequestOK(r)'
    PROVE  Inv'
  <1>1. sale' = sale /\ linked' = linked /\ shift' = shift /\ usage' = usage /\ month' = month
    BY DEF Alone, tables
  <1>2. \A h \in Shifts : Cardinality(linked[h]) \in Nat
    BY LinkedFinite DEF Inv
  <1>3. Grown
    BY <1>1, <1>2 DEF Grown, Inv, TypeOK
  <1>4. \A q \in Requests : RequestOK(q)'
    <2>1. \A q \in Requests \ {r} : RequestOK(q)'
      BY <1>3, RequestKept DEF Inv, Alone
    <2>2. QED
      BY <2>1
  <1>5. Stored' = Stored
    BY <1>1 DEF Stored
  <1>6. ShiftsBacked'
    BY <1>1, <1>5 DEF ShiftsBacked, Inv
  <1>7. NoneAhead'
    BY <1>1 DEF NoneAhead, Inv
  <1>8. Counted'
    BY <1>1, <1>5 DEF Counted, Inv
  <1>9. QED
    BY <1>4, <1>5, <1>6, <1>7, <1>8 DEF Inv

\* A request begins with nothing written.
LEMMA CleanTyped == Clean \in Writes
  BY BoundsAssumption DEF Clean, Writes

\* Without writes there is nothing to account for.
LEMMA CleanRequest ==
    ASSUME NEW r \in Requests, work'[r] = Clean, pc'[r] \in {"idle", "failed"}
    PROVE  RequestOK(r)'
  <1>1. NoSales(r)' /\ NoLinks(r)' /\ NoShifts(r)' /\ NoUsage(r)'
    BY DEF NoSales, NoLinks, NoShifts, NoUsage, Clean
  <1>2. QED
    BY <1>1 DEF RequestOK

LEMMA BreakKeeps ==
    ASSUME Inv, NEW r \in Requests, Break(r)
    PROVE  Inv' /\ Alone(r) /\ pc'[r] = "failed" /\ work'[r] = Clean
  <1>1. TypeOK'
    BY CleanTyped DEF Inv, TypeOK, Break, tables
  <1>2. pc'[r] = "failed" /\ work'[r] = Clean /\ Alone(r)
    BY DEF Inv, TypeOK, Break, Alone, SameRequest
  <1>3. QED
    BY <1>1, <1>2, CleanRequest, InvKept

LEMMA EndKeeps ==
    ASSUME Inv, NEW r \in Requests, End(r), UNCHANGED <<tables, month>>
    PROVE  Inv' /\ Alone(r) /\ pc'[r] = "idle" /\ work'[r] = Clean
  <1>1. TypeOK'
    BY CleanTyped DEF Inv, TypeOK, End, tables
  <1>2. pc'[r] = "idle" /\ work'[r] = Clean /\ Alone(r)
    BY DEF Inv, TypeOK, End, Alone, SameRequest
  <1>3. QED
    BY <1>1, <1>2, CleanRequest, InvKept

-----------------------------------------------------------------------------
(***************************************************************************)
(* The steps of an upload.                                                 *)
(***************************************************************************)
\* Writing a sale leaves the other writes.
LEMMA WriteSale ==
    ASSUME NEW w \in Writes, NEW v \in [Sales -> Statuses \cup {"-"}], NEW x,
           x = [w EXCEPT !.sale = v]
    PROVE  /\ x \in Writes /\ x.sale = v
           /\ x.linked = w.linked /\ x.shift = w.shift /\ x.usage = w.usage
  BY DEF Writes

\* Counting leaves the other writes.
LEMMA WriteUsage ==
    ASSUME NEW w \in Writes, NEW v \in [1 .. Months -> Nat], NEW x,
           x = [w EXCEPT !.usage = v]
    PROVE  /\ x \in Writes /\ x.usage = v
           /\ x.sale = w.sale /\ x.linked = w.linked /\ x.shift = w.shift
  BY DEF Writes

\* A batch is a sequence of items, no longer than MaxBatch.
LEMMA BatchIsSeq ==
    ASSUME NEW b \in Batches
    PROVE  b \in Seq(Items) /\ Len(b) \in 1 .. MaxBatch
  <1>1. PICK n \in 1 .. MaxBatch : b \in [1 .. n -> Items]
    BY DEF Batches
  <1>2. n \in Nat /\ b \in Seq(Items) /\ Len(b) = n
    BY <1>1, BoundsAssumption
  <1>3. QED
    BY <1>2

LEMMA BeginUploadKeeps ==
    ASSUME Inv, NEW r \in Requests, NEW b \in Batches, NEW h \in Shifts \cup {NoShift},
           BeginUpload(r, b, h)
    PROVE  Inv'
  <1>1. TypeOK'
    BY BatchIsSeq DEF Inv, TypeOK, BeginUpload, tables, Uploads
  <1>2. Alone(r)
    BY DEF Inv, TypeOK, BeginUpload, Alone, SameRequest
  <1>3. /\ pc[r] = "idle" /\ pc'[r] = "upload"
        /\ job'[r] = [todo |-> b, size |-> Len(b), shift |-> h]
        /\ work'[r] = work[r]
    BY DEF Inv, TypeOK, BeginUpload
  <1>4. NoSales(r) /\ NoLinks(r) /\ NoShifts(r) /\ NoUsage(r)
    BY <1>3 DEF Inv, RequestOK
  <1>5. NoLinks(r)' /\ NoShifts(r)' /\ NoUsage(r)'
    BY <1>3, <1>4 DEF NoLinks, NoShifts, NoUsage
  <1>6. Locked(r)' = {}
    BY <1>3, <1>4 DEF Locked, LocksSale, NoSales
  <1>7. /\ job'[r] \in Uploads /\ job'[r].size \in 1 .. MaxBatch
        /\ Len(job'[r].todo) = job'[r].size
    BY <1>3, BatchIsSeq DEF Uploads
  <1>8. Cardinality(Locked(r)') = 0 /\ IsFiniteSet(Locked(r)')
    BY <1>6, FS_EmptySet
  <1>9. Uploading(r)'
    BY <1>5, <1>7, <1>8 DEF Uploading, LockedWithin
  <1>10. (Cardinality(Locked(r)) + Len(job[r].todo) <= job[r].size)'
    BY <1>7, <1>8
  <1>11. RequestOK(r)'
    BY <1>3, <1>5, <1>7, <1>9, <1>10 DEF RequestOK
  <1>12. QED
    BY <1>1, <1>2, <1>11, InvKept

LEMMA InsertSaleKeeps ==
    ASSUME Inv, NEW r \in Requests, InsertSale(r)
    PROVE  Inv'
  <1>1. /\ pc[r] = "upload" /\ pc'[r] = "upload"
        /\ job[r].todo # <<>> /\ job[r] \in Uploads
    BY DEF Inv, TypeOK, InsertSale, Inserting, RequestOK
  <1> DEFINE t == NextItem(r)
  <1>2. /\ job[r].todo \in Seq(Items) /\ t \in Items /\ Tail(job[r].todo) \in Seq(Items)
        /\ Len(Tail(job[r].todo)) = Len(job[r].todo) - 1 /\ Len(job[r].todo) \in Nat
    BY <1>1, HeadTailProperties DEF Uploads, NextItem
  <1>3. job'[r] = [job[r] EXCEPT !.todo = Tail(job[r].todo)]
    BY DEF Inv, TypeOK, InsertSale
  <1>4. job'[r] \in Uploads /\ job'[r].todo = Tail(job[r].todo) /\ job'[r].size = job[r].size
    BY <1>1, <1>2, <1>3 DEF Uploads
  <1>5. t.sale \in Sales /\ t.status \in Statuses /\ t.status # "-"
    BY <1>2, StatusesAssumption DEF Items
  <1>6. /\ work[r] \in Writes
        /\ work'[r] = [work[r] EXCEPT !.sale = [work[r].sale EXCEPT ![t.sale] = t.status]]
    BY DEF Inv, TypeOK, InsertSale
  <1>7. /\ work'[r] \in Writes
        /\ work'[r].sale = [work[r].sale EXCEPT ![t.sale] = t.status]
        /\ work'[r].linked = work[r].linked /\ work'[r].shift = work[r].shift
        /\ work'[r].usage = work[r].usage
    <2> DEFINE v == [work[r].sale EXCEPT ![t.sale] = t.status]
    <2>1. work[r].sale \in [Sales -> Statuses \cup {"-"}]
      BY <1>6 DEF Writes
    <2>2. v \in [Sales -> Statuses \cup {"-"}]
      <3> HIDE DEF t
      <3>1. QED BY <1>5, <2>1
    <2> DEFINE w == work[r]
               x == work'[r]
    <2>3. w \in Writes /\ x = [w EXCEPT !.sale = v]
      BY <1>6
    <2> HIDE DEF v, w, x, t
    <2>4. /\ x \in Writes /\ x.sale = v
          /\ x.linked = w.linked /\ x.shift = w.shift /\ x.usage = w.usage
      BY <2>2, <2>3, WriteSale
    <2>5. QED
      BY <2>4 DEF v, w, x
  <1>8. TypeOK'
    <2>1. work' \in [Requests -> Writes]
      BY <1>7 DEF Inv, TypeOK, InsertSale
    <2>2. job' \in [Requests -> Uploads \cup Countings \cup Openings \cup Closings \cup {NoJob}]
      BY <1>4 DEF Inv, TypeOK, InsertSale
    <2>3. QED
      BY <2>1, <2>2 DEF Inv, TypeOK, InsertSale, tables
  <1>9. Alone(r)
    BY DEF Inv, TypeOK, InsertSale, Alone, SameRequest
  <1>10. Locked(r)' = Locked(r) \cup {t.sale}
    <2>1. work[r].sale \in [Sales -> Statuses \cup {"-"}]
      BY <1>6 DEF Writes
    <2> HIDE DEF t
    <2>2. QED
      BY <1>5, <1>7, <2>1 DEF Locked, LocksSale
  <1>11. /\ Uploading(r) /\ NoLinks(r) /\ NoUsage(r)
         /\ Cardinality(Locked(r)) + Len(job[r].todo) <= job[r].size
    BY <1>1 DEF Inv, RequestOK
  <1>12. /\ IsFiniteSet(Locked(r)) /\ Cardinality(Locked(r)) \in Nat /\ NoShifts(r)
         /\ job[r].size \in 1 .. MaxBatch
    BY <1>11, FS_CardinalityType DEF Uploading, LockedWithin
  <1>13. /\ IsFiniteSet(Locked(r)') /\ Cardinality(Locked(r)') \in Nat
         /\ Cardinality(Locked(r)') <= Cardinality(Locked(r)) + 1
    <2> DEFINE x == t.sale
               L == Locked(r)
    <2>1. Locked(r)' = L \cup {x} /\ IsFiniteSet(L) /\ Cardinality(L) \in Nat
      BY <1>10, <1>12
    <2> HIDE DEF x, L
    <2>2. /\ IsFiniteSet(L \cup {x})
          /\ Cardinality(L \cup {x}) = IF x \in L THEN Cardinality(L) ELSE Cardinality(L) + 1
      BY <2>1, FS_AddElement
    <2>3. QED
      BY <2>1, <2>2 DEF L
  <1>14. NoLinks(r)' /\ NoShifts(r)' /\ NoUsage(r)'
    BY <1>7, <1>11, <1>12 DEF NoLinks, NoShifts, NoUsage
  <1>15. Cardinality(Locked(r)') + Len(job'[r].todo) <= job'[r].size
    BY <1>2, <1>4, <1>11, <1>12, <1>13, BoundsAssumption
  <1>16. Len(job'[r].todo) \in Nat
    BY <1>2, <1>4
  <1>17. Uploading(r)'
    <2>1. Cardinality(Locked(r)') <= job'[r].size
      BY <1>4, <1>12, <1>13, <1>15, <1>16, BoundsAssumption
    <2>2. QED
      BY <2>1, <1>4, <1>12, <1>13, <1>14 DEF Uploading, LockedWithin
  <1>18. RequestOK(r)'
    BY <1>1, <1>4, <1>14, <1>15, <1>17 DEF RequestOK
  <1>19. QED
    BY <1>8, <1>9, <1>18, InvKept

LEMMA LinkShiftsKeeps ==
    ASSUME Inv, NEW r \in Requests, LinkShifts(r)
    PROVE  Inv'
  <1>1. /\ pc[r] = "upload" /\ pc'[r] = "linked" /\ job'[r] = job[r] /\ job[r] \in Uploads
        /\ Uploading(r) /\ NoUsage(r)
    BY DEF Inv, TypeOK, LinkShifts, RequestOK
  <1>2. LinksOf(r) \in [Shifts -> SUBSET Sales]
    BY DEF LinksOf
  <1>3. work[r] \in Writes /\ work'[r] = [work[r] EXCEPT !.linked = LinksOf(r)]
    BY DEF Inv, TypeOK, LinkShifts
  <1>4. /\ work'[r] \in Writes /\ work'[r].linked = LinksOf(r)
        /\ work'[r].sale = work[r].sale /\ work'[r].shift = work[r].shift
        /\ work'[r].usage = work[r].usage
    BY <1>2, <1>3 DEF Writes
  <1>5. TypeOK'
    <2>1. work' \in [Requests -> Writes]
      BY <1>4 DEF Inv, TypeOK, LinkShifts
    <2>2. QED
      BY <2>1 DEF Inv, TypeOK, LinkShifts, tables
  <1>6. Alone(r)
    BY DEF Inv, TypeOK, LinkShifts, Alone, SameRequest
  <1>7. Locked(r)' = Locked(r)
    BY <1>4 DEF Locked, LocksSale
  <1>8. NoShifts(r)' /\ NoUsage(r)' /\ Uploading(r)'
    BY <1>1, <1>4, <1>7 DEF NoShifts, NoUsage, Uploading, LockedWithin
  <1>9. LinksBacked(r)'
    <2>1. SUFFICES ASSUME NEW h \in Shifts
                   PROVE  /\ LinksOf(r)[h] \subseteq Locked(r)
                          /\ LinksOf(r)[h] # {} => shift[h] # Unopened
      BY <1>4, <1>6, <1>7 DEF LinksBacked, Alone, tables
    <2>2. LinksOf(r)[h] \subseteq Locked(r)
      BY DEF LinksOf, Locked
    <2>3. ASSUME LinksOf(r)[h] # {} PROVE shift[h] # Unopened
      <3>1. PICK s \in Sales : ShiftFor(r, s, h)
        BY <2>3 DEF LinksOf
      <3>2. CASE h = job[r].shift
        BY <3>2, NoShiftAssumption DEF LinkShifts
      <3>3. CASE shift[h].status = "open"
        BY <3>3 DEF Unopened
      <3>4. QED
        BY <3>1, <3>2, <3>3 DEF ShiftFor
    <2>4. QED
      BY <2>2, <2>3
  <1>10. RequestOK(r)'
    BY <1>1, <1>8, <1>9 DEF RequestOK
  <1>11. QED
    BY <1>5, <1>6, <1>10, InvKept

LEMMA ChooseMonthKeeps ==
    ASSUME Inv, NEW r \in Requests, ChooseMonth(r)
    PROVE  Inv'
  <1>1. /\ pc[r] = "linked" /\ pc'[r] = "counting" /\ work'[r] = work[r]
        /\ job'[r] = [size |-> job[r].size, month |-> month] /\ job[r] \in Uploads
        /\ Uploading(r) /\ NoUsage(r) /\ LinksBacked(r)
    BY DEF Inv, TypeOK, ChooseMonth, RequestOK
  <1>2. job'[r] \in Countings /\ job'[r].size = job[r].size /\ job'[r].month = month
    BY <1>1 DEF Countings, Uploads, Inv, TypeOK
  <1>3. TypeOK'
    <2>1. job' \in [Requests -> Uploads \cup Countings \cup Openings \cup Closings \cup {NoJob}]
      BY <1>2 DEF Inv, TypeOK, ChooseMonth
    <2>2. QED
      BY <2>1 DEF Inv, TypeOK, ChooseMonth, tables
  <1>4. Alone(r)
    BY DEF Inv, TypeOK, ChooseMonth, Alone, SameRequest
  <1>5. Locked(r)' = Locked(r)
    BY <1>1 DEF Locked, LocksSale
  <1>6. NoUsage(r)' /\ Uploading(r)'
    BY <1>1, <1>2, <1>5 DEF NoShifts, NoUsage, Uploading, LockedWithin
  <1>7. LinksBacked(r)'
    BY <1>1, <1>4, <1>5 DEF LinksBacked, Alone, tables
  <1>8. job'[r].month <= month'
    BY <1>2, <1>4 DEF Alone, Inv, TypeOK
  <1>9. RequestOK(r)'
    BY <1>1, <1>2, <1>6, <1>7, <1>8 DEF RequestOK
  <1>10. QED
    BY <1>3, <1>4, <1>9, InvKept

LEMMA IncrementUsageKeeps ==
    ASSUME Inv, NEW r \in Requests, IncrementUsage(r)
    PROVE  Inv'
  <1>1. /\ pc[r] = "counting" /\ pc'[r] = "written" /\ job'[r] = job[r] /\ job[r] \in Countings
        /\ Uploading(r) /\ NoUsage(r) /\ LinksBacked(r) /\ job[r].month <= month
    BY DEF Inv, TypeOK, IncrementUsage, RequestOK
  <1> DEFINE n == job[r].size
             m0 == job[r].month
  <1>2. n \in Nat /\ m0 \in 1 .. Months
    BY <1>1 DEF Countings
  <1>3. /\ work[r] \in Writes
        /\ work'[r] = [work[r] EXCEPT !.usage = [work[r].usage EXCEPT ![m0] = n]]
    BY DEF Inv, TypeOK, IncrementUsage
  <1>4. /\ work'[r] \in Writes /\ work'[r].usage = [work[r].usage EXCEPT ![m0] = n]
        /\ work'[r].sale = work[r].sale /\ work'[r].shift = work[r].shift
        /\ work'[r].linked = work[r].linked
    <2> DEFINE v == [work[r].usage EXCEPT ![m0] = n]
    <2>1. work[r].usage \in [1 .. Months -> Nat]
      BY <1>3 DEF Writes
    <2>2. v \in [1 .. Months -> Nat]
      <3> HIDE DEF n, m0
      <3>1. QED BY <1>2, <2>1
    <2> DEFINE w == work[r]
               x == work'[r]
    <2>3. w \in Writes /\ x = [w EXCEPT !.usage = v]
      BY <1>3
    <2> HIDE DEF v, w, x
    <2>4. /\ x \in Writes /\ x.usage = v
          /\ x.linked = w.linked /\ x.shift = w.shift /\ x.sale = w.sale
      BY <2>2, <2>3, WriteUsage
    <2>5. QED
      BY <2>4 DEF v, w, x
  <1>5. TypeOK'
    <2>1. work' \in [Requests -> Writes]
      BY <1>4 DEF Inv, TypeOK, IncrementUsage
    <2>2. QED
      BY <2>1 DEF Inv, TypeOK, IncrementUsage, tables
  <1>6. Alone(r)
    BY DEF Inv, TypeOK, IncrementUsage, Alone, SameRequest
  <1>7. Locked(r)' = Locked(r)
    BY <1>4 DEF Locked, LocksSale
  <1>8. Uploading(r)'
    BY <1>1, <1>4, <1>7 DEF NoShifts, Uploading, LockedWithin
  <1>9. LinksBacked(r)'
    BY <1>4, <1>6, <1>7, <1>1 DEF LinksBacked, Alone, tables
  <1>10. (\A m \in 1 .. Months : work[r].usage[m] = IF m = job[r].month THEN job[r].size ELSE 0)'
    <2>1. work[r].usage \in [1 .. Months -> Nat]
      BY <1>3 DEF Writes
    <2>2. QED
      BY <1>1, <1>2, <1>4, <2>1 DEF NoUsage
  <1>11. WrittenUpload(r)'
    BY <1>1, <1>6, <1>8, <1>9, <1>10 DEF WrittenUpload, Alone
  <1>12. RequestOK(r)'
    BY <1>1, <1>11 DEF RequestOK
  <1>13. QED
    BY <1>5, <1>6, <1>12, InvKept

-----------------------------------------------------------------------------
(***************************************************************************)
(* The steps that open and close a shift.                                  *)
(***************************************************************************)
LEMMA BeginOpenKeeps ==
    ASSUME Inv, NEW r \in Requests, NEW h \in Shifts, NEW c \in Cashiers, BeginOpen(r, h, c)
    PROVE  Inv'
  <1>1. /\ pc[r] = "idle" /\ pc'[r] = "opening" /\ work'[r] = work[r]
        /\ job'[r] = [opens |-> h, cashier |-> c]
    BY DEF Inv, TypeOK, BeginOpen
  <1>2. job'[r] \in Openings
    BY <1>1 DEF Openings
  <1>3. TypeOK'
    <2>1. job' \in [Requests -> Uploads \cup Countings \cup Openings \cup Closings \cup {NoJob}]
      BY <1>2 DEF Inv, TypeOK, BeginOpen
    <2>2. QED
      BY <2>1 DEF Inv, TypeOK, BeginOpen, tables
  <1>4. Alone(r)
    BY DEF Inv, TypeOK, BeginOpen, Alone, SameRequest
  <1>5. NoSales(r) /\ NoLinks(r) /\ NoShifts(r) /\ NoUsage(r)
    BY <1>1 DEF Inv, RequestOK
  <1>6. NoSales(r)' /\ NoLinks(r)' /\ NoShifts(r)' /\ NoUsage(r)'
    BY <1>1, <1>5 DEF NoSales, NoLinks, NoShifts, NoUsage
  <1>7. RequestOK(r)'
    BY <1>1, <1>2, <1>6 DEF RequestOK
  <1>8. QED
    BY <1>3, <1>4, <1>7, InvKept

\* What WriteShift does to the request.
LEMMA ShiftWritten ==
    ASSUME Inv, NEW r \in Requests, NEW h \in Shifts, NEW row \in Rows, WriteShift(r, h, row)
    PROVE  /\ TypeOK' /\ Alone(r) /\ pc'[r] = "written" /\ job'[r] = job[r]
           /\ work'[r].shift = [work[r].shift EXCEPT ![h] = row]
           /\ work'[r].sale = work[r].sale /\ work'[r].linked = work[r].linked
           /\ work'[r].usage = work[r].usage
  <1>1. /\ work[r] \in Writes
        /\ work'[r] = [work[r] EXCEPT !.shift = [work[r].shift EXCEPT ![h] = row]]
    BY DEF Inv, TypeOK, WriteShift
  <1>2. /\ work'[r] \in Writes /\ work'[r].shift = [work[r].shift EXCEPT ![h] = row]
        /\ work'[r].sale = work[r].sale /\ work'[r].linked = work[r].linked
        /\ work'[r].usage = work[r].usage
    <2> DEFINE v == [work[r].shift EXCEPT ![h] = row]
    <2>1. v \in [Shifts -> Rows \cup {Unwritten}]
      BY <1>1 DEF Writes
    <2> HIDE DEF v
    <2>2. QED BY <1>1, <2>1 DEF Writes, v
  <1>3. work' \in [Requests -> Writes]
    BY <1>2 DEF Inv, TypeOK, WriteShift
  <1>4. TypeOK'
    BY <1>3 DEF Inv, TypeOK, WriteShift, tables
  <1>5. QED
    BY <1>2, <1>4 DEF Inv, TypeOK, WriteShift, Alone, SameRequest

LEMMA InsertShiftKeeps ==
    ASSUME Inv, NEW r \in Requests, InsertShift(r)
    PROVE  Inv'
  <1> DEFINE h == job[r].opens
             row == [cashier |-> job[r].cashier, status |-> "open", expected |-> 0]
  <1>1. /\ pc[r] = "opening" /\ job[r] \in Openings
        /\ NoSales(r) /\ NoLinks(r) /\ NoShifts(r) /\ NoUsage(r)
    BY DEF Inv, InsertShift, RequestOK
  <1>2. h \in Shifts /\ row \in Rows /\ WriteShift(r, h, row)
    BY <1>1 DEF Openings, Rows, InsertShift, InsertOpen
  <1>3. /\ TypeOK' /\ Alone(r) /\ pc'[r] = "written" /\ job'[r] = job[r]
        /\ work'[r].shift = [work[r].shift EXCEPT ![h] = row]
        /\ work'[r].sale = work[r].sale /\ work'[r].linked = work[r].linked
        /\ work'[r].usage = work[r].usage
    <2> HIDE DEF h, row
    <2>1. QED BY <1>2, ShiftWritten
  <1>4. NoSales(r)' /\ NoLinks(r)' /\ NoUsage(r)'
    BY <1>1, <1>3 DEF NoSales, NoLinks, NoUsage
  <1>5. WrittenOpen(r)'
    <2>1. /\ \A g \in Shifts : g # job'[r].opens => work'[r].shift[g] = Unwritten
          /\ work'[r].shift[job'[r].opens] = row
      <3>1. work[r].shift \in [Shifts -> Rows \cup {Unwritten}]
        BY DEF Inv, TypeOK, Writes
      <3> HIDE DEF row
      <3>2. QED BY <1>1, <1>2, <1>3, <3>1 DEF NoShifts
    <2>2. row.status = "open"
      OBVIOUS
    <2> HIDE DEF row
    <2>3. QED
      BY <1>1, <1>3, <1>4, <2>1, <2>2 DEF WrittenOpen
  <1>6. RequestOK(r)'
    BY <1>3, <1>5 DEF RequestOK
  <1>7. QED
    BY <1>3, <1>6, InvKept

LEMMA BeginCloseKeeps ==
    ASSUME Inv, NEW r \in Requests, NEW h \in Shifts, BeginClose(r, h)
    PROVE  Inv'
  <1>1. /\ pc[r] = "idle" /\ pc'[r] = "closing" /\ work'[r] = work[r]
        /\ job'[r] = [closes |-> h, expected |-> 0] /\ shift[h].status = "open"
    BY DEF Inv, TypeOK, BeginClose
  <1>2. job'[r] \in Closings /\ job'[r].closes = h
    BY <1>1 DEF Closings
  <1>3. TypeOK'
    <2>1. job' \in [Requests -> Uploads \cup Countings \cup Openings \cup Closings \cup {NoJob}]
      BY <1>2 DEF Inv, TypeOK, BeginClose
    <2>2. QED
      BY <2>1 DEF Inv, TypeOK, BeginClose, tables
  <1>4. Alone(r)
    BY DEF Inv, TypeOK, BeginClose, Alone, SameRequest
  <1>5. NoSales(r) /\ NoLinks(r) /\ NoShifts(r) /\ NoUsage(r)
    BY <1>1 DEF Inv, RequestOK
  <1>6. NoSales(r)' /\ NoLinks(r)' /\ NoShifts(r)' /\ NoUsage(r)'
    BY <1>1, <1>5 DEF NoSales, NoLinks, NoShifts, NoUsage
  <1>7. Closable(r)'
    BY <1>1, <1>2, <1>4 DEF Closable, Alone, tables, Unopened
  <1>8. RequestOK(r)'
    BY <1>1, <1>6, <1>7 DEF RequestOK
  <1>9. QED
    BY <1>3, <1>4, <1>8, InvKept

LEMMA SumCashKeeps ==
    ASSUME Inv, NEW r \in Requests, SumCash(r)
    PROVE  Inv'
  <1> DEFINE h == job[r].closes
  <1>1. /\ pc[r] = "closing" /\ pc'[r] = "summed" /\ work'[r] = work[r]
        /\ job'[r] = [job[r] EXCEPT !.expected = CashOf(h)] /\ Closable(r)
        /\ NoSales(r) /\ NoLinks(r) /\ NoShifts(r) /\ NoUsage(r)
    BY DEF Inv, TypeOK, SumCash, RequestOK
  <1>2. h \in Shifts
    BY <1>1 DEF Closable, Closings
  <1>3. IsFiniteSet(linked[h])
    BY <1>2, LinkedFinite DEF Inv
  <1>4. CashOf(h) \in Nat /\ CashOf(h) <= Cardinality(linked[h])
    <2> DEFINE cash == {s \in linked[h] : sale[s] = "completed"}
               all == linked[h]
    <2>1. cash \in SUBSET all /\ IsFiniteSet(all)
      BY <1>3
    <2> HIDE DEF cash, all
    <2>2. IsFiniteSet(cash) /\ Cardinality(cash) <= Cardinality(all)
      BY <2>1, FS_Subset
    <2>3. Cardinality(cash) \in Nat
      BY <2>2, FS_CardinalityType
    <2>4. QED
      BY <2>2, <2>3 DEF CashOf, cash, all
  <1>5. /\ job'[r] \in Closings /\ job'[r].closes = h /\ job'[r].expected = CashOf(h)
    <2>1. job[r].closes = h
      OBVIOUS
    <2> HIDE DEF h
    <2>2. QED BY <1>1, <1>4, <2>1 DEF Closable, Closings
  <1>6. TypeOK'
    <2>1. job' \in [Requests -> Uploads \cup Countings \cup Openings \cup Closings \cup {NoJob}]
      BY <1>5 DEF Inv, TypeOK, SumCash
    <2>2. QED
      BY <2>1 DEF Inv, TypeOK, SumCash, tables
  <1>7. Alone(r)
    BY DEF Inv, TypeOK, SumCash, Alone, SameRequest
  <1>8. NoSales(r)' /\ NoLinks(r)' /\ NoShifts(r)' /\ NoUsage(r)'
    BY <1>1 DEF NoSales, NoLinks, NoShifts, NoUsage
  <1>9. Closable(r)' /\ Covered(r, job[r].expected)'
    BY <1>1, <1>4, <1>5, <1>7 DEF Closable, Covered, Alone, tables
  <1>10. RequestOK(r)'
    BY <1>1, <1>8, <1>9 DEF RequestOK
  <1>11. QED
    BY <1>6, <1>7, <1>10, InvKept

LEMMA WriteCloseKeeps ==
    ASSUME Inv, NEW r \in Requests, WriteClose(r)
    PROVE  Inv'
  <1> DEFINE h == job[r].closes
             row == [shift[h] EXCEPT !.status = "closed", !.expected = job[r].expected]
  <1>1. /\ pc[r] = "summed" /\ Closable(r) /\ Covered(r, job[r].expected)
        /\ NoSales(r) /\ NoLinks(r) /\ NoShifts(r) /\ NoUsage(r)
    BY DEF Inv, WriteClose, RequestOK
  <1>2. h \in Shifts /\ job[r].expected \in Nat /\ shift[h] \in Rows
    BY <1>1 DEF Closable, Closings, Inv, TypeOK
  <1>3. row \in Rows /\ row.status = "closed" /\ row.expected = job[r].expected
    <2> HIDE DEF h
    <2>1. QED BY <1>2 DEF Rows
  <1>4. WriteShift(r, h, row)
    BY DEF WriteClose
  <1>5. /\ TypeOK' /\ Alone(r) /\ pc'[r] = "written" /\ job'[r] = job[r]
        /\ work'[r].shift = [work[r].shift EXCEPT ![h] = row]
        /\ work'[r].sale = work[r].sale /\ work'[r].linked = work[r].linked
        /\ work'[r].usage = work[r].usage
    <2> HIDE DEF h, row
    <2>1. QED BY <1>2, <1>3, <1>4, ShiftWritten
  <1>6. NoSales(r)' /\ NoLinks(r)' /\ NoUsage(r)'
    BY <1>1, <1>5 DEF NoSales, NoLinks, NoUsage
  <1>7. /\ \A g \in Shifts : g # job'[r].closes => work'[r].shift[g] = Unwritten
        /\ work'[r].shift[job'[r].closes] = row
    <2>1. work[r].shift \in [Shifts -> Rows \cup {Unwritten}]
      BY DEF Inv, TypeOK, Writes
    <2> HIDE DEF row
    <2>2. QED BY <1>1, <1>2, <1>5, <2>1 DEF NoShifts
  <1>8. Closable(r)' /\ Covered(r, work[r].shift[job[r].closes].expected)'
    <2>1. shift' = shift /\ linked' = linked
      BY <1>5 DEF Alone, tables
    <2> HIDE DEF row
    <2>2. QED
      BY <1>1, <1>3, <1>5, <1>7, <2>1 DEF Closable, Covered
  <1>9. WrittenClose(r)'
    <2> HIDE DEF row
    <2>1. QED BY <1>3, <1>6, <1>7, <1>8 DEF WrittenClose
  <1>10. RequestOK(r)'
    BY <1>5, <1>9 DEF RequestOK
  <1>11. QED
    BY <1>5, <1>10, InvKept

-----------------------------------------------------------------------------
(***************************************************************************)
(* The end of a request, and time.                                         *)
(***************************************************************************)
\* What is committed has the types of the tables.
LEMMA CommitTyped ==
    ASSUME Inv, NEW r \in Requests, Commit(r)
    PROVE  TypeOK'
  <1>1. work[r] \in Writes
    BY DEF Inv, TypeOK
  <1>2. sale' \in [Sales -> Statuses \cup {"-"}]
    BY <1>1 DEF Inv, TypeOK, Commit, Writes
  <1>3. linked' \in [Shifts -> SUBSET Sales]
    BY <1>1 DEF Inv, TypeOK, Commit, Writes
  <1>4. shift' \in [Shifts -> Rows \cup {Unopened}]
    <2>1. ASSUME NEW h \in Shifts PROVE shift'[h] \in Rows \cup {Unopened}
      <3>1. work[r].shift[h] \in Rows \cup {Unwritten} /\ shift[h] \in Rows \cup {Unopened}
        BY <1>1 DEF Inv, TypeOK, Writes
      <3>2. shift'[h] = IF work[r].shift[h] # Unwritten THEN work[r].shift[h] ELSE shift[h]
        BY DEF Commit, LocksShift
      <3>3. QED
        BY <3>1, <3>2
    <2>2. QED
      BY <2>1 DEF Commit
  <1>5. usage' \in [1 .. Months -> Nat]
    <2>1. \A m \in 1 .. Months : CountedWith(r, m) \in Nat
      <3>1. work[r].usage \in [1 .. Months -> Nat] /\ usage \in [1 .. Months -> Nat]
        BY <1>1 DEF Inv, TypeOK, Writes
      <3> DEFINE a == work[r].usage
                 b == usage
      <3>2. \A m \in 1 .. Months : b[m] + a[m] \in Nat
        <4>1. a \in [1 .. Months -> Nat] /\ b \in [1 .. Months -> Nat]
          BY <3>1
        <4> HIDE DEF a, b
        <4>2. QED BY <4>1
      <3>3. QED
        BY <3>2 DEF CountedWith
    <2>2. QED
      BY <2>1 DEF Commit
  <1>6. /\ pc' \in [Requests -> {"idle", "upload", "linked", "counting", "opening", "closing",
                                 "summed", "written", "failed"}]
        /\ job' \in [Requests -> Uploads \cup Countings \cup Openings \cup Closings \cup {NoJob}]
        /\ work' \in [Requests -> Writes]
        /\ month' \in 1 .. Months
    BY CleanTyped DEF Inv, TypeOK, Commit, End
  <1>7. QED
    BY <1>2, <1>3, <1>4, <1>5, <1>6 DEF TypeOK

\* A committed upload: its sales are stored, linked and counted.
LEMMA CommitUpload ==
    ASSUME Inv, NEW r \in Requests, Commit(r), WrittenUpload(r)
    PROVE  /\ shift' = shift
           /\ Stored' = Stored \cup Locked(r)
           /\ \A h \in Shifts : linked'[h] = linked[h] \cup work[r].linked[h]
           /\ job[r].month \in 1 .. Months
           /\ usage'[job[r].month] = usage[job[r].month] + job[r].size
           /\ \A m \in 1 .. Months : m # job[r].month => usage'[m] = usage[m]
  <1>1. shift' = shift
    <2>1. \A h \in Shifts : ~LocksShift(r, h)
      BY DEF WrittenUpload, Uploading, NoShifts, LocksShift
    <2>2. shift' = [h \in Shifts |-> shift[h]]
      BY <2>1 DEF Commit
    <2>3. QED
      BY <2>2 DEF Inv, TypeOK
  <1>2. Stored' = Stored \cup Locked(r)
    BY DEF Commit, Stored, Locked, LocksSale
  <1>3. \A h \in Shifts : linked'[h] = linked[h] \cup work[r].linked[h]
    BY DEF Commit
  <1>4. job[r].month \in 1 .. Months /\ job[r].size \in Nat
    BY DEF WrittenUpload, Countings
  <1>5. \A m \in 1 .. Months : usage'[m] = usage[m] + work[r].usage[m]
    BY DEF Commit, CountedWith
  <1>6. \A m \in 1 .. Months : usage[m] \in Nat
    BY DEF Inv, TypeOK
  <1>7. \A m \in 1 .. Months : work[r].usage[m] = IF m = job[r].month THEN job[r].size ELSE 0
    BY DEF WrittenUpload
  <1>8. QED
    BY <1>1, <1>2, <1>3, <1>4, <1>5, <1>6, <1>7

\* A committed opening or closing changes the shift alone.
LEMMA CommitShift ==
    ASSUME Inv, NEW r \in Requests, Commit(r), NoSales(r), NoLinks(r), NoUsage(r),
           NEW k \in Shifts, work[r].shift[k] # Unwritten,
           \A h \in Shifts : h # k => work[r].shift[h] = Unwritten
    PROVE  /\ sale' = sale /\ linked' = linked /\ usage' = usage
           /\ shift' = [shift EXCEPT ![k] = work[r].shift[k]]
  <1>1. sale' = sale
    <2>1. sale' = [s \in Sales |-> sale[s]]
      BY DEF Commit, NoSales, LocksSale
    <2>2. QED
      BY <2>1 DEF Inv, TypeOK
  <1>2. linked' = linked
    <2>1. linked' = [h \in Shifts |-> linked[h]]
      BY DEF Commit, NoLinks
    <2>2. QED
      BY <2>1 DEF Inv, TypeOK
  <1>3. usage' = usage
    <2>1. \A m \in 1 .. Months : CountedWith(r, m) = usage[m]
      BY DEF NoUsage, CountedWith, Inv, TypeOK
    <2>2. usage' = [m \in 1 .. Months |-> usage[m]]
      BY <2>1 DEF Commit
    <2>3. QED
      BY <2>2 DEF Inv, TypeOK
  <1>4. shift' = [shift EXCEPT ![k] = work[r].shift[k]]
    <2>1. shift \in [Shifts -> Rows \cup {Unopened}]
      BY DEF Inv, TypeOK
    <2>2. shift' = [h \in Shifts |-> IF h = k THEN work[r].shift[k] ELSE shift[h]]
      BY DEF Commit, LocksShift
    <2>3. QED
      BY <2>1, <2>2
  <1>5. QED
    BY <1>1, <1>2, <1>3, <1>4

LEMMA CommitUploadKeeps ==
    ASSUME Inv, NEW r \in Requests, Commit(r), WrittenUpload(r)
    PROVE  Inv'
  <1>1. TypeOK'
    BY CommitTyped
  <1>2. /\ shift' = shift /\ month' = month
        /\ Stored' = Stored \cup Locked(r)
        /\ \A h \in Shifts : linked'[h] = linked[h] \cup work[r].linked[h]
    BY CommitUpload DEF Commit
  <1> DEFINE L == Locked(r)
             n == job[r].size
             m0 == job[r].month
             A == Stored
             U == usage
             V == usage'
             M == 1 .. Months
  <1>3. /\ IsFiniteSet(L) /\ Cardinality(L) <= n /\ n \in Nat
        /\ \A h \in Shifts : work[r].linked[h] \subseteq L
        /\ \A h \in Shifts : work[r].linked[h] # {} => shift[h] # Unopened
        /\ m0 <= month
    BY DEF WrittenUpload, Uploading, LockedWithin, LinksBacked, Countings
  <1>4. IsFiniteSet(A) /\ IsFiniteSet(A \cup L)
    <2>1. IsFiniteSet(A)
      BY DEF Inv
    <2> HIDE DEF A, L
    <2>2. QED BY <1>3, <2>1, FS_Union
  <1>5. Cardinality(A \cup L) <= Cardinality(A) + n
    <2>1. IsFiniteSet(A \cap L)
      BY <1>4, FS_Subset
    <2> HIDE DEF A, L, n
    <2>2. /\ Cardinality(A \cup L) = Cardinality(A) + Cardinality(L) - Cardinality(A \cap L)
      BY <1>3, <1>4, FS_Union
    <2>3. /\ Cardinality(A \cap L) \in Nat /\ Cardinality(A) \in Nat /\ Cardinality(L) \in Nat
      BY <1>3, <1>4, <2>1, FS_CardinalityType
    <2>4. QED
      BY <1>3, <2>2, <2>3
  <1>6. /\ m0 \in M /\ V[m0] = U[m0] + n
        /\ \A m \in M \ {m0} : V[m] = U[m]
        /\ \A m \in M : U[m] \in Nat /\ V[m] \in Nat
    <2>1. \A m \in M : U[m] \in Nat /\ V[m] \in Nat
      BY <1>1 DEF Inv, TypeOK
    <2>2. QED
      BY <2>1, CommitUpload
  <1>7. SumOver(V, M) = SumOver(U, M) + n
    <2>1. IsFiniteSet(M)
      BY MonthsFinite
    <2> HIDE DEF U, V, M, m0, n
    <2>2. SumOver(V, M) = SumOver(U, M) + V[m0] - U[m0]
      BY <1>6, <2>1, SumChanges
    <2>3. SumOver(U, M) \in Int
      BY <1>6, <2>1, SumType
    <2>4. QED
      BY <1>3, <1>6, <2>2, <2>3
  <1>8. Counted'
    <2>1. Cardinality(A) <= SumOver(U, M)
      BY DEF Inv, Counted
    <2>2. IsFiniteSet(M)
      BY MonthsFinite
    <2>3. Cardinality(A \cup L) <= SumOver(V, M)
      <3> HIDE DEF A, L, U, V, M, n
      <3>1. SumOver(U, M) \in Int
        BY <1>6, <2>2, SumType
      <3>2. Cardinality(A) \in Nat /\ Cardinality(A \cup L) \in Nat
        BY <1>4, FS_CardinalityType
      <3>3. QED BY <1>3, <1>5, <1>7, <2>1, <3>1, <3>2
    <2>4. QED
      BY <1>2, <2>3 DEF Counted
  <1>9. IsFiniteSet(Stored)'
    BY <1>2, <1>4
  <1>10. \A h \in Shifts : /\ linked'[h] \subseteq Stored'
                           /\ Cardinality(linked[h]) \in Nat /\ Cardinality(linked'[h]) \in Nat
                           /\ Cardinality(linked[h]) <= Cardinality(linked'[h])
    <2>1. SUFFICES ASSUME NEW h \in Shifts
                   PROVE  /\ linked'[h] \subseteq Stored'
                          /\ Cardinality(linked[h]) \in Nat /\ Cardinality(linked'[h]) \in Nat
                          /\ Cardinality(linked[h]) <= Cardinality(linked'[h])
      OBVIOUS
    <2>2. linked[h] \subseteq linked'[h] /\ linked'[h] \subseteq Stored'
      BY <1>2, <1>3 DEF Inv, ShiftsBacked
    <2>3. IsFiniteSet(linked'[h])
      BY <1>9, <2>2, FS_Subset
    <2>4. IsFiniteSet(linked[h]) /\ Cardinality(linked[h]) <= Cardinality(linked'[h])
      BY <2>2, <2>3, FS_Subset
    <2>5. QED
      BY <2>2, <2>3, <2>4, FS_CardinalityType
  <1>11. Grown
    BY <1>2, <1>10 DEF Grown, Inv, TypeOK
  <1>12. ShiftsBacked'
    <2>1. SUFFICES ASSUME NEW h \in Shifts
                   PROVE  /\ linked'[h] \subseteq Stored'
                          /\ linked'[h] # {} => shift'[h] # Unopened
                          /\ shift'[h].status = "closed" =>
                                shift'[h].expected <= Cardinality(linked'[h])
      BY DEF ShiftsBacked
    <2>2. linked'[h] # {} => shift'[h] # Unopened
      BY <1>2, <1>3 DEF Inv, ShiftsBacked
    <2>3. ASSUME shift[h].status = "closed"
          PROVE  shift[h].expected <= Cardinality(linked'[h])
      <3>1. shift[h].expected \in Nat
        BY <2>3 DEF Inv, TypeOK, Rows, Unopened
      <3>2. shift[h].expected <= Cardinality(linked[h])
        BY <2>3 DEF Inv, ShiftsBacked
      <3>3. QED
        BY <1>10, <3>1, <3>2
    <2>4. QED
      BY <1>2, <1>10, <2>2, <2>3
  <1>13. NoneAhead'
    BY <1>2, <1>3, <1>6 DEF NoneAhead, Inv, TypeOK
  <1>14. \A q \in Requests : RequestOK(q)'
    <2>1. ASSUME NEW q \in Requests \ {r} PROVE RequestOK(q)'
      <3>1. SameRequest(q)
        BY DEF Commit, End, SameRequest, Inv, TypeOK
      <3>2. QED
        BY <1>1, <1>11, <3>1, RequestKept DEF Inv
    <2>2. work'[r] = Clean /\ pc'[r] = "idle"
      BY DEF Commit, End, Inv, TypeOK
    <2>3. QED
      BY <2>1, <2>2, CleanRequest
  <1>15. QED
    BY <1>1, <1>8, <1>9, <1>12, <1>13, <1>14 DEF Inv

LEMMA CommitShiftKeeps ==
    ASSUME Inv, NEW r \in Requests, Commit(r), WrittenOpen(r) \/ WrittenClose(r)
    PROVE  Inv'
  <1>1. PICK k \in Shifts :
           /\ NoSales(r) /\ NoLinks(r) /\ NoUsage(r)
           /\ \A h \in Shifts : h # k => work[r].shift[h] = Unwritten
           /\ work[r].shift[k].status \in {"open", "closed"}
           /\ work[r].shift[k].status = "closed" =>
                 work[r].shift[k].expected <= Cardinality(linked[k])
    <2>1. CASE WrittenOpen(r)
      BY <2>1 DEF WrittenOpen, Openings
    <2>2. CASE WrittenClose(r)
      BY <2>2 DEF WrittenClose, Closable, Closings, Covered
    <2>3. QED
      BY <2>1, <2>2
  <1> DEFINE row == work[r].shift[k]
  <1>2. row \in Rows
    BY <1>1 DEF Inv, TypeOK, Writes, Unwritten
  <1>3. row # Unwritten /\ row # Unopened
    BY <1>1 DEF Unwritten, Unopened
  <1>4. /\ sale' = sale /\ linked' = linked /\ usage' = usage /\ month' = month
        /\ shift' = [shift EXCEPT ![k] = row]
    BY <1>1, <1>3, CommitShift DEF Commit
  <1>5. TypeOK'
    BY CommitTyped
  <1>6. \A h \in Shifts : Cardinality(linked[h]) \in Nat
    BY LinkedFinite DEF Inv
  <1>7. \A h \in Shifts : shift'[h] = IF h = k THEN row ELSE shift[h]
    <2> HIDE DEF row
    <2>1. QED BY <1>4 DEF Inv, TypeOK
  <1>8. Grown
    <2> HIDE DEF row
    <2>1. QED BY <1>3, <1>4, <1>6, <1>7 DEF Grown, Inv, TypeOK
  <1>9. \A q \in Requests : RequestOK(q)'
    <2>1. ASSUME NEW q \in Requests \ {r} PROVE RequestOK(q)'
      <3>1. SameRequest(q)
        BY DEF Commit, End, SameRequest, Inv, TypeOK
      <3>2. QED
        BY <1>5, <1>8, <3>1, RequestKept DEF Inv
    <2>2. work'[r] = Clean /\ pc'[r] = "idle"
      BY DEF Commit, End, Inv, TypeOK
    <2>3. QED
      BY <2>1, <2>2, CleanRequest
  <1>10. Stored' = Stored
    BY <1>4 DEF Stored
  <1>11. ShiftsBacked'
    <2>1. SUFFICES ASSUME NEW h \in Shifts
                   PROVE  /\ linked[h] \subseteq Stored
                          /\ linked[h] # {} => shift'[h] # Unopened
                          /\ shift'[h].status = "closed" =>
                                shift'[h].expected <= Cardinality(linked[h])
      BY <1>4, <1>10 DEF ShiftsBacked
    <2> HIDE DEF row
    <2>2. CASE h = k
      BY <1>1, <1>3, <1>7, <2>2 DEF Inv, ShiftsBacked, row
    <2>3. CASE h # k
      BY <1>7, <2>3 DEF Inv, ShiftsBacked
    <2>4. QED
      BY <2>2, <2>3
  <1>12. NoneAhead' /\ Counted' /\ IsFiniteSet(Stored)'
    BY <1>4, <1>10 DEF NoneAhead, Counted, Inv
  <1>13. QED
    BY <1>5, <1>9, <1>11, <1>12 DEF Inv

LEMMA CommitKeeps ==
    ASSUME Inv, NEW r \in Requests, Commit(r)
    PROVE  Inv'
  <1>1. WrittenUpload(r) \/ WrittenOpen(r) \/ WrittenClose(r)
    BY DEF Commit, Inv, RequestOK
  <1>2. QED
    BY <1>1, CommitUploadKeeps, CommitShiftKeeps

LEMMA NextMonthKeeps ==
    ASSUME Inv, NextMonth
    PROVE  Inv'
  <1>1. TypeOK'
    BY BoundsAssumption DEF Inv, TypeOK, NextMonth, tables
  <1>2. sale' = sale /\ linked' = linked /\ shift' = shift /\ usage' = usage
    BY DEF NextMonth, tables
  <1>3. \A h \in Shifts : Cardinality(linked[h]) \in Nat
    BY LinkedFinite DEF Inv
  <1>4. Grown
    BY <1>2, <1>3 DEF Grown, Inv, TypeOK, NextMonth
  <1>5. \A q \in Requests : SameRequest(q)
    BY DEF NextMonth, SameRequest
  <1>6. \A q \in Requests : RequestOK(q)'
    BY <1>1, <1>4, <1>5, RequestKept DEF Inv
  <1>7. Stored' = Stored
    BY <1>2 DEF Stored
  <1>8. ShiftsBacked'
    BY <1>2, <1>7 DEF Inv, ShiftsBacked
  <1>9. NoneAhead'
    BY <1>2 DEF Inv, NoneAhead, NextMonth, TypeOK
  <1>10. Counted' /\ IsFiniteSet(Stored)'
    BY <1>2, <1>7 DEF Inv, Counted
  <1>11. QED
    BY <1>1, <1>6, <1>8, <1>9, <1>10 DEF Inv

\* No sale, no shift, no request: nothing to account for.
LEMMA InitInv == Init => Inv
  <1> SUFFICES ASSUME Init PROVE Inv
    OBVIOUS
  <1>2. TypeOK
    BY CleanTyped, BoundsAssumption DEF Init, TypeOK
  <1>3. \A r \in Requests : RequestOK(r)
    BY DEF Init, RequestOK, NoSales, NoLinks, NoShifts, NoUsage, Clean
  <1>4. Stored = {}
    BY DEF Init, Stored
  <1>5. IsFiniteSet(Stored) /\ Cardinality(Stored) = 0
    BY <1>4, FS_EmptySet
  <1>6. ShiftsBacked /\ NoneAhead
    BY DEF Init, ShiftsBacked, NoneAhead, Unopened
  <1>7. Counted
    <2>1. SumOver(usage, 1 .. Months) = 0
      BY MonthsFinite, SumZero DEF Init
    <2>2. QED
      BY <1>5, <2>1 DEF Counted
  <1>8. QED
    BY <1>2, <1>3, <1>5, <1>6, <1>7 DEF Inv

LEMMA StutterKeeps ==
    ASSUME Inv, UNCHANGED vars
    PROVE  Inv'
  <1>1. /\ sale' = sale /\ linked' = linked /\ shift' = shift /\ usage' = usage
        /\ month' = month /\ pc' = pc /\ job' = job /\ work' = work
    BY DEF vars
  <1>2. TypeOK'
    BY <1>1 DEF Inv, TypeOK
  <1>3. \A h \in Shifts : Cardinality(linked[h]) \in Nat
    BY LinkedFinite DEF Inv
  <1>4. Grown
    BY <1>1, <1>3 DEF Grown, Inv, TypeOK
  <1>5. \A q \in Requests : SameRequest(q)
    BY <1>1 DEF SameRequest
  <1>6. \A q \in Requests : RequestOK(q)'
    BY <1>2, <1>4, <1>5, RequestKept DEF Inv
  <1>7. Stored' = Stored
    BY <1>1 DEF Stored
  <1>8. ShiftsBacked'
    BY <1>1, <1>7 DEF Inv, ShiftsBacked
  <1>9. NoneAhead' /\ Counted' /\ IsFiniteSet(Stored)'
    BY <1>1, <1>7 DEF Inv, NoneAhead, Counted
  <1>10. QED
    BY <1>2, <1>6, <1>8, <1>9 DEF Inv

\* Every step keeps the invariant.
LEMMA NextInv ==
    ASSUME Inv, [Next]_vars
    PROVE  Inv'
  <1>1. ASSUME NEW r \in Requests, NEW b \in Batches, NEW h \in Shifts \cup {NoShift},
               BeginUpload(r, b, h)
        PROVE  Inv'
    BY <1>1, BeginUploadKeeps
  <1>2. ASSUME NEW r \in Requests,
               \/ InsertSale(r) \/ LinkShifts(r) \/ ChooseMonth(r) \/ IncrementUsage(r)
        PROVE  Inv'
    BY <1>2, InsertSaleKeeps, LinkShiftsKeeps, ChooseMonthKeeps, IncrementUsageKeeps
  <1>3. ASSUME NEW r \in Requests, LinkFails(r) \/ DuplicateShift(r) \/ DeadlockVictim(r)
        PROVE  Inv'
    BY <1>3, BreakKeeps DEF LinkFails, DuplicateShift, DeadlockVictim
  <1>4. ASSUME NEW r \in Requests, NEW h \in Shifts, NEW c \in Cashiers, BeginOpen(r, h, c)
        PROVE  Inv'
    BY <1>4, BeginOpenKeeps
  <1>5. ASSUME NEW r \in Requests, NEW h \in Shifts, BeginClose(r, h)
        PROVE  Inv'
    BY <1>5, BeginCloseKeeps
  <1>6. ASSUME NEW r \in Requests, InsertShift(r) \/ SumCash(r) \/ WriteClose(r) \/ Commit(r)
        PROVE  Inv'
    BY <1>6, InsertShiftKeeps, SumCashKeeps, WriteCloseKeeps, CommitKeeps
  <1>7. ASSUME NEW r \in Requests, EndFailed(r) \/ Abort(r)
        PROVE  Inv'
    BY <1>7, EndKeeps DEF EndFailed, Abort
  <1>8. QED
    BY <1>1, <1>2, <1>3, <1>4, <1>5, <1>6, <1>7, NextMonthKeeps, StutterKeeps DEF Next

\* Type correctness: whatever uploads and shifts overlap, fail or are lost, rows
\* and writes keep the shape that the tables demand.
THEOREM TypeCorrect == Spec => []TypeOK
  <1>1. Inv => TypeOK
    BY DEF Inv
  <1>2. QED
    BY <1>1, InitInv, NextInv, PTL DEF Spec

\* No sale is stored without being counted, in whichever month its upload ended
\* and whatever became of the error that IncrementUsage returned.
THEOREM SalesAreCounted == Spec => []SalesCounted
  <1>1. Inv => SalesCounted
    BY CountedSales DEF Inv
  <1>2. QED
    BY <1>1, InitInv, NextInv, PTL DEF Spec

\* What a shift is linked to is stored, the shift was opened, and it was closed
\* with no more than what it is linked to, although uploads go on linking to a
\* shift that is being closed (LinkShifts against CloseShift).
THEOREM ShiftsAreBacked == Spec => []ShiftsBacked
  <1>1. Inv => ShiftsBacked
    BY DEF Inv
  <1>2. QED
    BY <1>1, InitInv, NextInv, PTL DEF Spec

-----------------------------------------------------------------------------
(***************************************************************************)
(* One open shift for each cashier.                                        *)
(***************************************************************************)
\* Nothing is opened, in the tables or by a request.
NoneOpened ==
    /\ \A h \in Shifts, c \in Cashiers : IsOpen(shift'[h], c) => IsOpen(shift[h], c)
    /\ \A q \in Requests, c \in Cashiers : Opened(q, c)' => Opened(q, c)

\* If no open shift is committed or written anew, there are no two of a cashier.
LEMMA NoneOpenedKeeps ==
    ASSUME ShiftsInv, NoneOpened
    PROVE  ShiftsInv'
  <1>1. \A c \in Cashiers : HasOpenShift(c)' => HasOpenShift(c)
    BY DEF NoneOpened, HasOpenShift, IsOpen
  <1>2. \A g, h \in Shifts, c \in Cashiers :
           IsOpen(shift'[g], c) /\ IsOpen(shift'[h], c) => g = h
    BY DEF NoneOpened, ShiftsInv
  <1>3. \A r \in Requests, c \in Cashiers :
           Opened(r, c)' => /\ ~HasOpenShift(c)'
                            /\ \A q \in Requests \ {r} : ~Opened(q, c)'
    BY <1>1 DEF NoneOpened, ShiftsInv
  <1>4. QED
    BY <1>2, <1>3 DEF ShiftsInv

\* A request that writes no shift, or drops what it has written, opens nothing.
LEMMA UnwrittenOpensNone ==
    ASSUME NEW r \in Requests, shift' = shift,
           \A q \in Requests \ {r} : work'[q] = work[q],
           work'[r].shift = work[r].shift \/ work'[r] = Clean
    PROVE  NoneOpened
  <1>1. \A q \in Requests \ {r}, c \in Cashiers : Opened(q, c)' => Opened(q, c)
    BY DEF Opened
  <1>2. \A c \in Cashiers : Opened(r, c)' => Opened(r, c)
    <2>1. CASE work'[r].shift = work[r].shift
      BY <2>1 DEF Opened
    <2>2. CASE work'[r] = Clean
      BY <2>2 DEF Opened, IsOpen, Clean, Unwritten
    <2>3. QED
      BY <2>1, <2>2
  <1>3. QED
    BY <1>1, <1>2 DEF NoneOpened

\* The steps of an upload open no shift.
LEMMA UploadOpensNone ==
    ASSUME Inv, NEW r \in Requests,
           \/ \E b \in Batches, h \in Shifts \cup {NoShift} : BeginUpload(r, b, h)
           \/ InsertSale(r) \/ LinkShifts(r) \/ ChooseMonth(r) \/ IncrementUsage(r)
    PROVE  NoneOpened
  <1>1. shift' = shift /\ \A q \in Requests \ {r} : work'[q] = work[q]
    BY DEF Inv, TypeOK, BeginUpload, InsertSale, LinkShifts, ChooseMonth, IncrementUsage, tables
  <1>2. work \in [Requests -> Writes]
    BY DEF Inv, TypeOK
  <1>3. work'[r].shift = work[r].shift
    <2>1. CASE (\E b \in Batches, h \in Shifts \cup {NoShift} : BeginUpload(r, b, h))
               \/ ChooseMonth(r)
      BY <2>1 DEF BeginUpload, ChooseMonth
    <2>2. CASE InsertSale(r)
      BY <2>2, <1>2 DEF InsertSale, Writes
    <2>3. CASE LinkShifts(r)
      BY <2>3, <1>2 DEF LinkShifts, Writes
    <2>4. CASE IncrementUsage(r)
      BY <2>4, <1>2 DEF IncrementUsage, Writes
    <2>5. QED
      BY <2>1, <2>2, <2>3, <2>4
  <1>4. QED
    BY <1>1, <1>3, UnwrittenOpensNone

\* Beginning to open or close a shift, and failing to, opens none.
LEMMA ShiftOpensNone ==
    ASSUME Inv, NEW r \in Requests,
           \/ \E h \in Shifts : BeginClose(r, h) \/ \E c \in Cashiers : BeginOpen(r, h, c)
           \/ SumCash(r) \/ LinkFails(r) \/ DuplicateShift(r) \/ DeadlockVictim(r)
           \/ EndFailed(r) \/ Abort(r)
    PROVE  NoneOpened
  <1>1. shift' = shift /\ \A q \in Requests \ {r} : work'[q] = work[q]
    BY DEF Inv, TypeOK, BeginClose, BeginOpen, SumCash, LinkFails, DuplicateShift,
           DeadlockVictim, EndFailed, Abort, Break, End, tables
  <1>2. work'[r] = work[r] \/ work'[r] = Clean
    BY DEF Inv, TypeOK, BeginClose, BeginOpen, SumCash, LinkFails, DuplicateShift,
           DeadlockVictim, EndFailed, Abort, Break, End
  <1>3. QED
    BY <1>1, <1>2, UnwrittenOpensNone

\* Closing a shift opens none.
LEMMA WriteCloseOpensNone ==
    ASSUME Inv, NEW r \in Requests, WriteClose(r)
    PROVE  NoneOpened
  <1> DEFINE h == job[r].closes
             row == [shift[h] EXCEPT !.status = "closed", !.expected = job[r].expected]
  <1>1. h \in Shifts /\ job[r].expected \in Nat /\ shift[h] \in Rows
    BY DEF Inv, WriteClose, RequestOK, Closable, Closings, TypeOK
  <1>2. row \in Rows /\ row.status = "closed"
    <2> HIDE DEF h
    <2>1. QED BY <1>1 DEF Rows
  <1>3. WriteShift(r, h, row)
    BY DEF WriteClose
  <1>4. Alone(r) /\ work'[r].shift = [work[r].shift EXCEPT ![h] = row]
    <2> HIDE DEF h, row
    <2>1. QED BY <1>1, <1>2, <1>3, ShiftWritten
  <1>5. shift' = shift /\ \A q \in Requests \ {r} : work'[q] = work[q]
    BY <1>4 DEF Alone, tables, SameRequest
  <1>6. \A q \in Requests \ {r}, c \in Cashiers : Opened(q, c)' => Opened(q, c)
    BY <1>5 DEF Opened
  <1>7. \A c \in Cashiers : Opened(r, c)' => Opened(r, c)
    <2>1. work[r].shift \in [Shifts -> Rows \cup {Unwritten}]
      BY DEF Inv, TypeOK, Writes
    <2> HIDE DEF row, h
    <2>2. QED BY <1>1, <1>2, <1>4, <2>1 DEF Opened, IsOpen
  <1>8. QED
    BY <1>5, <1>6, <1>7 DEF NoneOpened

\* The unique index: no one else is opening or closing a shift of the cashier.
LEMMA InsertShiftOpensOne ==
    ASSUME Inv, ShiftsInv, NEW r \in Requests, InsertShift(r)
    PROVE  ShiftsInv'
  <1> DEFINE h == job[r].opens
             d == job[r].cashier
             row == [cashier |-> d, status |-> "open", expected |-> 0]
  <1>1. pc[r] = "opening" /\ job[r] \in Openings /\ NoShifts(r)
    BY DEF Inv, InsertShift, RequestOK
  <1>2. h \in Shifts /\ d \in Cashiers /\ row \in Rows /\ WriteShift(r, h, row)
    BY <1>1 DEF Openings, Rows, InsertShift, InsertOpen
  <1>3. Alone(r) /\ work'[r].shift = [work[r].shift EXCEPT ![h] = row]
    <2> HIDE DEF h, d, row
    <2>1. QED BY <1>2, ShiftWritten
  <1>4. shift' = shift /\ \A q \in Requests \ {r} : work'[q] = work[q]
    BY <1>3 DEF Alone, tables, SameRequest
  <1>5. \A q \in Requests \ {r}, c \in Cashiers : Opened(q, c)' => Opened(q, c)
    BY <1>4 DEF Opened
  <1>6. \A c \in Cashiers : Opened(r, c)' => c = d
    <2>1. work[r].shift \in [Shifts -> Rows \cup {Unwritten}]
      BY DEF Inv, TypeOK, Writes
    <2>2. row.cashier = d
      OBVIOUS
    <2> HIDE DEF row, h, d
    <2>3. QED BY <1>1, <1>2, <1>3, <2>1, <2>2 DEF Opened, IsOpen, NoShifts, Unwritten
  <1>7. ~HasOpenShift(d)
    BY DEF InsertShift
  <1>8. \A q \in Requests \ {r} : ~Opened(q, d)
    <2>1. SUFFICES ASSUME NEW q \in Requests \ {r}, Opened(q, d) PROVE FALSE
      OBVIOUS
    <2>2. OpensFor(q, d)
      BY <2>1 DEF Opened, OpensFor, IsOpen, LocksShift, Unwritten
    <2>3. WaitsFor(r, q)
      BY <1>1, <2>2 DEF WaitsFor
    <2>4. QED
      BY <2>3 DEF InsertShift, Waits
  <1>9. \A c \in Cashiers : HasOpenShift(c)' <=> HasOpenShift(c)
    BY <1>4 DEF HasOpenShift
  <1>10. \A k, g \in Shifts, c \in Cashiers :
            IsOpen(shift'[k], c) /\ IsOpen(shift'[g], c) => k = g
    BY <1>4 DEF ShiftsInv
  <1>11. \A p \in Requests, c \in Cashiers :
            Opened(p, c)' => /\ ~HasOpenShift(c)'
                             /\ \A q \in Requests \ {p} : ~Opened(q, c)'
    <2> HIDE DEF h, d, row
    <2>1. SUFFICES ASSUME NEW p \in Requests, NEW c \in Cashiers, Opened(p, c)'
                   PROVE  /\ ~HasOpenShift(c)'
                          /\ \A q \in Requests \ {p} : ~Opened(q, c)'
      OBVIOUS
    <2>2. CASE p = r
      <3>1. c = d
        BY <1>6, <2>1, <2>2
      <3>2. QED
        BY <1>2, <1>5, <1>7, <1>8, <1>9, <2>2, <3>1
    <2>3. CASE p # r
      <3>1. Opened(p, c)
        BY <1>5, <2>1, <2>3
      <3>2. c # d
        BY <1>8, <2>3, <3>1
      <3>3. QED
        BY <1>5, <1>6, <1>9, <2>3, <3>1, <3>2 DEF ShiftsInv
    <2>4. QED
      BY <2>2, <2>3
  <1>12. QED
    BY <1>10, <1>11 DEF ShiftsInv

\* A commit makes the open shift that was written the one that is seen.
LEMMA CommitOpensOne ==
    ASSUME Inv, ShiftsInv, NEW r \in Requests, Commit(r)
    PROVE  ShiftsInv'
  <1>1. /\ \A q \in Requests \ {r} : work'[q] = work[q]
        /\ work'[r] = Clean
    BY DEF Commit, End, Inv, TypeOK
  <1>2. \A q \in Requests \ {r}, c \in Cashiers : Opened(q, c)' => Opened(q, c)
    BY <1>1 DEF Opened
  <1>3. \A c \in Cashiers : ~Opened(r, c)'
    BY <1>1 DEF Opened, IsOpen, Clean, Unwritten
  <1>4. WrittenUpload(r) \/ WrittenOpen(r) \/ WrittenClose(r)
    BY DEF Commit, Inv, RequestOK
  <1>5. CASE WrittenUpload(r)
    <2>1. shift' = shift
      BY <1>5, CommitUpload
    <2>2. NoneOpened
      BY <1>2, <1>3, <2>1 DEF NoneOpened
    <2>3. QED
      BY <2>2, NoneOpenedKeeps
  <1>6. CASE WrittenClose(r)
    <2> DEFINE k == job[r].closes
    <2>1. /\ k \in Shifts /\ NoSales(r) /\ NoLinks(r) /\ NoUsage(r)
          /\ \A h \in Shifts : h # k => work[r].shift[h] = Unwritten
          /\ work[r].shift[k].status = "closed"
      BY <1>6 DEF WrittenClose, Closable, Closings
    <2>2. work[r].shift[k] # Unwritten
      BY <2>1 DEF Unwritten
    <2> HIDE DEF k
    <2>3. shift' = [shift EXCEPT ![k] = work[r].shift[k]]
      BY <2>1, <2>2, CommitShift
    <2>4. NoneOpened
      BY <1>2, <1>3, <2>1, <2>3 DEF NoneOpened, IsOpen, Inv, TypeOK
    <2>5. QED
      BY <2>4, NoneOpenedKeeps
  <1>7. CASE WrittenOpen(r)
    <2> DEFINE k == job[r].opens
               row == work[r].shift[k]
               d == row.cashier
    <2>1. /\ k \in Shifts /\ NoSales(r) /\ NoLinks(r) /\ NoUsage(r)
          /\ \A h \in Shifts : h # k => work[r].shift[h] = Unwritten
          /\ row.status = "open"
      BY <1>7 DEF WrittenOpen, Openings
    <2>2. row # Unwritten
      BY <2>1 DEF Unwritten
    <2>3. row \in Rows
      BY <2>1, <2>2 DEF Inv, TypeOK, Writes
    <2>4. d \in Cashiers /\ IsOpen(row, d) /\ Opened(r, d)
      BY <2>1, <2>3 DEF Rows, IsOpen, Opened
    <2>5. shift' = [shift EXCEPT ![k] = row]
      <3>1. QED BY <2>1, <2>2, CommitShift
    <2>6. ~HasOpenShift(d) /\ \A q \in Requests \ {r} : ~Opened(q, d)
      <3> HIDE DEF d
      <3>1. QED BY <2>4 DEF ShiftsInv
    <2> HIDE DEF k, row, d
    <2>7. \A h \in Shifts : shift'[h] = IF h = k THEN row ELSE shift[h]
      BY <2>5 DEF Inv, TypeOK
    <2>8. \A h \in Shifts : ~IsOpen(shift[h], d)
      BY <2>6 DEF HasOpenShift, IsOpen
    <2>9. \A c \in Cashiers : IsOpen(row, c) => c = d
      BY DEF IsOpen, d
    <2>10. \A g, h \in Shifts, c \in Cashiers :
              IsOpen(shift'[g], c) /\ IsOpen(shift'[h], c) => g = h
      <3>1. SUFFICES ASSUME NEW g \in Shifts, NEW h \in Shifts, NEW c \in Cashiers,
                            IsOpen(shift'[g], c), IsOpen(shift'[h], c)
                     PROVE  g = h
        OBVIOUS
      <3>2. CASE c = d
        BY <2>7, <2>8, <3>1, <3>2
      <3>3. CASE c # d
        BY <2>7, <2>9, <3>1, <3>3 DEF ShiftsInv
      <3>4. QED
        BY <3>2, <3>3
    <2>11. \A c \in Cashiers : c # d /\ HasOpenShift(c)' => HasOpenShift(c)
      <3>1. SUFFICES ASSUME NEW c \in Cashiers, c # d, NEW h \in Shifts, IsOpen(shift'[h], c)
                     PROVE  HasOpenShift(c)
        BY DEF HasOpenShift, IsOpen
      <3>2. IsOpen(shift[h], c)
        BY <2>7, <2>9, <3>1
      <3>3. QED
        BY <3>2 DEF HasOpenShift, IsOpen
    <2>12. \A p \in Requests, c \in Cashiers :
              Opened(p, c)' => /\ ~HasOpenShift(c)'
                               /\ \A q \in Requests \ {p} : ~Opened(q, c)'
      <3>1. SUFFICES ASSUME NEW p \in Requests, NEW c \in Cashiers, Opened(p, c)'
                     PROVE  /\ ~HasOpenShift(c)'
                            /\ \A q \in Requests \ {p} : ~Opened(q, c)'
        OBVIOUS
      <3>2. p # r /\ Opened(p, c)
        BY <1>2, <1>3, <3>1
      <3>3. c # d
        BY <2>6, <3>2
      <3>4. QED
        BY <1>2, <1>3, <2>11, <3>2, <3>3 DEF ShiftsInv
    <2>13. QED
      BY <2>10, <2>12 DEF ShiftsInv
  <1>8. QED
    BY <1>4, <1>5, <1>6, <1>7

\* At first no shift is open.
LEMMA InitShifts == Init => ShiftsInv
  BY DEF Init, ShiftsInv, IsOpen, Opened, Clean, Unwritten, Unopened

\* Every step keeps the shifts of a cashier apart.
LEMMA NextShifts ==
    ASSUME Inv, ShiftsInv, [Next]_vars
    PROVE  ShiftsInv'
  <1>1. ASSUME NEW r \in Requests,
               \/ \E b \in Batches, h \in Shifts \cup {NoShift} : BeginUpload(r, b, h)
               \/ InsertSale(r) \/ LinkShifts(r) \/ ChooseMonth(r) \/ IncrementUsage(r)
        PROVE  ShiftsInv'
    BY <1>1, UploadOpensNone, NoneOpenedKeeps
  <1>2. ASSUME NEW r \in Requests,
               \/ \E h \in Shifts : BeginClose(r, h) \/ \E c \in Cashiers : BeginOpen(r, h, c)
               \/ SumCash(r) \/ LinkFails(r) \/ DuplicateShift(r) \/ DeadlockVictim(r)
               \/ EndFailed(r) \/ Abort(r)
        PROVE  ShiftsInv'
    BY <1>2, ShiftOpensNone, NoneOpenedKeeps
  <1>3. ASSUME NEW r \in Requests, WriteClose(r)
        PROVE  ShiftsInv'
    BY <1>3, WriteCloseOpensNone, NoneOpenedKeeps
  <1>4. ASSUME NextMonth \/ UNCHANGED vars
        PROVE  ShiftsInv'
    <2>1. shift' = shift /\ work' = work
      BY <1>4 DEF NextMonth, vars, tables
    <2>2. NoneOpened
      BY <2>1 DEF NoneOpened, Opened
    <2>3. QED
      BY <2>2, NoneOpenedKeeps
  <1>5. QED
    BY <1>1, <1>2, <1>3, <1>4, InsertShiftOpensOne, CommitOpensOne DEF Next

\* One request has written no two open shifts.
LEMMA OpenedOnce ==
    ASSUME Inv, NEW r \in Requests, NEW g \in Shifts, NEW h \in Shifts,
           work[r].shift[g].status = "open", work[r].shift[h].status = "open"
    PROVE  g = h
  <1>1. work[r].shift[g] # Unwritten /\ work[r].shift[h] # Unwritten
    BY DEF Unwritten
  <1>2. pc[r] \in {"idle", "upload", "linked", "counting", "opening", "closing", "summed",
                   "written", "failed"}
    BY DEF Inv, TypeOK
  <1>3. RequestOK(r)
    BY DEF Inv
  <1>4. WrittenOpen(r) \/ WrittenClose(r)
    BY <1>1, <1>2, <1>3 DEF RequestOK, Uploading, WrittenUpload, NoShifts
  <1>5. QED
    BY <1>1, <1>4 DEF WrittenOpen, WrittenClose

\* A cashier has at most one open shift, committed or about to be, although
\* OpenShift only counts the committed ones before it inserts.
THEOREM OneShiftOpens == Spec => []OneOpenShift
  <1>1. Inv /\ ShiftsInv => OneOpenShift
    <2>1. SUFFICES ASSUME Inv, ShiftsInv, NEW c \in Cashiers, NEW g \in Shifts, NEW h \in Shifts,
                          OpenOf(c, g), OpenOf(c, h)
                   PROVE  g = h
      BY DEF OneOpenShift
    <2> DEFINE By(k) == \E r \in Requests : IsOpen(work[r].shift[k], c)
    <2>2. (IsOpen(shift[g], c) \/ By(g)) /\ (IsOpen(shift[h], c) \/ By(h))
      BY <2>1 DEF OpenOf, IsOpen
    <2>3. CASE IsOpen(shift[g], c) /\ IsOpen(shift[h], c)
      BY <2>1, <2>3 DEF ShiftsInv
    <2>4. CASE (IsOpen(shift[g], c) /\ By(h)) \/ (IsOpen(shift[h], c) /\ By(g))
      <3>1. HasOpenShift(c) /\ \E r \in Requests : Opened(r, c)
        BY <2>4 DEF HasOpenShift, IsOpen, Opened
      <3>2. QED
        BY <2>1, <3>1 DEF ShiftsInv
    <2>5. CASE By(g) /\ By(h)
      <3>1. PICK r \in Requests, q \in Requests :
               IsOpen(work[r].shift[g], c) /\ IsOpen(work[q].shift[h], c)
        BY <2>5
      <3>2. Opened(r, c) /\ Opened(q, c)
        BY <3>1 DEF Opened
      <3>3. r = q
        BY <2>1, <3>2 DEF ShiftsInv
      <3>4. QED
        BY <2>1, <3>1, <3>3, OpenedOnce DEF IsOpen
    <2>6. QED
      BY <2>2, <2>3, <2>4, <2>5
  <1>2. QED
    BY <1>1, InitInv, NextInv, InitShifts, NextShifts, PTL DEF Spec

-----------------------------------------------------------------------------
(***************************************************************************)
(* By how much the limit is passed.                                        *)
(***************************************************************************)
\* The requests that may still add to a month are finitely many.
LEMMA AddingFinite ==
    ASSUME NEW m \in 1 .. Months
    PROVE  /\ IsFiniteSet(Adding(m)) /\ Cardinality(Adding(m)) \in Nat
           /\ Cardinality(Requests) \in Nat /\ Cardinality(Adding(m)) <= Cardinality(Requests)
  <1>1. Adding(m) \subseteq Requests
    BY DEF Adding
  <1>2. QED
    BY <1>1, RequestsAssumption, FS_Subset, FS_CardinalityType

\* More requests bring no fewer sales.
LEMMA TimesMonotone ==
    ASSUME NEW b \in Nat, NEW i \in Nat, NEW j \in Nat, i <= j
    PROVE  b * i \in Nat /\ b * j \in Nat /\ b * i <= b * j
  OBVIOUS

\* One request less brings MaxBatch sales less.
LEMMA TimesPred ==
    ASSUME NEW b \in Nat, NEW j \in Nat, j > 0
    PROVE  b * (j - 1) = b * j - b
  OBVIOUS

\* No more requests may add to the month, and nothing has been added.
LEMMA FewerAdding ==
    ASSUME NEW m \in 1 .. Months, Adding(m)' \subseteq Adding(m), Inv,
           usage'[m] = usage[m],
           \/ usage[m] < Limit
           \/ usage[m] + MaxBatch * Cardinality(Adding(m))
                  <= Limit - 1 + MaxBatch * Cardinality(Requests)
    PROVE  \/ usage'[m] < Limit
           \/ usage'[m] + MaxBatch * Cardinality(Adding(m)')
                  <= Limit - 1 + MaxBatch * Cardinality(Requests)
  <1> DEFINE a == Cardinality(Adding(m))
             b == Cardinality(Adding(m)')
             n == Cardinality(Requests)
             u == usage[m]
  <1>1. IsFiniteSet(Adding(m)) /\ a \in Nat /\ n \in Nat
    BY AddingFinite
  <1>2. b \in Nat /\ b <= a
    <2>1. IsFiniteSet(Adding(m)') /\ b <= a
      BY <1>1, FS_Subset
    <2>2. QED
      BY <2>1, FS_CardinalityType
  <1>3. u \in Nat /\ Limit \in Nat /\ MaxBatch \in Nat
    BY LimitAssumption, BoundsAssumption DEF Inv, TypeOK
  <1> HIDE DEF a, b, n, u
  <1>4. MaxBatch * b \in Nat /\ MaxBatch * a \in Nat /\ MaxBatch * n \in Nat
        /\ MaxBatch * b <= MaxBatch * a
    BY <1>1, <1>2, <1>3, TimesMonotone
  <1>5. QED
    BY <1>3, <1>4 DEF a, b, n, u

\* A step that adds nothing to a month, and lets no more requests add to it, keeps
\* its bound.
LEMMA LimitKept ==
    ASSUME Inv, LimitInv, usage' = usage,
           \A m \in 1 .. Months, q \in Requests : MayAdd(q, m)' => MayAdd(q, m)
    PROVE  LimitInv'
  <1>1. \A m \in 1 .. Months : Adding(m)' \subseteq Adding(m)
    BY DEF Adding
  <1>2. SUFFICES ASSUME NEW m \in 1 .. Months
                 PROVE  \/ usage'[m] < Limit
                        \/ usage'[m] + MaxBatch * Cardinality(Adding(m)')
                               <= Limit - 1 + MaxBatch * Cardinality(Requests)
    BY DEF LimitInv
  <1>3. QED
    BY <1>1, FewerAdding DEF LimitInv

\* A step of one request that adds to no month it could not have added to.
LEMMA AloneLimit ==
    ASSUME Inv, LimitInv, NEW r \in Requests, Alone(r),
           \A m \in 1 .. Months : MayAdd(r, m)' => MayAdd(r, m)
    PROVE  LimitInv'
  <1>1. usage' = usage /\ month' = month
    BY DEF Alone, tables
  <1>2. \A m \in 1 .. Months, q \in Requests \ {r} : MayAdd(q, m)' => MayAdd(q, m)
    BY <1>1 DEF MayAdd, Alone, SameRequest
  <1>3. QED
    BY <1>1, <1>2, LimitKept

\* The quota is checked: the month has not reached the limit, no later one has
\* begun.
LEMMA BeginUploadLimit ==
    ASSUME Inv, LimitInv, NEW r \in Requests, NEW b \in Batches,
           NEW h \in Shifts \cup {NoShift}, BeginUpload(r, b, h)
    PROVE  LimitInv'
  <1>1. /\ pc[r] = "idle" /\ usage' = usage /\ month' = month /\ usage[month] < Limit
        /\ pc'[r] = "upload" /\ \A q \in Requests \ {r} : SameRequest(q)
    BY DEF Inv, TypeOK, BeginUpload, WithinLimit, tables, SameRequest
  <1>2. SUFFICES ASSUME NEW m \in 1 .. Months
                 PROVE  \/ usage'[m] < Limit
                        \/ usage'[m] + MaxBatch * Cardinality(Adding(m)')
                               <= Limit - 1 + MaxBatch * Cardinality(Requests)
    BY DEF LimitInv
  <1>3. CASE m = month
    BY <1>1, <1>3
  <1>4. CASE m > month
    BY <1>1, <1>4, LimitAssumption DEF Inv, NoneAhead
  <1>5. CASE m < month
    <2>1. month \in Nat /\ m \in Nat
      BY DEF Inv, TypeOK
    <2>2. ~MayAdd(r, m)'
      BY <1>1, <1>5, <2>1 DEF MayAdd
    <2>3. \A q \in Requests \ {r} : MayAdd(q, m)' => MayAdd(q, m)
      BY <1>1 DEF MayAdd, SameRequest
    <2>4. Adding(m)' \subseteq Adding(m)
      BY <2>2, <2>3 DEF Adding
    <2>5. QED
      BY <1>1, <2>4, FewerAdding DEF LimitInv
  <1>6. month \in Nat /\ m \in Nat
    BY DEF Inv, TypeOK
  <1>7. QED
    BY <1>3, <1>4, <1>5, <1>6

\* The steps of an upload up to its commit add to no month.
LEMMA UploadLimit ==
    ASSUME Inv, LimitInv, NEW r \in Requests,
           InsertSale(r) \/ LinkShifts(r) \/ ChooseMonth(r) \/ IncrementUsage(r)
    PROVE  LimitInv'
  <1>1. Alone(r)
    BY DEF Inv, TypeOK, InsertSale, LinkShifts, ChooseMonth, IncrementUsage, Alone, SameRequest
  <1>2. CASE InsertSale(r)
    <2>1. pc[r] = "upload" /\ pc'[r] = "upload" /\ month' = month
      BY <1>2 DEF InsertSale, Inserting
    <2>2. QED
      BY <1>1, <2>1, AloneLimit DEF MayAdd
  <1>3. CASE LinkShifts(r)
    <2>1. pc[r] = "upload" /\ pc'[r] = "linked" /\ month' = month
      BY <1>3 DEF LinkShifts, Inv, TypeOK
    <2>2. QED
      BY <1>1, <2>1, AloneLimit DEF MayAdd
  <1>4. CASE ChooseMonth(r)
    <2>1. /\ pc[r] = "linked" /\ pc'[r] = "counting" /\ job'[r].month = month
          /\ month \in 1 .. Months
      BY <1>4 DEF ChooseMonth, Inv, TypeOK
    <2>2. \A m \in 1 .. Months : MayAdd(r, m)' => MayAdd(r, m)
      BY <2>1 DEF MayAdd
    <2>3. QED
      BY <1>1, <2>2, AloneLimit
  <1>5. CASE IncrementUsage(r)
    <2>1. /\ pc[r] = "counting" /\ pc'[r] = "written" /\ work[r] \in Writes /\ NoUsage(r)
          /\ job[r].size \in Nat /\ job[r].month \in 1 .. Months
      BY <1>5 DEF IncrementUsage, Inv, TypeOK, RequestOK, Countings
    <2>2. work'[r] = [work[r] EXCEPT !.usage = [work[r].usage EXCEPT ![job[r].month] = job[r].size]]
      BY <1>5 DEF IncrementUsage, Inv, TypeOK
    <2>3. work'[r].usage = [work[r].usage EXCEPT ![job[r].month] = job[r].size]
      BY <2>1, <2>2 DEF Writes
    <2>4. work[r].usage \in [1 .. Months -> Nat]
      BY <2>1 DEF Writes
    <2>5. \A m \in 1 .. Months : work'[r].usage[m] > 0 => m = job[r].month
      BY <2>1, <2>3, <2>4 DEF NoUsage
    <2>6. \A m \in 1 .. Months : MayAdd(r, m)' => MayAdd(r, m)
      BY <2>1, <2>5 DEF MayAdd
    <2>7. QED
      BY <1>1, <2>6, AloneLimit
  <1>6. QED
    BY <1>2, <1>3, <1>4, <1>5

\* What opens or closes a shift, fails or ends without committing counts nothing.
LEMMA ShiftLimit ==
    ASSUME Inv, LimitInv, NEW r \in Requests,
           \/ \E h \in Shifts : BeginClose(r, h) \/ \E c \in Cashiers : BeginOpen(r, h, c)
           \/ SumCash(r) \/ LinkFails(r) \/ DuplicateShift(r) \/ DeadlockVictim(r)
           \/ EndFailed(r) \/ Abort(r)
    PROVE  LimitInv'
  <1>1. Alone(r)
    BY DEF Inv, TypeOK, BeginClose, BeginOpen, SumCash, LinkFails, DuplicateShift,
           DeadlockVictim, EndFailed, Abort, Break, End, Alone, SameRequest
  <1>2. pc'[r] \in {"closing", "opening", "summed", "failed", "idle"}
    BY DEF Inv, TypeOK, BeginClose, BeginOpen, SumCash, LinkFails, DuplicateShift,
           DeadlockVictim, EndFailed, Abort, Break, End
  <1>3. \A m \in 1 .. Months : ~MayAdd(r, m)'
    BY <1>2 DEF MayAdd
  <1>4. QED
    BY <1>1, <1>3, AloneLimit

\* Writing a shift counts no sale.
LEMMA WriteShiftLimit ==
    ASSUME Inv, LimitInv, NEW r \in Requests, InsertShift(r) \/ WriteClose(r)
    PROVE  LimitInv'
  <1>1. PICK h \in Shifts : \E row : WriteShift(r, h, row)
    BY DEF Inv, RequestOK, InsertShift, InsertOpen, WriteClose, Openings, Closable, Closings
  <1>2. Alone(r) /\ pc'[r] = "written" /\ NoUsage(r)
    BY <1>1 DEF Inv, TypeOK, RequestOK, InsertShift, WriteClose, WriteShift, Alone, SameRequest
  <1>3. work'[r].usage = work[r].usage
    <2>1. work \in [Requests -> Writes]
      BY DEF Inv, TypeOK
    <2>2. QED
      BY <1>1, <2>1 DEF WriteShift, Writes
  <1>4. \A m \in 1 .. Months : ~MayAdd(r, m)'
    BY <1>2, <1>3 DEF MayAdd, NoUsage
  <1>5. QED
    BY <1>2, <1>4, AloneLimit

\* An upload ends: what it adds, it no longer may add.
LEMMA CommitLimit ==
    ASSUME Inv, LimitInv, NEW r \in Requests, Commit(r)
    PROVE  LimitInv'
  <1>1. /\ pc[r] = "written" /\ pc'[r] = "idle" /\ month' = month
        /\ \A q \in Requests \ {r} : SameRequest(q)
    BY DEF Inv, TypeOK, Commit, End, SameRequest
  <1>2. \A m \in 1 .. Months : Adding(m)' \subseteq Adding(m) \ {r}
    <2>1. \A m \in 1 .. Months : ~MayAdd(r, m)'
      BY <1>1 DEF MayAdd
    <2>2. \A m \in 1 .. Months, q \in Requests \ {r} : MayAdd(q, m)' => MayAdd(q, m)
      BY <1>1 DEF MayAdd, SameRequest
    <2>3. QED
      BY <2>1, <2>2 DEF Adding
  <1>3. SUFFICES ASSUME NEW m \in 1 .. Months
                 PROVE  \/ usage'[m] < Limit
                        \/ usage'[m] + MaxBatch * Cardinality(Adding(m)')
                               <= Limit - 1 + MaxBatch * Cardinality(Requests)
    BY DEF LimitInv
  <1>4. CASE usage'[m] = usage[m]
    BY <1>2, <1>4, FewerAdding DEF LimitInv
  <1>5. CASE usage'[m] # usage[m]
    <2>1. WrittenUpload(r)
      <3>1. CASE NoUsage(r)
        <4>1. CountedWith(r, m) = usage[m]
          BY <3>1 DEF NoUsage, CountedWith, Inv, TypeOK
        <4>2. QED
          BY <1>5, <4>1 DEF Commit
      <3>2. CASE ~NoUsage(r)
        BY <1>1, <3>2 DEF Inv, RequestOK, WrittenOpen, WrittenClose
      <3>3. QED
        BY <3>1, <3>2
    <2> DEFINE a == Cardinality(Adding(m))
               b == Cardinality(Adding(m)')
               n == Cardinality(Requests)
               u == usage[m]
               k == job[r].size
               B == MaxBatch
    <2>2. usage'[m] = u + k /\ m = job[r].month
      BY <1>5, <2>1, CommitUpload
    <2>3. k \in Nat /\ k > 0 /\ k <= B /\ B \in Nat /\ Limit \in Nat /\ u \in Nat
      BY <2>1, BoundsAssumption, LimitAssumption
         DEF WrittenUpload, Uploading, Inv, TypeOK
    <2>4. r \in Adding(m)
      BY <1>1, <2>1, <2>2, <2>3 DEF Adding, MayAdd, WrittenUpload
    <2>5. IsFiniteSet(Adding(m)) /\ a \in Nat /\ n \in Nat /\ a <= n
      BY AddingFinite
    <2>6. b \in Nat /\ b <= a - 1
      <3> DEFINE S == Adding(m)
                 T == Adding(m)'
      <3>1. IsFiniteSet(S) /\ T \subseteq S \ {r} /\ r \in S
        BY <1>2, <2>4, <2>5
      <3> HIDE DEF S, T
      <3>2. IsFiniteSet(S \ {r}) /\ Cardinality(S \ {r}) = Cardinality(S) - 1
        BY <3>1, FS_RemoveElement
      <3>3. IsFiniteSet(T) /\ Cardinality(T) <= Cardinality(S \ {r})
        BY <3>1, <3>2, FS_Subset
      <3>4. QED
        BY <3>2, <3>3, FS_CardinalityType DEF S, T
    <2>7. u < Limit \/ u + B * a <= Limit - 1 + B * n
      BY DEF LimitInv
    <2> HIDE DEF a, b, n, u, k, B
    <2>8. a > 0 /\ B * (a - 1) = B * a - B /\ B * b <= B * (a - 1)
      BY <2>3, <2>5, <2>6, TimesPred, TimesMonotone
    <2>9. B * a <= B * n /\ B * a \in Nat /\ B * n \in Nat /\ B * b \in Nat
      BY <2>3, <2>5, <2>6, TimesMonotone
    <2>10. u + k + B * b <= Limit - 1 + B * n
      BY <2>3, <2>7, <2>8, <2>9
    <2>11. QED
      BY <2>2, <2>10 DEF a, b, n, u, k, B
  <1>6. QED
    BY <1>4, <1>5

\* Nothing is counted, and the limit is not negative.
LEMMA InitLimit == Init => LimitInv
  BY LimitAssumption DEF Init, LimitInv

\* Every step keeps the bound.
LEMMA NextLimit ==
    ASSUME Inv, LimitInv, [Next]_vars
    PROVE  LimitInv'
  <1>1. ASSUME NEW r \in Requests, NEW b \in Batches, NEW h \in Shifts \cup {NoShift},
               BeginUpload(r, b, h)
        PROVE  LimitInv'
    BY <1>1, BeginUploadLimit
  <1>2. ASSUME NEW r \in Requests,
               InsertSale(r) \/ LinkShifts(r) \/ ChooseMonth(r) \/ IncrementUsage(r)
        PROVE  LimitInv'
    BY <1>2, UploadLimit
  <1>3. ASSUME NEW r \in Requests,
               \/ \E h \in Shifts : BeginClose(r, h) \/ \E c \in Cashiers : BeginOpen(r, h, c)
               \/ SumCash(r) \/ LinkFails(r) \/ DuplicateShift(r) \/ DeadlockVictim(r)
               \/ EndFailed(r) \/ Abort(r)
        PROVE  LimitInv'
    BY <1>3, ShiftLimit
  <1>4. ASSUME NEW r \in Requests, InsertShift(r) \/ WriteClose(r)
        PROVE  LimitInv'
    BY <1>4, WriteShiftLimit
  <1>5. CASE NextMonth
    <2>1. usage' = usage /\ pc' = pc /\ job' = job /\ work' = work /\ month' = month + 1
          /\ month \in Nat
      BY <1>5 DEF NextMonth, tables, Inv, TypeOK
    <2>2. \A m \in 1 .. Months, q \in Requests : MayAdd(q, m)' => MayAdd(q, m)
      BY <2>1 DEF MayAdd
    <2>3. QED
      BY <2>1, <2>2, LimitKept
  <1>6. CASE UNCHANGED vars
    <2>1. usage' = usage /\ pc' = pc /\ job' = job /\ work' = work /\ month' = month
      BY <1>6 DEF vars
    <2>2. \A m \in 1 .. Months, q \in Requests : MayAdd(q, m)' => MayAdd(q, m)
      BY <2>1 DEF MayAdd
    <2>3. QED
      BY <2>1, <2>2, LimitKept
  <1>7. QED
    BY <1>1, <1>2, <1>3, <1>4, <1>5, <1>6, CommitLimit DEF Next

\* The plan's limit is checked before an upload on a usage that other uploads are
\* about to change, in a month that may end: it is passed by no more than what the
\* requests in progress bring (CheckTransactionLimit against IncrementUsage).
THEOREM OvershootIsBounded == Spec => []OvershootBounded
  <1>1. Inv /\ LimitInv => OvershootBounded
    <2>1. SUFFICES ASSUME Inv, LimitInv, NEW m \in 1 .. Months
                   PROVE  usage[m] <= Limit - 1 + Cardinality(Requests) * MaxBatch
      BY DEF OvershootBounded
    <2> DEFINE a == Cardinality(Adding(m))
               n == Cardinality(Requests)
               u == usage[m]
    <2>2. a \in Nat /\ n \in Nat /\ a <= n
      BY AddingFinite
    <2>3. u \in Nat /\ MaxBatch \in Nat /\ Limit \in Nat
      BY <2>1, LimitAssumption, BoundsAssumption DEF Inv, TypeOK
    <2>4. u < Limit \/ u + MaxBatch * a <= Limit - 1 + MaxBatch * n
      BY <2>1 DEF LimitInv
    <2> HIDE DEF a, n, u
    <2>5. MaxBatch * a \in Nat /\ MaxBatch * n \in Nat
      BY <2>2, <2>3, TimesMonotone
    <2>6. n * MaxBatch = MaxBatch * n
      BY <2>2, <2>3
    <2>7. QED
      BY <2>3, <2>4, <2>5, <2>6 DEF n, u
  <1>2. QED
    BY <1>1, InitInv, NextInv, InitLimit, NextLimit, PTL DEF Spec
=============================================================================
