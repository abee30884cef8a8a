------------------------ MODULE OrderLifecycle_proofs ------------------------
(***************************************************************************)
(* Proofs about OrderLifecycle for any number of requests, orders, sales   *)
(* and supplies: the history explains the row and every step in it leaves  *)
(* a status the order has had, a sale has one order, and the stock is what *)
(* the orders that were done have taken from it.                           *)
(***************************************************************************)
EXTENDS OrderLifecycle, FiniteSums_proofs, SequenceTheorems

(***************************************************************************)
(* The inductive invariant: what each request has done so far.             *)
(***************************************************************************)
\* How often the supply s occurs in a list of deductions.
Times(seq, s) == Cardinality({n \in 1 .. Len(seq) : seq[n] = s})

WrittenNothing(u) == work[u] = NoOrder /\ todo[u] = <<>> /\ taken[u] = Nothing

\* The order exists, and has had the status that the step leaves.
Stepping(u) ==
    /\ order[job[u].order] # NoOrder
    /\ job[u].entry.from # "none"
    /\ LoggedTo(job[u].order, job[u].entry.from) # {}

Creating(u) ==
    /\ order[job[u].order] = NoOrder
    /\ job[u].entry = [from |-> "none", to |-> "received"]
    /\ work[u] = NewRow(work[u].tx)

Updating(u) ==
    /\ Stepping(u)
    /\ work[u] = UpdatedRow(order[job[u].order], job[u].entry.to)

\* What it has taken and has still to take is what the order's sale uses.
Deducting(u) ==
    \A s \in Supplies :
        taken[u][s] + Times(todo[u], s) =
            IF job[u].entry.to = "done" THEN UsesOf(job[u].order, s) ELSE 0

RequestOK(u) ==
    /\ pc[u] \in {"idle", "failed"} => job[u] = NoJob /\ WrittenNothing(u)
    /\ pc[u] = "read" => job[u] \in Jobs /\ Stepping(u) /\ WrittenNothing(u)
    /\ pc[u] = "written" =>
          job[u] \in Jobs /\ (Creating(u) \/ Updating(u)) /\ Deducting(u)

\* The row lock: an order is written by one request at a time.
WritersApart ==
    \A u, v \in Users :
        pc[u] = "written" /\ pc[v] = "written" /\ job[u].order = job[v].order => u = v

MovesMatch ==
    \A o \in Orders, s \in Supplies :
        moves[o][s] = Cardinality(LoggedTo(o, "done")) * UsesOf(o, s)

Taken(s) == SumOver([o \in Orders |-> moves[o][s]], Orders)
StockMatches == \A s \in Supplies : stock[s] = -Taken(s)

Inv ==
    /\ TypeOK
    /\ \A u \in Users : RequestOK(u)
    /\ WritersApart
    /\ HistoryExplainsOrder
    /\ StepsFromHistory
    /\ MovesMatch
    /\ StockMatches

(***************************************************************************)
(* The strengthening of OneOrderPerTransaction: what a request has written *)
(* of a sale's order is about the committed one, if there is one.          *)
(***************************************************************************)
OneOrderInv ==
    /\ OneOrderPerTransaction
    /\ \A t \in Transactions, o \in Orders, u \in Users :
          Uses(order[o], t) /\ Uses(work[u], t) => job[u].order = o

-----------------------------------------------------------------------------
(***************************************************************************)
(* Counting in sequences.                                                  *)
(***************************************************************************)
\* A supply occurs in a finite list a natural number of times.
LEMMA TimesNat ==
    ASSUME NEW S, NEW seq \in Seq(S), NEW s
    PROVE  /\ IsFiniteSet({n \in 1 .. Len(seq) : seq[n] = s})
           /\ Times(seq, s) \in Nat
  <1>1. Len(seq) \in Nat
    OBVIOUS
  <1>2. IsFiniteSet(1 .. Len(seq))
    BY <1>1, FS_Interval
  <1>3. IsFiniteSet({n \in 1 .. Len(seq) : seq[n] = s})
    BY <1>2, FS_Subset
  <1>4. QED
    BY <1>3, FS_CardinalityType DEF Times

\* An empty list has nothing to deduct.
LEMMA TimesEmpty == \A s : Times(<<>>, s) = 0
  BY FS_EmptySet DEF Times

\* What is deducted first occurs once less in the rest.
LEMMA TimesTail ==
    ASSUME NEW S, NEW seq \in Seq(S), seq # <<>>, NEW s
    PROVE  Times(seq, s) = Times(Tail(seq), s) + (IF Head(seq) = s THEN 1 ELSE 0)
  <1> DEFINE t == Tail(seq)
             A == {n \in 1 .. Len(t) : t[n] = s}
             B == {n \in 2 .. Len(seq) : seq[n] = s}
             C == {n \in 1 .. Len(seq) : seq[n] = s}
             f == [n \in A |-> n + 1]
  <1>1. /\ Len(seq) \in Nat /\ Len(seq) > 0
        /\ t \in Seq(S) /\ Len(t) = Len(seq) - 1
        /\ \A n \in 1 .. Len(t) : t[n] = seq[n + 1]
        /\ Head(seq) = seq[1]
    BY HeadTailProperties
  <1>2. f \in Bijection(A, B)
    <2>1. f \in [A -> B]
      BY <1>1
    <2>2. \A m, n \in A : f[m] = f[n] => m = n
      OBVIOUS
    <2>3. \A n \in B : n - 1 \in A /\ f[n - 1] = n
      BY <1>1
    <2>4. QED
      <3> HIDE DEF f, A, B
      <3>1. \A n \in B : \E m \in A : f[m] = n
        BY <2>3
      <3>2. QED
        BY <2>1, <2>2, <3>1 DEF Bijection, Injection, Surjection, IsInjective
  <1>3. IsFiniteSet(A)
    BY <1>1, TimesNat
  <1>4. IsFiniteSet(B) /\ Cardinality(B) = Cardinality(A)
    <2> HIDE DEF f, A, B
    <2>1. ExistsBijection(A, B)
      BY <1>2 DEF ExistsBijection
    <2>2. QED
      BY <1>3, <2>1, FS_Bijection
  <1>5. C = IF seq[1] = s THEN B \cup {1} ELSE B
    BY <1>1
  <1>6. 1 \notin B
    OBVIOUS
  <1>7. Cardinality(C) = Cardinality(B) + (IF seq[1] = s THEN 1 ELSE 0)
    <2>1. Cardinality(B) \in Nat
      BY <1>4, FS_CardinalityType
    <2> HIDE DEF B, C
    <2>2. Cardinality(B \cup {1}) = Cardinality(B) + 1
      BY <1>4, <1>6, FS_AddElement
    <2>3. QED
      BY <1>5, <2>1, <2>2
  <1>8. QED
    BY <1>1, <1>4, <1>7 DEF Times

\* The entries of a history that lead to a status are finitely many.
LEMMA LoggedFinite ==
    ASSUME TypeOK, NEW o \in Orders, NEW s
    PROVE  IsFiniteSet(LoggedTo(o, s)) /\ Cardinality(LoggedTo(o, s)) \in Nat
  <1>1. Len(log[o]) \in Nat
    BY DEF TypeOK
  <1>2. IsFiniteSet(1 .. Len(log[o]))
    BY <1>1, FS_Interval
  <1>3. IsFiniteSet(LoggedTo(o, s))
    BY <1>2, FS_Subset DEF LoggedTo
  <1>4. QED
    BY <1>3, FS_CardinalityType

\* The items of a sale use each supply a natural number of times.
LEMMA RowUsesNat ==
    ASSUME NEW row \in Rows \cup {NoOrder}, NEW s
    PROVE  (IF row = NoOrder \/ row.tx = NoTransaction THEN 0
            ELSE Cardinality({n \in 1 .. Len(Recipe[row.tx]) : Recipe[row.tx][n] = s})) \in Nat
  <1>1. CASE row = NoOrder \/ row.tx = NoTransaction
    BY <1>1
  <1>2. CASE ~(row = NoOrder \/ row.tx = NoTransaction)
    <2>1. row.tx \in Transactions
      BY <1>2 DEF Rows
    <2>2. Recipe[row.tx] \in Seq(Supplies)
      BY <2>1, RecipeAssumption
    <2>3. Cardinality({n \in 1 .. Len(Recipe[row.tx]) : Recipe[row.tx][n] = s}) \in Nat
      BY <2>2, TimesNat DEF Times
    <2>4. QED
      BY <1>2, <2>3
  <1>3. QED
    BY <1>1, <1>2

\* So does an order, whether it belongs to a sale or not.
LEMMA UsesNat ==
    ASSUME NEW o \in Orders, NEW s
    PROVE  /\ TypeOK => UsesOf(o, s) \in Nat
           /\ TypeOK' => UsesOf(o, s)' \in Nat
  <1>1. TypeOK => UsesOf(o, s) \in Nat
    <2>1. SUFFICES ASSUME TypeOK PROVE UsesOf(o, s) \in Nat
      OBVIOUS
    <2> DEFINE row == order[o]
    <2>2. row \in Rows \cup {NoOrder}
      BY <2>1 DEF TypeOK
    <2>3. (IF row = NoOrder \/ row.tx = NoTransaction THEN 0
           ELSE Cardinality({n \in 1 .. Len(Recipe[row.tx]) : Recipe[row.tx][n] = s})) \in Nat
      <3> HIDE DEF row
      <3>1. QED BY <2>2, RowUsesNat
    <2>4. QED
      BY <2>3 DEF UsesOf
  <1>2. TypeOK' => UsesOf(o, s)' \in Nat
    <2>1. SUFFICES ASSUME TypeOK' PROVE UsesOf(o, s)' \in Nat
      OBVIOUS
    <2> DEFINE row == order'[o]
    <2>2. row \in Rows \cup {NoOrder}
      BY <2>1 DEF TypeOK
    <2>3. (IF row = NoOrder \/ row.tx = NoTransaction THEN 0
           ELSE Cardinality({n \in 1 .. Len(Recipe[row.tx]) : Recipe[row.tx][n] = s})) \in Nat
      <3> HIDE DEF row
      <3>1. QED BY <2>2, RowUsesNat
    <2>4. QED
      BY <2>3 DEF UsesOf
  <1>3. QED
    BY <1>1, <1>2

-----------------------------------------------------------------------------
(***************************************************************************)
(* What a step leaves alone.                                               *)
(***************************************************************************)
SameRequest(v) ==
    /\ pc'[v] = pc[v] /\ job'[v] = job[v] /\ work'[v] = work[v]
    /\ todo'[v] = todo[v] /\ taken'[v] = taken[v]

\* Orders stay, and so does what their histories say they have been.
Grown ==
    \A o \in Orders :
        /\ order[o] # NoOrder => order'[o] # NoOrder
        /\ \A s \in Statuses : LoggedTo(o, s) # {} => LoggedTo(o, s)' # {}

\* A request that does nothing keeps its invariant while histories only grow and
\* the row it has locked stays.
LEMMA RequestKept ==
    ASSUME TypeOK, NEW v \in Users, RequestOK(v), SameRequest(v), Grown,
           pc[v] = "written" => order'[job[v].order] = order[job[v].order]
    PROVE  RequestOK(v)'
  <1>1. WrittenNothing(v)' = WrittenNothing(v)
    BY DEF WrittenNothing, SameRequest
  <1>2. job[v] \in Jobs /\ Stepping(v) => Stepping(v)'
    <2>1. SUFFICES ASSUME job[v] \in Jobs, Stepping(v) PROVE Stepping(v)'
      OBVIOUS
    <2>2. job[v].order \in Orders /\ job[v].entry.from \in Statuses
      BY <2>1 DEF Jobs, Entries, Stepping
    <2>3. order'[job[v].order] # NoOrder /\ job[v].entry.from # "none"
      BY <2>1, <2>2 DEF Stepping, Grown
    <2> DEFINE o == job[v].order
               f == job[v].entry.from
    <2>4. LoggedTo(o, f)' # {}
      <3>1. LoggedTo(o, f) # {} /\ o \in Orders /\ f \in Statuses
        BY <2>1, <2>2 DEF Stepping
      <3>2. \A p \in Orders, s \in Statuses : LoggedTo(p, s) # {} => LoggedTo(p, s)' # {}
        BY DEF Grown
      <3>3. QED
        BY <3>1, <3>2 DEF LoggedTo, SameRequest
    <2>5. QED
      BY <2>3, <2>4 DEF Stepping, SameRequest
  <1>3. CASE pc[v] = "written"
    <2>1. /\ job[v] \in Jobs /\ (Creating(v) \/ Updating(v)) /\ Deducting(v)
          /\ order'[job[v].order] = order[job[v].order]
      BY <1>3 DEF RequestOK
    <2>2. Creating(v) => Creating(v)'
      BY <2>1 DEF Creating, SameRequest
    <2>3. Updating(v) => Updating(v)'
      BY <1>2, <2>1 DEF Updating, SameRequest
    <2>4. Deducting(v)'
      BY <2>1 DEF Deducting, UsesOf, SameRequest
    <2>5. QED
      BY <1>3, <2>1, <2>2, <2>3, <2>4 DEF RequestOK, SameRequest
  <1>4. CASE pc[v] = "read"
    BY <1>1, <1>2, <1>4 DEF RequestOK, SameRequest
  <1>5. CASE pc[v] \in {"idle", "failed"}
    BY <1>1, <1>5 DEF RequestOK, SameRequest
  <1>6. QED
    BY <1>3, <1>4, <1>5 DEF TypeOK

\* A step of request u alone that writes nothing to the tables.
Alone(u) ==
    /\ order' = order /\ log' = log /\ stock' = stock /\ moves' = moves
    /\ \A v \in Users \ {u} : SameRequest(v)

\* A step of one request that leaves the tables alone keeps the invariant if it
\* keeps that of the request.
LEMMA InvKept ==
    ASSUME Inv, TypeOK', NEW u \in Users, Alone(u), RequestOK(u)',
           pc'[u] = "written" =>
              \A v \in Users \ {u} : pc[v] = "written" => job'[u].order # job[v].order
    PROVE  Inv'
  <1>1. order' = order /\ log' = log /\ stock' = stock /\ moves' = moves
    BY DEF Alone
  <1>2. \A o \in Orders, s \in Statuses : LoggedTo(o, s)' = LoggedTo(o, s)
    BY <1>1 DEF LoggedTo
  <1>3. Grown
    BY <1>1, <1>2 DEF Grown
  <1>4. \A v \in Users : RequestOK(v)'
    <2>1. ASSUME NEW v \in Users \ {u} PROVE RequestOK(v)'
      BY <1>1, <1>3, RequestKept DEF Inv, Alone
    <2>2. QED
      BY <2>1
  <1>5. WritersApart'
    BY DEF WritersApart, Inv, Alone, SameRequest
  <1>6. HistoryExplainsOrder'
    BY <1>1 DEF Inv, HistoryExplainsOrder, LoggedTo
  <1>7. StepsFromHistory'
    BY <1>1 DEF Inv, StepsFromHistory
  <1>8. MovesMatch'
    BY <1>1 DEF Inv, MovesMatch, UsesOf, LoggedTo
  <1>9. StockMatches'
    BY <1>1 DEF Inv, StockMatches, Taken
  <1>10. QED
    BY <1>4, <1>5, <1>6, <1>7, <1>8, <1>9 DEF Inv

-----------------------------------------------------------------------------
(***************************************************************************)
(* The steps before the end of a request.                                  *)
(***************************************************************************)
\* A request begins without deductions.
LEMMA NothingTyped == Nothing \in [Supplies -> Nat]
  BY DEF Nothing

LEMMA InsertOrderKeeps ==
    ASSUME Inv, NEW u \in Users, NEW o \in Orders, NEW t \in Transactions \cup {NoTransaction},
           InsertOrder(u, o, t)
    PROVE  Inv'
  <1> DEFINE e == [from |-> "none", to |-> "received"]
             j == [order |-> o, entry |-> e]
  <1>1. /\ pc[u] = "idle" /\ pc'[u] = "written" /\ order[o] = NoOrder
        /\ job'[u] = j /\ work'[u] = NewRow(t)
        /\ todo'[u] = todo[u] /\ taken'[u] = taken[u]
    BY DEF Inv, TypeOK, InsertOrder
  <1>2. todo[u] = <<>> /\ taken[u] = Nothing
    BY <1>1 DEF Inv, RequestOK, WrittenNothing
  <1>3. j \in Jobs /\ j.order = o /\ j.entry = e /\ e.to = "received"
    BY DEF Jobs, Entries, Statuses
  <1>4. NewRow(t) \in Rows /\ NewRow(t).tx = t
    BY DEF NewRow, Rows, Statuses
  <1>5. TypeOK'
    <2>1. job' \in [Users -> Jobs \cup {NoJob}]
      <3> HIDE DEF j
      <3>1. QED BY <1>1, <1>3 DEF Inv, TypeOK, InsertOrder, j
    <2>2. work' \in [Users -> Rows \cup {NoOrder}]
      BY <1>4 DEF Inv, TypeOK, InsertOrder
    <2>3. QED
      BY <2>1, <2>2 DEF Inv, TypeOK, InsertOrder, tables
  <1>6. Alone(u)
    BY DEF Inv, TypeOK, InsertOrder, Alone, SameRequest, tables
  <1> HIDE DEF e, j
  <1>7. Creating(u)'
    BY <1>1, <1>3, <1>4, <1>6 DEF Creating, Alone, e
  <1>8. Deducting(u)'
    BY <1>1, <1>2, <1>3, TimesEmpty DEF Deducting, Nothing
  <1>9. RequestOK(u)'
    BY <1>1, <1>3, <1>7, <1>8 DEF RequestOK
  <1>10. \A v \in Users \ {u} : pc[v] = "written" => job'[u].order # job[v].order
    <2>1. SUFFICES ASSUME NEW v \in Users \ {u}, pc[v] = "written" PROVE job[v].order # o
      BY <1>1, <1>3
    <2>2. job[v] \in Jobs
      BY <2>1 DEF Inv, RequestOK
    <2>3. job[v] # NoJob
      BY <2>2 DEF Jobs, NoJob
    <2>4. QED
      BY <2>3 DEF InsertOrder
  <1>11. QED
    BY <1>5, <1>6, <1>9, <1>10, InvKept

\* The status of an order that exists is one that its history has led to.
LEMMA StatusLogged ==
    ASSUME Inv, NEW o \in Orders, order[o] # NoOrder
    PROVE  /\ order[o] \in Rows /\ order[o].status \in Statuses /\ order[o].status # "none"
           /\ LoggedTo(o, order[o].status) # {}
  <1>1. order[o] \in Rows
    BY DEF Inv, TypeOK
  <1>2. order[o].status \in Statuses
    BY <1>1 DEF Rows
  <1>3. Len(log[o]) \in Nat /\ log[o] # <<>> /\ order[o].status = log[o][Len(log[o])].to
    BY DEF Inv, TypeOK, HistoryExplainsOrder
  <1>4. Len(log[o]) \in 1 .. Len(log[o])
    BY <1>3 DEF Inv, TypeOK
  <1>5. QED
    BY <1>1, <1>2, <1>3, <1>4 DEF LoggedTo, Statuses

LEMMA ReadOrderKeeps ==
    ASSUME Inv, NEW u \in Users, NEW o \in Orders, NEW s \in Statuses, ReadOrder(u, o, s)
    PROVE  Inv'
  <1> DEFINE f == order[o].status
             e == [from |-> f, to |-> s]
             j == [order |-> o, entry |-> e]
  <1>1. /\ pc[u] = "idle" /\ pc'[u] = "read" /\ order[o] # NoOrder /\ job'[u] = j
        /\ work'[u] = work[u] /\ todo'[u] = todo[u] /\ taken'[u] = taken[u]
    BY DEF Inv, TypeOK, ReadOrder
  <1>2. f \in Statuses /\ f # "none" /\ LoggedTo(o, f) # {}
    BY <1>1, StatusLogged
  <1>3. j \in Jobs /\ j.order = o /\ j.entry.from = f
    <2> HIDE DEF f
    <2>1. QED BY <1>2 DEF Jobs, Entries
  <1>4. TypeOK'
    <2>1. job' \in [Users -> Jobs \cup {NoJob}]
      <3> HIDE DEF j
      <3>1. QED BY <1>1, <1>3 DEF Inv, TypeOK, ReadOrder, j
    <2>2. QED
      BY <2>1 DEF Inv, TypeOK, ReadOrder, tables
  <1>5. Alone(u)
    BY DEF Inv, TypeOK, ReadOrder, Alone, SameRequest, tables
  <1>6. Stepping(u)'
    <2>1. job'[u].order = o /\ job'[u].entry.from = f
      <3> HIDE DEF j, f
      <3>1. QED BY <1>1, <1>3
    <2>2. order' = order /\ log' = log
      BY <1>5 DEF Alone
    <2> HIDE DEF f
    <2>3. QED
      BY <1>1, <1>2, <2>1, <2>2 DEF Stepping, LoggedTo
  <1>7. WrittenNothing(u)'
    BY <1>1 DEF Inv, RequestOK, WrittenNothing
  <1>8. RequestOK(u)'
    <2> HIDE DEF j
    <2>1. QED BY <1>1, <1>3, <1>6, <1>7 DEF RequestOK
  <1>9. QED
    BY <1>1, <1>4, <1>5, <1>8, InvKept

\* An updated row is a row.
LEMMA UpdatedTyped ==
    ASSUME NEW row \in Rows, NEW s \in Statuses
    PROVE  LET new == UpdatedRow(row, s)
           IN  /\ new \in Rows /\ new.tx = row.tx /\ new.status = s
               /\ new.completed = (row.completed \/ s = "done")
               /\ new.pickedUp = (row.pickedUp \/ s = "picked_up")
  BY DEF UpdatedRow, Rows

LEMMA WriteStatusKeeps ==
    ASSUME Inv, NEW u \in Users, WriteStatus(u)
    PROVE  Inv'
  <1> DEFINE o == job[u].order
             s == job[u].entry.to
             row == order[o]
             d == IF s = "done" /\ row.tx # NoTransaction THEN Recipe[row.tx] ELSE <<>>
  <1>1. /\ pc[u] = "read" /\ pc'[u] = "written" /\ job'[u] = job[u]
        /\ job[u] \in Jobs /\ Stepping(u) /\ WrittenNothing(u)
    BY DEF Inv, TypeOK, WriteStatus, RequestOK
  <1>2. /\ work'[u] = UpdatedRow(row, s) /\ todo'[u] = d /\ taken'[u] = taken[u]
    BY DEF Inv, TypeOK, WriteStatus
  <1>3. o \in Orders /\ s \in Statuses \cup {"none"} /\ row # NoOrder
    BY <1>1 DEF Jobs, Entries, Stepping
  <1>4. s \in Statuses /\ row \in Rows
    BY <1>1, <1>3 DEF Inv, TypeOK, Jobs, Entries
  <1>5. UpdatedRow(row, s) \in Rows
    <2> HIDE DEF row, s
    <2>1. QED BY <1>4, UpdatedTyped
  <1>6. d \in Seq(Supplies)
    <2>1. row.tx \in Transactions \cup {NoTransaction}
      BY <1>4 DEF Rows
    <2>2. row.tx # NoTransaction => Recipe[row.tx] \in Seq(Supplies)
      BY <2>1, RecipeAssumption
    <2> HIDE DEF row, s
    <2>3. QED BY <2>2
  <1>7. TypeOK'
    <2>1. work' \in [Users -> Rows \cup {NoOrder}]
      BY <1>5 DEF Inv, TypeOK, WriteStatus
    <2>2. todo' = [todo EXCEPT ![u] = d]
      BY DEF WriteStatus
    <2>3. todo' \in [Users -> Seq(Supplies)]
      <3> HIDE DEF d
      <3>1. QED BY <1>6, <2>2 DEF Inv, TypeOK
    <2>4. QED
      BY <2>1, <2>3 DEF Inv, TypeOK, WriteStatus, tables
  <1>8. Alone(u)
    BY DEF Inv, TypeOK, WriteStatus, Alone, SameRequest, tables
  <1>9. Stepping(u)'
    BY <1>1, <1>8 DEF Stepping, Alone, LoggedTo
  <1>10. Updating(u)'
    BY <1>1, <1>2, <1>8, <1>9 DEF Updating, Alone
  <1>11. Deducting(u)'
    <2>1. SUFFICES ASSUME NEW x \in Supplies
                   PROVE  taken'[u][x] + Times(todo'[u], x) =
                             IF s = "done" THEN UsesOf(o, x)' ELSE 0
      BY <1>1 DEF Deducting
    <2>2. UsesOf(o, x)' = UsesOf(o, x)
      BY <1>1, <1>8 DEF UsesOf, Alone
    <2>3. taken'[u][x] = 0
      BY <1>1, <1>2 DEF WrittenNothing, Nothing
    <2>4. UsesOf(o, x) = IF row.tx = NoTransaction THEN 0 ELSE Times(Recipe[row.tx], x)
      BY <1>3 DEF UsesOf, Times
    <2>5. Times(d, x) = IF s = "done" THEN UsesOf(o, x) ELSE 0
      <3> HIDE DEF row, s, o
      <3>1. QED BY <2>4, TimesEmpty
    <2>6. Times(d, x) \in Nat
      BY <1>6, TimesNat
    <2> HIDE DEF d, s, o
    <2>7. QED
      BY <1>2, <2>2, <2>3, <2>5, <2>6
  <1>12. RequestOK(u)'
    BY <1>1, <1>10, <1>11 DEF RequestOK
  <1>13. \A v \in Users \ {u} : pc[v] = "written" => job'[u].order # job[v].order
    BY <1>1 DEF WriteStatus, LocksOrder
  <1>14. QED
    BY <1>7, <1>8, <1>12, <1>13, InvKept

LEMMA DeductKeeps ==
    ASSUME Inv, NEW u \in Users, Deduct(u)
    PROVE  Inv'
  <1> DEFINE x == Head(todo[u])
             n == taken[u][x]
             k == taken[u]
  <1>1. /\ pc[u] = "written" /\ pc'[u] = "written" /\ todo[u] # <<>>
        /\ job'[u] = job[u] /\ work'[u] = work[u]
        /\ todo'[u] = Tail(todo[u]) /\ todo[u] \in Seq(Supplies)
    BY DEF Inv, TypeOK, Deduct, HasDeduction
  <1>2. x \in Supplies /\ Tail(todo[u]) \in Seq(Supplies)
    BY <1>1, HeadTailProperties
  <1>3. k \in [Supplies -> Nat] /\ n \in Nat
    BY <1>2 DEF Inv, TypeOK
  <1>4. taken'[u] = [k EXCEPT ![x] = n + 1]
    BY DEF Inv, TypeOK, Deduct
  <1>5. taken'[u] \in [Supplies -> Nat]
    <2>1. n + 1 \in Nat
      BY <1>3
    <2>2. taken'[u] = [k EXCEPT ![x] = n + 1] /\ k \in [Supplies -> Nat]
      BY <1>3, <1>4
    <2> DEFINE m == n + 1
    <2> HIDE DEF x, k, m
    <2>3. QED BY <2>1, <2>2 DEF m
  <1>6. TypeOK'
    <2>1. taken' \in [Users -> [Supplies -> Nat]]
      BY <1>5 DEF Inv, TypeOK, Deduct
    <2>2. todo' \in [Users -> Seq(Supplies)]
      BY <1>2 DEF Inv, TypeOK, Deduct
    <2>3. QED
      BY <2>1, <2>2 DEF Inv, TypeOK, Deduct, tables
  <1>7. Alone(u)
    BY DEF Inv, TypeOK, Deduct, Alone, SameRequest, tables
  <1>8. job[u] \in Jobs /\ (Creating(u) \/ Updating(u)) /\ Deducting(u)
    BY <1>1 DEF Inv, RequestOK
  <1>9. Creating(u)' \/ Updating(u)'
    BY <1>1, <1>7, <1>8 DEF Creating, Updating, Stepping, Alone, LoggedTo
  <1>10. Deducting(u)'
    <2>1. SUFFICES ASSUME NEW s \in Supplies
                   PROVE  taken'[u][s] + Times(todo'[u], s) =
                             IF job[u].entry.to = "done" THEN UsesOf(job[u].order, s) ELSE 0
      BY <1>1, <1>7 DEF Deducting, UsesOf, Alone
    <2>2. taken[u][s] + Times(todo[u], s) =
             IF job[u].entry.to = "done" THEN UsesOf(job[u].order, s) ELSE 0
      BY <1>8 DEF Deducting
    <2>3. /\ Times(todo[u], s) = Times(Tail(todo[u]), s) + (IF x = s THEN 1 ELSE 0)
          /\ Times(Tail(todo[u]), s) \in Nat
      BY <1>1, <1>2, TimesTail, TimesNat
    <2>4. taken'[u][s] = (IF x = s THEN k[s] + 1 ELSE k[s]) /\ k[s] \in Nat
      <3>1. n = k[x]
        OBVIOUS
      <3> HIDE DEF x, n, k
      <3>2. QED BY <1>2, <1>3, <1>4, <3>1
    <2>5. taken'[u][s] + Times(Tail(todo[u]), s) = k[s] + Times(todo[u], s)
      <3> HIDE DEF x, k
      <3>1. QED BY <2>3, <2>4
    <2>6. QED
      BY <1>1, <2>2, <2>5
  <1>11. RequestOK(u)'
    BY <1>1, <1>8, <1>9, <1>10 DEF RequestOK
  <1>12. \A v \in Users \ {u} : pc[v] = "written" => job'[u].order # job[v].order
    BY <1>1 DEF Inv, WritersApart
  <1>13. QED
    BY <1>6, <1>7, <1>11, <1>12, InvKept

\* What is rolled back, or was never written, leaves the invariant alone.
LEMMA RollBackKeeps ==
    ASSUME Inv, NEW u \in Users, UNCHANGED tables,
           \/ RollBack(u)
           \/ UNCHANGED session /\ pc[u] = "failed",
           NEW p \in {"idle", "failed"}, pc' = [pc EXCEPT ![u] = p]
    PROVE  Inv'
  <1>1. /\ work' = [work EXCEPT ![u] = NoOrder]
        /\ todo' = [todo EXCEPT ![u] = <<>>]
        /\ taken' = [taken EXCEPT ![u] = Nothing]
        /\ job' = [job EXCEPT ![u] = NoJob]
    <2>1. CASE RollBack(u)
      BY <2>1 DEF RollBack
    <2>2. CASE UNCHANGED session /\ pc[u] = "failed"
      <3>1. job[u] = NoJob /\ work[u] = NoOrder /\ todo[u] = <<>> /\ taken[u] = Nothing
        BY <2>2 DEF Inv, RequestOK, WrittenNothing
      <3>2. QED
        BY <2>2, <3>1 DEF session, Inv, TypeOK
    <2>3. QED
      BY <2>1, <2>2
  <1>2. TypeOK'
    BY <1>1, NothingTyped DEF Inv, TypeOK, tables
  <1>3. Alone(u)
    BY <1>1 DEF Inv, TypeOK, Alone, SameRequest, tables
  <1>4. RequestOK(u)' /\ pc'[u] # "written"
    BY <1>1 DEF Inv, TypeOK, RequestOK, WrittenNothing
  <1>5. QED
    BY <1>2, <1>3, <1>4, InvKept

-----------------------------------------------------------------------------
(***************************************************************************)
(* The commit.                                                             *)
(***************************************************************************)
\* What the commit does to the order, its history and the stock.
LEMMA CommitDoes ==
    ASSUME Inv, NEW u \in Users, Commit(u)
    PROVE  LET o == job[u].order
               e == job[u].entry
           IN  /\ o \in Orders /\ e \in Entries /\ work[u] \in Rows
               /\ order'[o] = work[u] /\ log'[o] = Append(log[o], e)
               /\ \A p \in Orders \ {o} : /\ order'[p] = order[p] /\ log'[p] = log[p]
                                         /\ moves'[p] = moves[p]
               /\ \A s \in Supplies : /\ moves'[o][s] = moves[o][s] + taken[u][s]
                                      /\ stock'[s] = stock[s] - taken[u][s]
                                      /\ taken[u][s] \in Nat /\ moves[o][s] \in Nat
                                      /\ stock[s] \in Int
               /\ TypeOK'
  <1> DEFINE o == job[u].order
             e == job[u].entry
             k == taken[u]
             m == moves[o]
  <1>1. /\ pc[u] = "written" /\ job[u] \in Jobs /\ (Creating(u) \/ Updating(u))
    BY DEF Commit, Inv, RequestOK
  <1>2. o \in Orders /\ e \in Entries
    BY <1>1 DEF Commit, Inv, RequestOK, Jobs
  <1>3. work[u] \in Rows
    <2>1. work[u] # NoOrder
      <3>1. Creating(u) => work[u] # NoOrder
        <4>1. Creating(u) => work[u].status = "received"
          BY DEF Creating, NewRow
        <4>2. QED
          BY <4>1 DEF NoOrder
      <3>2. Updating(u) => work[u] # NoOrder
        <4>1. SUFFICES ASSUME Updating(u) PROVE work[u] # NoOrder
          OBVIOUS
        <4>2. order[o] \in Rows /\ job[u].entry.to \in Statuses
          BY <1>1, <1>2, <4>1 DEF Updating, Stepping, Inv, TypeOK, Jobs, Entries
        <4>3. UpdatedRow(order[o], job[u].entry.to) \in Rows
          BY <4>2, UpdatedTyped
        <4>4. work[u] \in Rows
          BY <4>1, <4>3 DEF Updating
        <4>5. QED
          BY <4>4 DEF Rows, NoOrder, Statuses
      <3>3. QED
        BY <1>1, <3>1, <3>2
    <2>2. QED
      BY <2>1 DEF Inv, TypeOK
  <1>4. k \in [Supplies -> Nat] /\ m \in [Supplies -> Nat] /\ stock \in [Supplies -> Int]
    BY <1>2 DEF Inv, TypeOK
  <1>5. /\ order' = [order EXCEPT ![o] = work[u]]
        /\ log' = [log EXCEPT ![o] = Append(log[o], e)]
        /\ stock' = [s \in Supplies |-> stock[s] - k[s]]
        /\ moves' = [moves EXCEPT ![o] = [s \in Supplies |-> m[s] + k[s]]]
    BY DEF Commit
  <1>6. Append(log[o], e) \in Seq(Entries)
    BY <1>2 DEF Inv, TypeOK
  <1>7. [s \in Supplies |-> m[s] + k[s]] \in [Supplies -> Nat]
    <2> HIDE DEF m, k
    <2>1. QED BY <1>4
  <1>8. stock' \in [Supplies -> Int]
    <2> HIDE DEF k
    <2>1. QED BY <1>4, <1>5
  <1>9. TypeOK'
    <2>1. order' \in [Orders -> Rows \cup {NoOrder}]
      BY <1>3, <1>5 DEF Inv, TypeOK
    <2>2. log' \in [Orders -> Seq(Entries)]
      BY <1>5, <1>6 DEF Inv, TypeOK
    <2>3. moves' \in [Orders -> [Supplies -> Nat]]
      <3> DEFINE M == [s \in Supplies |-> m[s] + k[s]]
      <3>1. moves' = [moves EXCEPT ![o] = M] /\ M \in [Supplies -> Nat]
        BY <1>5, <1>7
      <3> HIDE DEF M, o
      <3>2. QED BY <3>1 DEF Inv, TypeOK
    <2>4. /\ pc' \in [Users -> {"idle", "read", "written", "failed"}]
          /\ job' \in [Users -> Jobs \cup {NoJob}]
          /\ work' \in [Users -> Rows \cup {NoOrder}]
          /\ todo' \in [Users -> Seq(Supplies)]
          /\ taken' \in [Users -> [Supplies -> Nat]]
      BY NothingTyped DEF Commit, RollBack, Inv, TypeOK
    <2>5. QED
      BY <1>8, <2>1, <2>2, <2>3, <2>4 DEF TypeOK
  <1>10. /\ order'[o] = work[u] /\ log'[o] = Append(log[o], e)
         /\ \A p \in Orders \ {o} : /\ order'[p] = order[p] /\ log'[p] = log[p]
                                   /\ moves'[p] = moves[p]
    BY <1>2, <1>5 DEF Inv, TypeOK
  <1>11. ASSUME NEW s \in Supplies
         PROVE  /\ moves'[o][s] = m[s] + k[s] /\ stock'[s] = stock[s] - k[s]
                /\ k[s] \in Nat /\ m[s] \in Nat /\ stock[s] \in Int
    <2>1. moves'[o] = [x \in Supplies |-> m[x] + k[x]]
      BY <1>2, <1>5 DEF Inv, TypeOK
    <2> HIDE DEF m, k, o
    <2>2. QED BY <1>4, <1>5, <2>1
  <1>12. QED
    BY <1>2, <1>3, <1>9, <1>10, <1>11

\* The step is logged, and what had been logged stays.
LEMMA LogGrows ==
    ASSUME Inv, NEW u \in Users, Commit(u), NEW o \in Orders, job[u].order = o, NEW s
    PROVE  LET n == Len(log[o]) + 1
           IN  /\ LoggedTo(o, s)' = IF job[u].entry.to = s THEN LoggedTo(o, s) \cup {n}
                                                           ELSE LoggedTo(o, s)
               /\ n \notin LoggedTo(o, s)
               /\ \A p \in Orders \ {o} : LoggedTo(p, s)' = LoggedTo(p, s)
  <1> DEFINE e == job[u].entry
             q == log[o]
             n == Len(q) + 1
  <1>1. e \in Entries /\ log'[o] = Append(q, e)
    BY CommitDoes
  <1>2. q \in Seq(Entries) /\ Len(q) \in Nat
    BY <1>1 DEF Inv, TypeOK
  <1>3. /\ Len(log'[o]) = n /\ log'[o][n] = e
        /\ \A i \in 1 .. Len(q) : log'[o][i] = q[i]
    <2> HIDE DEF q, e
    <2>1. QED BY <1>1, <1>2 DEF n
  <1>4. {i \in 1 .. Len(log'[o]) : log'[o][i].to = s} =
            IF e.to = s THEN {i \in 1 .. Len(q) : q[i].to = s} \cup {n}
                        ELSE {i \in 1 .. Len(q) : q[i].to = s}
    <2> HIDE DEF q, e
    <2>1. QED BY <1>2, <1>3 DEF n
  <1>5. n \notin LoggedTo(o, s)
    BY <1>2 DEF LoggedTo
  <1>6. \A p \in Orders \ {o} : LoggedTo(p, s)' = LoggedTo(p, s)
    BY CommitDoes DEF LoggedTo
  <1>7. QED
    BY <1>4, <1>5, <1>6 DEF LoggedTo

\* The history explains the row after the commit as it did before.
LEMMA CommitHistory ==
    ASSUME Inv, NEW u \in Users, Commit(u)
    PROVE  HistoryExplainsOrder' /\ StepsFromHistory'
  <1> DEFINE e == job[u].entry
  <1>0. PICK o \in Orders : job[u].order = o
    BY CommitDoes
  <1> DEFINE q == log[o]
             n == Len(q) + 1
             row == work[u]
  <1>1. /\ e \in Entries /\ row \in Rows /\ order'[o] = row /\ log'[o] = Append(q, e)
        /\ \A p \in Orders \ {o} : order'[p] = order[p] /\ log'[p] = log[p]
    BY <1>0, CommitDoes
  <1>2. q \in Seq(Entries) /\ Len(q) \in Nat
    BY DEF Inv, TypeOK
  <1>3. /\ Len(log'[o]) = n /\ log'[o][n] = e /\ log'[o] # <<>>
        /\ \A i \in 1 .. Len(q) : log'[o][i] = q[i]
    <2> HIDE DEF q, e
    <2>1. QED BY <1>1, <1>2 DEF n
  <1>4. Creating(u) \/ Updating(u)
    BY DEF Commit, Inv, RequestOK
  <1>5. row # NoOrder /\ row.status = e.to
    <2>1. CASE Creating(u)
      <3>1. row.status = "received" /\ e.to = "received"
        BY <2>1 DEF Creating, NewRow
      <3> HIDE DEF row, e
      <3>2. QED
        BY <3>1 DEF NoOrder
    <2>2. CASE Updating(u)
      <3>1. order[o] \in Rows /\ e.to \in Statuses
        BY <1>0, <2>2 DEF Updating, Stepping, Inv, TypeOK, Commit, RequestOK, Jobs, Entries
      <3>2. row = UpdatedRow(order[o], e.to)
        BY <1>0, <2>2 DEF Updating
      <3> DEFINE old == order[o]
                 to == e.to
      <3>3. row.status = to
        <4>1. old \in Rows /\ to \in Statuses /\ row = UpdatedRow(old, to)
          BY <3>1, <3>2
        <4> HIDE DEF old, to, row
        <4>2. QED BY <4>1, UpdatedTyped
      <3>4. to # "none"
        BY <3>1 DEF Statuses
      <3> HIDE DEF row
      <3>5. QED
        BY <3>3, <3>4 DEF NoOrder
    <2>3. QED
      BY <1>4, <2>1, <2>2
  <1>6. CASE Creating(u)
    <2>1. q = <<>> /\ e.from = "none" /\ e.to = "received" /\ row = NewRow(row.tx)
      BY <1>0, <1>6 DEF Creating, Inv, HistoryExplainsOrder
    <2>2. n = 1 /\ \A s : LoggedTo(o, s) = {}
      BY <2>1 DEF LoggedTo
    <2>3. \A i \in 1 .. Len(log'[o]) : log'[o][i].from = "none" <=> i = 1
      <3> HIDE DEF e
      <3>1. QED BY <1>3, <2>1, <2>2
    <2>4. LoggedTo(o, "done")' = {} /\ LoggedTo(o, "picked_up")' = {}
      BY <1>0, <2>1, <2>2, LogGrows
    <2>5. row.completed = FALSE /\ row.pickedUp = FALSE
      BY <2>1 DEF NewRow
    <2>6. /\ log'[o] # <<>>
          /\ \A i \in 1 .. Len(log'[o]) : log'[o][i].from = "none" <=> i = 1
          /\ order'[o].status = log'[o][Len(log'[o])].to
          /\ order'[o].completed <=> LoggedTo(o, "done")' # {}
          /\ order'[o].pickedUp <=> LoggedTo(o, "picked_up")' # {}
      BY <1>1, <1>3, <1>5, <2>3, <2>4, <2>5
    <2>7. \A i \in 2 .. Len(log'[o]) :
             \E m \in 1 .. i - 1 : log'[o][m].to = log'[o][i].from
      BY <1>3, <2>2
    <2>8. QED
      <3>1. HistoryExplainsOrder'
        <4>1. SUFFICES ASSUME NEW p \in Orders
              PROVE IF order'[p] = NoOrder THEN log'[p] = <<>>
                    ELSE /\ log'[p] # <<>>
                         /\ \A i \in 1 .. Len(log'[p]) : log'[p][i].from = "none" <=> i = 1
                         /\ order'[p].status = log'[p][Len(log'[p])].to
                         /\ order'[p].completed <=> LoggedTo(p, "done")' # {}
                         /\ order'[p].pickedUp <=> LoggedTo(p, "picked_up")' # {}
          BY DEF HistoryExplainsOrder
        <4>2. CASE p = o
          BY <1>1, <1>5, <2>6, <4>2
        <4>3. CASE p # o
          BY <1>1, <4>3 DEF Inv, HistoryExplainsOrder, LoggedTo
        <4>4. QED
          BY <4>2, <4>3
      <3>2. StepsFromHistory'
        <4>1. SUFFICES ASSUME NEW p \in Orders
                       PROVE  \A i \in 2 .. Len(log'[p]) :
                                 \E m \in 1 .. i - 1 : log'[p][m].to = log'[p][i].from
          BY DEF StepsFromHistory
        <4>2. CASE p = o
          BY <2>7, <4>2
        <4>3. CASE p # o
          BY <1>1, <4>3 DEF Inv, StepsFromHistory
        <4>4. QED
          BY <4>2, <4>3
      <3>3. QED
        BY <3>1, <3>2
  <1>7. CASE Updating(u)
    <2> DEFINE old == order[o]
    <2>1. /\ old # NoOrder /\ e.from # "none" /\ LoggedTo(o, e.from) # {}
          /\ row = UpdatedRow(old, e.to)
      BY <1>0, <1>7 DEF Updating, Stepping
    <2>2. old \in Rows /\ e.to \in Statuses
      BY <1>0, <2>1 DEF Inv, TypeOK, Commit, RequestOK, Jobs, Entries
    <2>3. /\ row.completed = (old.completed \/ e.to = "done")
          /\ row.pickedUp = (old.pickedUp \/ e.to = "picked_up")
      BY <2>1, <2>2, UpdatedTyped
    <2>4. /\ q # <<>> /\ \A i \in 1 .. Len(q) : q[i].from = "none" <=> i = 1
          /\ old.completed <=> LoggedTo(o, "done") # {}
          /\ old.pickedUp <=> LoggedTo(o, "picked_up") # {}
      BY <2>1 DEF Inv, HistoryExplainsOrder
    <2>5. n > 1
      BY <1>2, <2>4
    <2>6. \A i \in 1 .. Len(log'[o]) : log'[o][i].from = "none" <=> i = 1
      <3> HIDE DEF e, q
      <3>1. QED BY <1>2, <1>3, <2>1, <2>4, <2>5 DEF n
    <2>7. row.completed <=> LoggedTo(o, "done")' # {}
      <3>1. LoggedTo(o, "done")' = IF e.to = "done" THEN LoggedTo(o, "done") \cup {n}
                                                  ELSE LoggedTo(o, "done")
        BY <1>0, LogGrows
      <3> HIDE DEF e, row, old, n
      <3>2. QED BY <2>3, <2>4, <3>1
    <2>8. row.pickedUp <=> LoggedTo(o, "picked_up")' # {}
      <3>1. LoggedTo(o, "picked_up")' = IF e.to = "picked_up"
                                        THEN LoggedTo(o, "picked_up") \cup {n}
                                        ELSE LoggedTo(o, "picked_up")
        BY <1>0, LogGrows
      <3> HIDE DEF e, row, old, n
      <3>2. QED BY <2>3, <2>4, <3>1
    <2>9. HistoryExplainsOrder'
      <3>1. SUFFICES ASSUME NEW p \in Orders
            PROVE IF order'[p] = NoOrder THEN log'[p] = <<>>
                  ELSE /\ log'[p] # <<>>
                       /\ \A i \in 1 .. Len(log'[p]) : log'[p][i].from = "none" <=> i = 1
                       /\ order'[p].status = log'[p][Len(log'[p])].to
                       /\ order'[p].completed <=> LoggedTo(p, "done")' # {}
                       /\ order'[p].pickedUp <=> LoggedTo(p, "picked_up")' # {}
        BY DEF HistoryExplainsOrder
      <3>2. CASE p = o
        <4> HIDE DEF e, row
        <4>1. QED BY <1>1, <1>3, <1>5, <2>6, <2>7, <2>8, <3>2
      <3>3. CASE p # o
        BY <1>1, <3>3 DEF Inv, HistoryExplainsOrder, LoggedTo
      <3>4. QED
        BY <3>2, <3>3
    <2>10. \A i \in 2 .. Len(log'[o]) :
              \E m \in 1 .. i - 1 : log'[o][m].to = log'[o][i].from
      <3>1. PICK k \in 1 .. Len(q) : q[k].to = e.from
        BY <2>1 DEF LoggedTo
      <3>2. \A i \in 2 .. Len(q) : \E m \in 1 .. i - 1 : q[m].to = q[i].from
        BY DEF Inv, StepsFromHistory
      <3> HIDE DEF e, q
      <3>3. SUFFICES ASSUME NEW i \in 2 .. Len(log'[o])
                     PROVE  \E m \in 1 .. i - 1 : log'[o][m].to = log'[o][i].from
        OBVIOUS
      <3>4. CASE i = n
        BY <1>2, <1>3, <3>1, <3>4 DEF n
      <3>5. CASE i # n
        <4>1. i \in 2 .. Len(q)
          BY <1>2, <1>3, <3>5 DEF n
        <4>2. PICK m \in 1 .. i - 1 : q[m].to = q[i].from
          BY <3>2, <4>1
        <4>3. m \in 1 .. Len(q)
          BY <1>2, <4>1, <4>2
        <4>4. QED
          BY <1>3, <4>1, <4>2, <4>3
      <3>6. QED
        BY <3>4, <3>5
    <2>11. StepsFromHistory'
      <3>1. SUFFICES ASSUME NEW p \in Orders
                     PROVE  \A i \in 2 .. Len(log'[p]) :
                               \E m \in 1 .. i - 1 : log'[p][m].to = log'[p][i].from
        BY DEF StepsFromHistory
      <3>2. CASE p = o
        BY <2>10, <3>2
      <3>3. CASE p # o
        BY <1>1, <3>3 DEF Inv, StepsFromHistory
      <3>4. QED
        BY <3>2, <3>3
    <2>12. QED
      BY <2>9, <2>11
  <1>8. QED
    BY <1>4, <1>6, <1>7

\* Once more is one time more.
LEMMA TimesSucc ==
    ASSUME NEW i \in Nat, NEW k \in Nat
    PROVE  (i + 1) * k = i * k + k /\ i * k \in Nat
  OBVIOUS

\* What the commit takes is what the step that it logs accounts for.
LEMMA CommitMoves ==
    ASSUME Inv, NEW u \in Users, Commit(u)
    PROVE  MovesMatch'
  <1>1. PICK o \in Orders : job[u].order = o
    BY CommitDoes
  <1> DEFINE e == job[u].entry
  <1>2. /\ TypeOK' /\ order'[o] = work[u]
        /\ \A p \in Orders \ {o} : order'[p] = order[p] /\ log'[p] = log[p]
                                   /\ moves'[p] = moves[p]
        /\ \A s \in Supplies : moves'[o][s] = moves[o][s] + taken[u][s]
                               /\ taken[u][s] \in Nat /\ moves[o][s] \in Nat
    BY <1>1, CommitDoes
  <1>3. /\ Creating(u) \/ Updating(u)
        /\ Deducting(u) /\ todo[u] = <<>>
    BY DEF Commit, Inv, RequestOK
  <1>4. \A s \in Supplies :
           taken[u][s] = IF e.to = "done" THEN UsesOf(o, s) ELSE 0
    <2>1. SUFFICES ASSUME NEW s \in Supplies
                   PROVE  taken[u][s] = IF e.to = "done" THEN UsesOf(o, s) ELSE 0
      OBVIOUS
    <2>2. taken[u][s] + Times(todo[u], s) = IF e.to = "done" THEN UsesOf(o, s) ELSE 0
      BY <1>1, <1>3 DEF Deducting
    <2>3. Times(todo[u], s) = 0 /\ taken[u][s] \in Nat
      BY <1>2, <1>3, TimesEmpty
    <2>4. QED
      BY <2>2, <2>3
  <1>5. SUFFICES ASSUME NEW p \in Orders, NEW s \in Supplies
                 PROVE  moves'[p][s] = Cardinality(LoggedTo(p, "done")') * UsesOf(p, s)'
    BY DEF MovesMatch
  <1>6. CASE p # o
    <2>1. LoggedTo(p, "done")' = LoggedTo(p, "done") /\ UsesOf(p, s)' = UsesOf(p, s)
      BY <1>2, <1>6 DEF LoggedTo, UsesOf
    <2>2. moves[p][s] = Cardinality(LoggedTo(p, "done")) * UsesOf(p, s)
      BY DEF Inv, MovesMatch
    <2>3. QED
      BY <1>2, <1>6, <2>1, <2>2
  <1>7. CASE p = o /\ Creating(u)
    <2>1. order[o] = NoOrder /\ e.to = "received"
      BY <1>1, <1>7 DEF Creating
    <2>2. LoggedTo(o, "done") = {}
      BY <2>1 DEF Inv, HistoryExplainsOrder, LoggedTo
    <2>3. LoggedTo(o, "done")' = {}
      <3>1. LoggedTo(o, "done")' = IF e.to = "done" THEN LoggedTo(o, "done") \cup {Len(log[o]) + 1}
                                                  ELSE LoggedTo(o, "done")
        BY <1>1, LogGrows
      <3>2. QED
        BY <2>1, <2>2, <3>1
    <2>4. taken[u][s] = 0
      BY <1>4, <2>1
    <2>5. moves[o][s] = Cardinality(LoggedTo(o, "done")) * UsesOf(o, s)
      BY DEF Inv, MovesMatch
    <2>6. UsesOf(o, s) = 0
      BY <2>1 DEF UsesOf
    <2>7. Cardinality(LoggedTo(o, "done")) = 0 /\ Cardinality(LoggedTo(o, "done")') = 0
      BY <2>2, <2>3, FS_EmptySet
    <2>8. moves'[o][s] = 0
      <3>1. moves[o][s] = 0
        <4> DEFINE c == Cardinality(LoggedTo(o, "done"))
                   k == UsesOf(o, s)
        <4>1. moves[o][s] = c * k /\ c = 0 /\ k = 0
          BY <2>5, <2>6, <2>7
        <4> HIDE DEF c, k
        <4>2. QED BY <4>1
      <3>2. QED
        BY <1>2, <2>4, <3>1
    <2>9. UsesOf(o, s)' \in Nat
      BY <1>2, UsesNat
    <2> DEFINE c == Cardinality(LoggedTo(o, "done")')
               k == UsesOf(o, s)'
    <2>10. c = 0 /\ k \in Nat /\ moves'[o][s] = 0
      BY <2>7, <2>8, <2>9
    <2>11. moves'[o][s] = c * k
      <3> HIDE DEF c, k
      <3>1. QED BY <2>10
    <2>12. QED
      BY <1>7, <2>11
  <1>8. CASE p = o /\ Updating(u)
    <2> DEFINE L == LoggedTo(o, "done")
               n == Len(log[o]) + 1
               k == UsesOf(o, s)
               c == Cardinality(L)
    <2>1. /\ order[o] # NoOrder /\ order[o] \in Rows /\ e.to \in Statuses
          /\ work[u] = UpdatedRow(order[o], e.to)
      BY <1>1, <1>8 DEF Updating, Stepping, Inv, TypeOK, Commit, RequestOK, Jobs, Entries
    <2>2. order'[o].tx = order[o].tx /\ order'[o] # NoOrder
      <3> DEFINE row == order[o]
                 to == e.to
      <3>1. row \in Rows /\ to \in Statuses /\ order'[o] = UpdatedRow(row, to)
        BY <1>2, <2>1
      <3> HIDE DEF row, to
      <3>2. UpdatedRow(row, to).tx = row.tx /\ UpdatedRow(row, to).status = to
        BY <3>1, UpdatedTyped
      <3>3. to # "none"
        BY <3>1 DEF Statuses
      <3>4. QED
        BY <3>1, <3>2, <3>3 DEF row, NoOrder
    <2>3. UsesOf(o, s)' = k
      BY <2>1, <2>2 DEF UsesOf
    <2>4. moves[o][s] = c * k
      BY DEF Inv, MovesMatch
    <2>5. IsFiniteSet(L) /\ c \in Nat /\ k \in Nat
      BY LoggedFinite, UsesNat DEF Inv
    <2>6. Cardinality(LoggedTo(o, "done")') = IF e.to = "done" THEN c + 1 ELSE c
      <3>1. /\ LoggedTo(o, "done")' = IF e.to = "done" THEN L \cup {n} ELSE L
            /\ n \notin L
        BY <1>1, LogGrows
      <3> HIDE DEF L, n, e
      <3>2. Cardinality(L \cup {n}) = Cardinality(L) + 1
        BY <2>5, <3>1, FS_AddElement
      <3>3. QED
        BY <3>1, <3>2
    <2>7. moves'[o][s] = IF e.to = "done" THEN c * k + k ELSE c * k
      <3>1. taken[u][s] = IF e.to = "done" THEN k ELSE 0
        BY <1>4
      <3>2. c * k \in Nat
        BY <2>4, <1>2
      <3> HIDE DEF c, k, e
      <3>3. QED BY <1>2, <2>4, <3>1, <3>2
    <2> HIDE DEF c, k, e, L
    <2>8. (c + 1) * k = c * k + k
      BY <2>5, TimesSucc
    <2>9. QED
      BY <1>8, <2>3, <2>6, <2>7, <2>8
  <1>9. QED
    BY <1>3, <1>6, <1>7, <1>8

\* The stock falls by what the movements of the order rise by.
LEMMA CommitStock ==
    ASSUME Inv, NEW u \in Users, Commit(u)
    PROVE  StockMatches'
  <1>1. PICK o \in Orders : job[u].order = o
    BY CommitDoes
  <1>2. /\ TypeOK'
        /\ \A p \in Orders \ {o} : moves'[p] = moves[p]
        /\ \A s \in Supplies : /\ moves'[o][s] = moves[o][s] + taken[u][s]
                               /\ stock'[s] = stock[s] - taken[u][s]
                               /\ taken[u][s] \in Nat /\ moves[o][s] \in Nat
                               /\ stock[s] \in Int
    BY <1>1, CommitDoes
  <1>3. SUFFICES ASSUME NEW s \in Supplies PROVE stock'[s] = -(Taken(s)')
    BY DEF StockMatches
  <1> DEFINE f == [p \in Orders |-> moves[p][s]]
             g == [p \in Orders |-> moves'[p][s]]
             k == taken[u][s]
  <1>4. stock[s] = -SumOver(f, Orders)
    BY DEF Inv, StockMatches, Taken
  <1>5. \A p \in Orders : f[p] \in Int /\ g[p] \in Int
    BY <1>2 DEF Inv, TypeOK
  <1>6. g[o] = f[o] + k /\ \A p \in Orders \ {o} : g[p] = f[p]
    BY <1>2
  <1>7. k \in Nat /\ stock'[s] = stock[s] - k
    BY <1>2
  <1>8. Taken(s)' = SumOver(g, Orders)
    BY DEF Taken
  <1> HIDE DEF f, g, k
  <1>9. SumOver(g, Orders) = SumOver(f, Orders) + g[o] - f[o]
    BY <1>5, <1>6, OrdersAssumption, SumChanges
  <1>10. SumOver(f, Orders) \in Int
    BY <1>5, OrdersAssumption, SumType
  <1>11. QED
    BY <1>4, <1>5, <1>6, <1>7, <1>8, <1>9, <1>10

LEMMA CommitKeeps ==
    ASSUME Inv, NEW u \in Users, Commit(u)
    PROVE  Inv'
  <1>1. PICK o \in Orders : job[u].order = o
    BY CommitDoes
  <1>2. /\ TypeOK' /\ order'[o] = work[u] /\ work[u] \in Rows
        /\ \A p \in Orders \ {o} : order'[p] = order[p] /\ log'[p] = log[p]
    BY <1>1, CommitDoes
  <1>3. \A v \in Users \ {u} : SameRequest(v)
    BY DEF Commit, RollBack, SameRequest, Inv, TypeOK
  <1>4. Grown
    <2>1. work[u] # NoOrder
      BY <1>2 DEF Rows, NoOrder, Statuses
    <2>2. \A s \in Statuses : LoggedTo(o, s) # {} => LoggedTo(o, s)' # {}
      <3>1. SUFFICES ASSUME NEW s \in Statuses, LoggedTo(o, s) # {}
                     PROVE  LoggedTo(o, s)' # {}
        OBVIOUS
      <3>2. LoggedTo(o, s)' = IF job[u].entry.to = s THEN LoggedTo(o, s) \cup {Len(log[o]) + 1}
                                                    ELSE LoggedTo(o, s)
        BY <1>1, LogGrows
      <3>3. QED
        BY <3>1, <3>2
    <2>3. \A p \in Orders \ {o}, s \in Statuses : LoggedTo(p, s)' = LoggedTo(p, s)
      BY <1>2 DEF LoggedTo
    <2>4. QED
      BY <1>2, <2>1, <2>2, <2>3 DEF Grown
  <1>5. \A v \in Users : RequestOK(v)'
    <2>1. ASSUME NEW v \in Users \ {u} PROVE RequestOK(v)'
      <3>1. ASSUME pc[v] = "written" PROVE order'[job[v].order] = order[job[v].order]
        <4>1. job[v].order # o
          BY <1>1, <3>1 DEF Inv, WritersApart, Commit
        <4>2. job[v].order \in Orders
          BY <3>1 DEF Inv, RequestOK, Jobs
        <4>3. QED
          BY <1>2, <4>1, <4>2
      <3>2. QED
        BY <1>3, <1>4, <3>1, RequestKept DEF Inv
    <2>2. RequestOK(u)'
      BY DEF Commit, RollBack, RequestOK, WrittenNothing, Inv, TypeOK
    <2>3. QED
      BY <2>1, <2>2
  <1>6. WritersApart'
    <2>1. pc'[u] = "idle"
      BY DEF Commit, Inv, TypeOK
    <2>2. QED
      BY <1>3, <2>1 DEF Inv, WritersApart, SameRequest
  <1>7. QED
    BY <1>2, <1>5, <1>6, CommitHistory, CommitMoves, CommitStock DEF Inv

\* No order, no request: nothing to account for.
LEMMA InitInv == Init => Inv
  <1> SUFFICES ASSUME Init PROVE Inv
    OBVIOUS
  <1>1. TypeOK
    BY NothingTyped DEF Init, TypeOK
  <1>2. \A u \in Users : RequestOK(u)
    BY DEF Init, RequestOK, WrittenNothing
  <1>3. WritersApart /\ HistoryExplainsOrder /\ StepsFromHistory
    BY DEF Init, WritersApart, HistoryExplainsOrder, StepsFromHistory
  <1>4. MovesMatch
    <2>1. \A o \in Orders, s \in Supplies : UsesOf(o, s) = 0 /\ LoggedTo(o, "done") = {}
      BY DEF Init, UsesOf, LoggedTo
    <2>2. \A o \in Orders, s \in Supplies : moves[o][s] = 0
      BY DEF Init, Nothing
    <2>3. QED
      BY <2>1, <2>2, FS_EmptySet DEF MovesMatch
  <1>5. StockMatches
    <2>1. SUFFICES ASSUME NEW s \in Supplies PROVE stock[s] = -Taken(s)
      BY DEF StockMatches
    <2>2. Taken(s) = 0
      <3> DEFINE f == [o \in Orders |-> moves[o][s]]
      <3>1. \A o \in Orders : f[o] = 0
        BY DEF Init, Nothing
      <3>2. SumOver(f, Orders) = 0
        <4> HIDE DEF f
        <4>1. QED BY <3>1, OrdersAssumption, SumZero
      <3>3. QED
        BY <3>2 DEF Taken
    <2>3. stock[s] = 0
      BY DEF Init
    <2>4. stock[s] \in Int /\ Taken(s) \in Int /\ stock[s] + Taken(s) = 0
      BY <2>2, <2>3
    <2>5. stock[s] = -Taken(s)
      <3>1. \A i, j \in Int : i + j = 0 => i = -j
        OBVIOUS
      <3>2. QED
        BY <2>4, <3>1, Zenon
    <2>6. QED
      BY <2>5
  <1>6. QED
    BY <1>1, <1>2, <1>3, <1>4, <1>5 DEF Inv

LEMMA StutterKeeps ==
    ASSUME Inv, UNCHANGED vars
    PROVE  Inv'
  <1>1. /\ order' = order /\ log' = log /\ stock' = stock /\ moves' = moves
        /\ pc' = pc /\ job' = job /\ work' = work /\ todo' = todo /\ taken' = taken
    BY DEF vars
  <1>2. TypeOK'
    BY <1>1 DEF Inv, TypeOK
  <1>3. Grown
    BY <1>1 DEF Grown, LoggedTo
  <1>4. \A v \in Users : RequestOK(v)'
    BY <1>1, <1>3, RequestKept DEF Inv, SameRequest
  <1>5. WritersApart'
    BY <1>1 DEF Inv, WritersApart
  <1>6. HistoryExplainsOrder'
    BY <1>1 DEF Inv, HistoryExplainsOrder, LoggedTo
  <1>7. StepsFromHistory'
    BY <1>1 DEF Inv, StepsFromHistory
  <1>8. MovesMatch'
    BY <1>1 DEF Inv, MovesMatch, UsesOf, LoggedTo
  <1>9. StockMatches'
    BY <1>1 DEF Inv, StockMatches, Taken
  <1>10. QED
    BY <1>2, <1>4, <1>5, <1>6, <1>7, <1>8, <1>9 DEF Inv

\* Every step keeps the invariant.
LEMMA NextInv ==
    ASSUME Inv, [Next]_vars
    PROVE  Inv'
  <1>1. ASSUME NEW u \in Users, NEW o \in Orders, NEW t \in Transactions \cup {NoTransaction},
               Create(u, o, t) \/ CreateFromTransaction(u, o, t)
        PROVE  Inv'
    BY <1>1, InsertOrderKeeps DEF Create, CreateFromTransaction
  <1>2. ASSUME NEW u \in Users, NEW o \in Orders, NEW s \in Statuses, ReadOrder(u, o, s)
        PROVE  Inv'
    BY <1>2, ReadOrderKeeps
  <1>3. ASSUME NEW u \in Users, WriteStatus(u) \/ Deduct(u) \/ Commit(u)
        PROVE  Inv'
    BY <1>3, WriteStatusKeeps, DeductKeeps, CommitKeeps
  <1>4. ASSUME NEW u \in Users, DeductionFails(u) \/ DeadlockVictim(u)
        PROVE  Inv'
    <2>1. RollBack(u) /\ UNCHANGED tables /\ pc' = [pc EXCEPT ![u] = "failed"]
      BY <1>4 DEF DeductionFails, DeadlockVictim
    <2>2. QED
      BY <2>1, RollBackKeeps
  <1>5. ASSUME NEW u \in Users, EndFailed(u)
        PROVE  Inv'
    <2>1. /\ UNCHANGED tables /\ UNCHANGED session /\ pc[u] = "failed"
          /\ pc' = [pc EXCEPT ![u] = "idle"]
      BY <1>5 DEF EndFailed, tables, session
    <2>2. QED
      BY <2>1, RollBackKeeps
  <1>6. ASSUME NEW u \in Users, Abort(u)
        PROVE  Inv'
    <2>1. RollBack(u) /\ UNCHANGED tables /\ pc' = [pc EXCEPT ![u] = "idle"]
      BY <1>6 DEF Abort
    <2>2. QED
      BY <2>1, RollBackKeeps
  <1>7. QED
    BY <1>1, <1>2, <1>3, <1>4, <1>5, <1>6, StutterKeeps DEF Next

\* Type correctness: whatever requests overlap, deadlock or get lost, the rows,
\* histories and deductions keep the shape that the tables demand.
THEOREM TypeCorrect == Spec => []TypeOK
  <1>1. Inv => TypeOK
    BY DEF Inv
  <1>2. QED
    BY <1>1, InitInv, NextInv, PTL DEF Spec

\* The history explains the row: it begins with the creation and with no other,
\* ends in the status of the row, and accounts for completed and picked up, even
\* when stale requests overwrite one another (UpdateStatus).
THEOREM HistoryExplains == Spec => []HistoryExplainsOrder
  <1>1. Inv => HistoryExplainsOrder
    BY DEF Inv
  <1>2. QED
    BY <1>1, InitInv, NextInv, PTL DEF Spec

\* Every step of a history leaves a status that the order has had, never one that
\* was rolled back (UpdateStatus reads what is committed).
THEOREM StepsLeaveHistory == Spec => []StepsFromHistory
  <1>1. Inv => StepsFromHistory
    BY DEF Inv
  <1>2. QED
    BY <1>1, InitInv, NextInv, PTL DEF Spec

\* The stock is what the orders that were logged as done have taken, each of its
\* supplies once for each time: no deadlock, lost request or swallowed error
\* leaves a part of a deduction behind (DeductStockForOrder).
THEOREM StockFollowsOrders == Spec => []StockMatchesOrders
  <1>1. Inv => StockMatchesOrders
    <2>1. SUFFICES ASSUME Inv PROVE StockMatchesOrders
      OBVIOUS
    <2>2. ASSUME NEW s \in Supplies
          PROVE  stock[s] = -MapThenSumSet(LAMBDA o : moves[o][s], Orders)
      <3>1. stock[s] = -Taken(s)
        BY <2>1 DEF Inv, StockMatches
      <3>2. MapThenSumSet(LAMBDA o : moves[o][s], Orders)
               = SumOver([o \in Orders |-> moves[o][s]], Orders)
        BY OrdersAssumption, SumOfPlace
      <3>3. QED
        BY <3>1, <3>2 DEF Taken
    <2>3. \A s \in Supplies : stock[s] = -MapThenSumSet(LAMBDA o : moves[o][s], Orders)
      BY <2>2
    <2>4. QED
      BY <2>1, <2>3 DEF Inv, MovesMatch, StockMatchesOrders
  <1>2. QED
    BY <1>1, InitInv, NextInv, PTL DEF Spec

-----------------------------------------------------------------------------
(***************************************************************************)
(* One order for each sale.                                                *)
(***************************************************************************)
\* The rows that can be seen, committed or about to be, name no new sale.
LEMMA OneOrderKept ==
    ASSUME OneOrderInv, NEW u \in Users, order' = order,
           \A v \in Users \ {u} : work'[v] = work[v] /\ job'[v] = job[v],
           \/ work'[u] = NoOrder
           \/ work'[u] = work[u] /\ job'[u] = job[u]
    PROVE  OneOrderInv'
  <1>1. \A v \in Users : \A t : Uses(work'[v], t) => /\ Uses(work[v], t)
                                                    /\ job'[v].order = job[v].order
    BY DEF Uses
  <1>2. QED
    BY <1>1 DEF OneOrderInv, OneOrderPerTransaction

\* Reading an order adds no row.
LEMMA OneOrderRead ==
    ASSUME Inv, OneOrderInv, NEW u \in Users, NEW o \in Orders, NEW s \in Statuses,
           ReadOrder(u, o, s)
    PROVE  OneOrderInv'
  <1>1. work[u] = NoOrder
    BY DEF ReadOrder, Inv, RequestOK, WrittenNothing
  <1>2. /\ order' = order /\ work' = work
        /\ \A v \in Users \ {u} : work'[v] = work[v] /\ job'[v] = job[v]
    BY DEF ReadOrder, tables, Inv, TypeOK
  <1>3. QED
    BY <1>1, <1>2, OneOrderKept

\* The unique index on the transaction of an order, committed or about to be.
LEMMA OneOrderInsert ==
    ASSUME Inv, OneOrderInv, NEW u \in Users, NEW o \in Orders,
           NEW t \in Transactions \cup {NoTransaction}, InsertOrder(u, o, t)
    PROVE  OneOrderInv'
  <1>1. /\ order' = order /\ work'[u] = NewRow(t)
        /\ \A v \in Users \ {u} : work'[v] = work[v] /\ job'[v] = job[v]
    BY DEF InsertOrder, tables, Inv, TypeOK
  <1>2. \A x \in Transactions : Uses(work'[u], x) => x = t
    BY <1>1 DEF Uses, NewRow
  <1>3. t \in Transactions => /\ \A p \in Orders : ~Uses(order[p], t)
                              /\ \A v \in Users : ~Uses(work[v], t)
    BY DEF InsertOrder, TransactionFree
  <1>4. QED
    BY <1>1, <1>2, <1>3 DEF OneOrderInv, OneOrderPerTransaction

\* An update of the row leaves its sale alone.
LEMMA OneOrderWrite ==
    ASSUME Inv, OneOrderInv, NEW u \in Users, WriteStatus(u)
    PROVE  OneOrderInv'
  <1>1. PICK o \in Orders : job[u].order = o
    BY DEF WriteStatus, Inv, RequestOK, Jobs
  <1> DEFINE row == order[o]
             s == job[u].entry.to
  <1>2. order' = order /\ job' = job /\ work'[u] = UpdatedRow(row, s)
        /\ \A v \in Users \ {u} : work'[v] = work[v]
    BY <1>1 DEF WriteStatus, tables, Inv, TypeOK
  <1>3. row # NoOrder /\ row \in Rows /\ s \in Statuses
    BY <1>1 DEF WriteStatus, Inv, TypeOK, RequestOK, Stepping, Jobs, Entries
  <1>4. work'[u].tx = row.tx
    <2>1. UpdatedRow(row, s).tx = row.tx
      <3> HIDE DEF row, s
      <3>1. QED BY <1>3, UpdatedTyped
    <2>2. QED
      BY <1>2, <2>1
  <1>5. \A t : Uses(work'[u], t) => Uses(order[o], t)
    BY <1>3, <1>4 DEF Uses
  <1>6. QED
    BY <1>1, <1>2, <1>5 DEF OneOrderInv, OneOrderPerTransaction

\* A commit makes the row that was written the one that is seen.
LEMMA OneOrderCommit ==
    ASSUME Inv, OneOrderInv, NEW u \in Users, Commit(u)
    PROVE  OneOrderInv'
  <1>1. PICK o \in Orders : job[u].order = o
    BY CommitDoes
  <1>2. order'[o] = work[u] /\ \A p \in Orders \ {o} : order'[p] = order[p]
    BY <1>1, CommitDoes
  <1>3. work'[u] = NoOrder /\ \A v \in Users \ {u} : work'[v] = work[v] /\ job'[v] = job[v]
    BY DEF Commit, RollBack, Inv, TypeOK
  <1>4. \A t : ~Uses(work'[u], t)
    BY <1>3 DEF Uses
  <1>5. QED
    BY <1>1, <1>2, <1>3, <1>4 DEF OneOrderInv, OneOrderPerTransaction

\* A sale has at most one order, committed or about to be, although a cashier and
\* any number of uploads may create it (Create, CreateFromTransaction).
THEOREM OneOrder == Spec => []OneOrderPerTransaction
  <1>1. Init => OneOrderInv
    BY DEF Init, OneOrderInv, OneOrderPerTransaction, Uses
  <1>2. Inv /\ OneOrderInv /\ [Next]_vars => OneOrderInv'
    <2>1. SUFFICES ASSUME Inv, OneOrderInv, [Next]_vars PROVE OneOrderInv'
      OBVIOUS
    <2>2. ASSUME NEW u \in Users, NEW o \in Orders, NEW t \in Transactions \cup {NoTransaction},
                 Create(u, o, t) \/ CreateFromTransaction(u, o, t)
          PROVE  OneOrderInv'
      BY <2>1, <2>2, OneOrderInsert DEF Create, CreateFromTransaction
    <2>3. ASSUME NEW u \in Users, NEW o \in Orders, NEW s \in Statuses, ReadOrder(u, o, s)
          PROVE  OneOrderInv'
      BY <2>1, <2>3, OneOrderRead
    <2>4. ASSUME NEW u \in Users, WriteStatus(u) \/ Commit(u)
          PROVE  OneOrderInv'
      BY <2>1, <2>4, OneOrderWrite, OneOrderCommit
    <2>5. ASSUME NEW u \in Users,
                 Deduct(u) \/ DeductionFails(u) \/ DeadlockVictim(u) \/ EndFailed(u) \/ Abort(u)
          PROVE  OneOrderInv'
      <3>1. /\ order' = order
            /\ \A v \in Users \ {u} : work'[v] = work[v] /\ job'[v] = job[v]
            /\ work'[u] = NoOrder \/ (work'[u] = work[u] /\ job'[u] = job[u])
        BY <2>1, <2>5 DEF Deduct, DeductionFails, DeadlockVictim, EndFailed, Abort, RollBack,
                          tables, session, Inv, TypeOK
      <3>2. QED
        BY <2>1, <3>1, OneOrderKept
    <2>6. CASE UNCHANGED vars
      BY <2>1, <2>6 DEF vars, OneOrderInv, OneOrderPerTransaction
    <2>7. QED
      BY <2>1, <2>2, <2>3, <2>4, <2>5, <2>6 DEF Next
  <1>3. OneOrderInv => OneOrderPerTransaction
    BY DEF OneOrderInv
  <1>4. QED
    BY <1>1, <1>2, <1>3, InitInv, NextInv, PTL DEF Spec
=============================================================================
