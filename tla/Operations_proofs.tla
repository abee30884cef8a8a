-------------------------- MODULE Operations_proofs --------------------------
(***************************************************************************)
(* Proofs about Inventory, for any supplies and finitely many requests:    *)
(* what a stock is made of.  Proofs about Summaries, for any owners,       *)
(* orders, and length of the day: what is remembered and what comes.       *)
(* Proofs about Books, for finitely many sales, expenses and outlets: how  *)
(* the figures of a report agree.                                          *)
(***************************************************************************)
EXTENDS MC_Operations, FiniteSums_proofs

-----------------------------------------------------------------------------
(***************************************************************************)
(* Inventory.  The inductive invariant.                                    *)
(***************************************************************************)
\* What a deduction owes to a supply it has taken, or it has one movement for it
\* still to make; a task that is broken makes none.
Owing(t) ==
    /\ \A m \in t.todo : t.took[m.supply] + m.quantity = t.owes[m.supply]
    /\ \A m, n \in t.todo : m.supply = n.supply => m = n
    /\ \A s \in Supplies : (\A m \in t.todo : m.supply # s) => t.took[s] = t.owes[s]

TaskKept(t) ==
    /\ t.at = "items" => t.items # <<>>
    /\ t.at # "move" => t.todo = {}
    /\ t.at \in {"items", "move"} => ~t.broken
    /\ t.at = "alert" => t.op = "sale"
    /\ ~t.broken /\ t.op # "movement" => Owing(t)

\* An upload that will start a goroutine, if it goes on.
Alerting(t) == t.op = "sale" /\ t.at \in {"items", "move", "alert"}
Alertings == {c \in Clerks : Alerting(task[c])}

AlertsCounted == alertsDue + Cardinality(Alertings) <= tasks + entries

\* The stock is within its half cents of the ledger.
Near(stock, l) == Distance(stock, l.sum) <= l.halves

InventoryInv ==
    /\ InventoryTypeOK
    /\ \A c \in Clerks : TaskKept(task[c])
    /\ \A c \in Clerks, s \in Supplies :
          held[c][s].written => Known(s) /\ Near(held[c][s].stock, held[c][s].ledger)
    /\ AlertsCounted
    /\ LowStock \subseteq wasLow /\ alerted \subseteq wasLow
    /\ LedgerExplainsStock

-----------------------------------------------------------------------------
(***************************************************************************)
(* Rounding.                                                               *)
(***************************************************************************)
\* Whole cents stay as they are; half a cent goes away from zero.
LEMMA CentsOf ==
    /\ \A k \in Int : Cents(2 * k) = k
    /\ \A k \in Int : k >= 0 => Cents(2 * k + 1) = k + 1
    /\ \A k \in Int : k < 0 => Cents(2 * k + 1) = k
  <1>1. ASSUME NEW k \in Int PROVE Cents(2 * k) = k
    <2>1. CASE k >= 0
      <3>1. (2 * k + 1) \div 2 = k
        OBVIOUS
      <3>2. QED
        BY <2>1, <3>1 DEF Cents
    <2>2. CASE k < 0
      <3>1. (1 - 2 * k) \div 2 = -k
        OBVIOUS
      <3>2. QED
        BY <2>2, <3>1 DEF Cents
    <2>3. QED
      BY <2>1, <2>2
  <1>2. ASSUME NEW k \in Int PROVE (k >= 0 => Cents(2 * k + 1) = k + 1) /\ (k < 0 => Cents(2 * k + 1) = k)
    <2>1. (2 * k + 1 + 1) \div 2 = k + 1 /\ (1 - (2 * k + 1)) \div 2 = -k
      OBVIOUS
    <2>2. QED
      BY <2>1 DEF Cents
  <1>3. QED
    BY <1>1, <1>2

LEMMA CentsType == \A h \in Int : Cents(h) \in Int
  BY DEF Cents

\* A movement leaves the stock within its half cent of the ledger.
LEMMA RoundingBounded ==
    ASSUME NEW q \in Nat, NEW a \in Int, NEW b \in Int, NEW h \in Nat, Distance(a, b) <= h
    PROVE  /\ Distance(Cents(2 * a + q), b + Cents(q)) <= h + (q % 2)
           /\ Distance(Cents(2 * a - q), b - Cents(q)) <= h + (q % 2)
  <1>1. PICK k \in Nat : q = 2 * k \/ q = 2 * k + 1
    <2>1. q \div 2 \in Nat /\ (q = 2 * (q \div 2) \/ q = 2 * (q \div 2) + 1)
      OBVIOUS
    <2>2. QED
      BY <2>1
  <1>2. CASE q = 2 * k
    <2>1. Cents(q) = k /\ q % 2 = 0
      BY <1>2, CentsOf
    <2>2. 2 * a + q = 2 * (a + k) /\ 2 * a - q = 2 * (a - k)
      BY <1>2
    <2>3. Cents(2 * a + q) = a + k /\ Cents(2 * a - q) = a - k
      <3>1. Cents(2 * (a + k)) = a + k /\ Cents(2 * (a - k)) = a - k
        <4>1. a + k \in Int /\ a - k \in Int
          OBVIOUS
        <4>2. QED
          BY <4>1, CentsOf
      <3>2. QED
        BY <2>2, <3>1
    <2>4. QED
      BY <2>1, <2>3 DEF Distance
  <1>3. CASE q = 2 * k + 1
    <2>1. Cents(q) = k + 1 /\ q % 2 = 1
      BY <1>3, CentsOf
    <2>2. 2 * a + q = 2 * (a + k) + 1 /\ 2 * a - q = 2 * (a - k - 1) + 1
      BY <1>3
    <2>3. Cents(2 * a + q) \in {a + k, a + k + 1} /\ Cents(2 * a - q) \in {a - k, a - k - 1}
      <3>1. /\ Cents(2 * (a + k) + 1) \in {a + k, a + k + 1}
            /\ Cents(2 * (a - k - 1) + 1) \in {a - k, a - k - 1}
        <4>1. PICK i \in Int, j \in Int : i = a + k /\ j = a - k - 1
          OBVIOUS
        <4>2. Cents(2 * i + 1) \in {i, i + 1} /\ Cents(2 * j + 1) \in {j, j + 1}
          BY CentsOf
        <4>3. QED
          BY <4>1, <4>2
      <3>2. QED
        BY <2>2, <3>1
    <2>4. PICK x \in {a + k, a + k + 1}, y \in {a - k, a - k - 1} :
             x = Cents(2 * a + q) /\ y = Cents(2 * a - q)
      BY <2>3
    <2>5. Distance(x, b + (k + 1)) <= h + 1 /\ Distance(y, b - (k + 1)) <= h + 1
      BY DEF Distance
    <2>6. QED
      BY <2>1, <2>4, <2>5
  <1>4. QED
    BY <1>1, <1>2, <1>3

LEMMA QuantitiesPositive == \A q \in Quantities : q \in Nat /\ q > 0
  BY QuantitiesAssumption

\* A movement keeps the stock within its half cents of the ledger.
LEMMA EnteredNear ==
    ASSUME NEW m \in Moves, NEW stock \in Int, NEW l \in Ledgers, Near(stock, l),
           NEW after, after = CASE m.kind = "in" -> Cents(2 * stock + m.quantity)
                                [] m.kind = "out" -> Cents(2 * stock - m.quantity)
                                [] m.kind = "adjustment" -> Cents(m.quantity)
    PROVE  after \in Int /\ Entered(l, m) \in Ledgers /\ Near(after, Entered(l, m))
  <1>1. PICK q \in Nat : q = m.quantity
    BY QuantitiesAssumption DEF Moves
  <1>2. l.sum \in Int /\ l.halves \in Nat /\ q % 2 \in Nat /\ Cents(q) \in Int
    BY CentsType DEF Ledgers
  <1>3. /\ Distance(Cents(2 * stock + q), l.sum + Cents(q)) <= l.halves + (q % 2)
        /\ Distance(Cents(2 * stock - q), l.sum - Cents(q)) <= l.halves + (q % 2)
    BY <1>2, RoundingBounded DEF Near
  <1>4. Cents(2 * stock + q) \in Int /\ Cents(2 * stock - q) \in Int
    BY CentsType
  <1>5. CASE m.kind = "in"
    <2>1. Entered(l, m) = [sum |-> l.sum + Cents(q), halves |-> l.halves + (q % 2)] /\ after = Cents(2 * stock + q)
      BY <1>1, <1>5 DEF Entered
    <2>2. Entered(l, m) \in Ledgers /\ Entered(l, m).sum = l.sum + Cents(q) /\ Entered(l, m).halves = l.halves + (q % 2)
      <3>1. PICK x \in Int, y \in Nat : x = l.sum + Cents(q) /\ y = l.halves + (q % 2)
        BY <1>2
      <3>2. [sum |-> x, halves |-> y] \in Ledgers
        BY DEF Ledgers
      <3>3. QED
        BY <2>1, <3>1, <3>2
    <2>3. QED
      BY <1>2, <1>3, <1>4, <2>1, <2>2 DEF Near
  <1>6. CASE m.kind = "out"
    <2>1. Entered(l, m) = [sum |-> l.sum - Cents(q), halves |-> l.halves + (q % 2)] /\ after = Cents(2 * stock - q)
      BY <1>1, <1>2, <1>6 DEF Entered
    <2>2. Entered(l, m) \in Ledgers /\ Entered(l, m).sum = l.sum - Cents(q) /\ Entered(l, m).halves = l.halves + (q % 2)
      <3>1. PICK x \in Int, y \in Nat : x = l.sum - Cents(q) /\ y = l.halves + (q % 2)
        BY <1>2
      <3>2. [sum |-> x, halves |-> y] \in Ledgers
        BY DEF Ledgers
      <3>3. QED
        BY <2>1, <3>1, <3>2
    <2>3. QED
      BY <1>2, <1>3, <1>4, <2>1, <2>2 DEF Near
  <1>7. CASE m.kind = "adjustment"
    <2>1. Entered(l, m) = [sum |-> Cents(q), halves |-> 0] /\ after = Cents(q)
      BY <1>1, <1>7 DEF Entered
    <2>2. Entered(l, m) \in Ledgers /\ Entered(l, m).sum = Cents(q) /\ Entered(l, m).halves = 0
      <3>1. PICK x \in Int, y \in Nat : x = Cents(q) /\ y = 0
        BY <1>2
      <3>2. [sum |-> x, halves |-> y] \in Ledgers
        BY DEF Ledgers
      <3>3. QED
        BY <2>1, <3>1, <3>2
    <2>3. QED
      <3>1. PICK x \in Int : x = Cents(q)
        BY <1>2
      <3>2. Distance(x, x) <= 0
        BY DEF Distance
      <3>3. QED
        BY <2>1, <2>2, <3>1, <3>2 DEF Near
  <1>8. QED
    BY <1>5, <1>6, <1>7 DEF Moves, Kinds

-----------------------------------------------------------------------------
(***************************************************************************)
(* The steps of the requests.                                              *)
(***************************************************************************)
LEMMA AlertingsMove ==
    ASSUME InventoryTypeOK, NEW c \in Clerks, NEW t, task' = [task EXCEPT ![c] = t]
    PROVE  /\ Cardinality(Alertings) \in Nat /\ Cardinality(Alertings)' \in Nat
           /\ Cardinality(Alertings)' <= Cardinality(Alertings) + 1
           /\ Alerting(task[c]) \/ ~Alerting(t) => Cardinality(Alertings)' <= Cardinality(Alertings)
           /\ Alerting(task[c]) /\ ~Alerting(t) => Cardinality(Alertings)' <= Cardinality(Alertings) - 1
  <1>1. IsFiniteSet(Alertings) /\ IsFiniteSet(Alertings')
    BY ClerksAssumption, FS_Subset DEF Alertings
  <1>2. \A d \in Clerks : task'[d] = IF d = c THEN t ELSE task[d]
    BY DEF InventoryTypeOK
  <1>3. Alertings' = IF Alerting(t) THEN Alertings \cup {c} ELSE Alertings \ {c}
    BY <1>2 DEF Alertings
  <1>4. c \in Alertings <=> Alerting(task[c])
    BY DEF Alertings
  <1>5. /\ Cardinality(Alertings \cup {c}) = IF c \in Alertings THEN Cardinality(Alertings) ELSE Cardinality(Alertings) + 1
        /\ Cardinality(Alertings \ {c}) = IF c \in Alertings THEN Cardinality(Alertings) - 1 ELSE Cardinality(Alertings)
    BY <1>1, FS_AddElement, FS_RemoveElement
  <1>6. Cardinality(Alertings) \in Nat /\ Cardinality(Alertings') \in Nat
    BY <1>1, FS_CardinalityType
  <1>7. QED
    BY <1>3, <1>4, <1>5, <1>6

\* A request goes on to t, with the rows h written.
LEMMA RequestStep ==
    ASSUME InventoryInv, NEW c \in Clerks, NEW t \in Tasks, NEW h \in [Supplies -> Writes],
           task' = [task EXCEPT ![c] = t], held' = [held EXCEPT ![c] = h], TaskKept(t),
           \A s \in Supplies : /\ h[s].written <=> t.took[s] > 0
                               /\ h[s].written => /\ \A d \in Clerks \ {c} : ~held[d][s].written
                                                  /\ Known(s) /\ Near(h[s].stock, h[s].ledger),
           UNCHANGED <<supply, ledger, mapping, alerted, wasLow>>,
           alertsDue' \in Nat, tasks' \in 0 .. MaxTasks, entries' \in 0 .. MaxEntries,
           AlertsCounted'
    PROVE  InventoryInv'
  <1> USE DEF InventoryInv
  <1>1. \A d \in Clerks : /\ task'[d] = IF d = c THEN t ELSE task[d]
                          /\ held'[d] = IF d = c THEN h ELSE held[d]
    BY DEF InventoryTypeOK
  <1>2. \A d \in Clerks : TaskKept(task'[d])
    BY <1>1
  <1>3. InventoryTypeOK'
    <2>1. alertsDue' \in 0 .. MaxTasks + MaxEntries
      <3>1. Cardinality(Alertings)' \in Nat
        BY AlertingsMove
      <3>2. QED
        BY <3>1, TaskBoundsAssumption DEF AlertsCounted
    <2>2. task' \in [Clerks -> Tasks] /\ held' \in [Clerks -> [Supplies -> Writes]]
      BY <1>1 DEF InventoryTypeOK
    <2>3. ASSUME NEW d \in Clerks, NEW s \in Supplies
          PROVE  /\ held'[d][s].written <=> task'[d].took[s] > 0
                 /\ held'[d][s].written => ~\E e \in Clerks \ {d} : held'[e][s].written
      BY <1>1 DEF InventoryTypeOK
    <2>4. QED
      BY <2>1, <2>2, <2>3 DEF InventoryTypeOK
  <1>4. \A d \in Clerks, s \in Supplies :
           held'[d][s].written => Known(s)' /\ Near(held'[d][s].stock, held'[d][s].ledger)
    BY <1>1 DEF Known
  <1>5. LowStock' \subseteq wasLow' /\ alerted' \subseteq wasLow' /\ LedgerExplainsStock'
    BY DEF LowStock, Known, LedgerExplainsStock
  <1>6. QED
    BY <1>2, <1>3, <1>4, <1>5

\* ... and with those it had written.
LEMMA TaskStep ==
    ASSUME InventoryInv, NEW c \in Clerks, NEW t \in Tasks,
           task' = [task EXCEPT ![c] = t], TaskKept(t), t.took = task[c].took,
           UNCHANGED <<supply, ledger, mapping, held, alerted, wasLow>>,
           alertsDue' \in Nat, tasks' \in 0 .. MaxTasks, entries' \in 0 .. MaxEntries,
           AlertsCounted'
    PROVE  InventoryInv'
  <1> USE DEF InventoryInv
  <1>1. PICK h \in [Supplies -> Writes] : h = held[c]
    BY DEF InventoryTypeOK
  <1>2. held' = [held EXCEPT ![c] = h]
    BY <1>1 DEF InventoryTypeOK
  <1>3. \A s \in Supplies : /\ h[s].written <=> t.took[s] > 0
                            /\ h[s].written => /\ \A d \in Clerks \ {c} : ~held[d][s].written
                                               /\ Known(s) /\ Near(h[s].stock, h[s].ledger)
    BY <1>1 DEF InventoryTypeOK
  <1>4. QED
    BY <1>2, <1>3, RequestStep

\* ... and without any.
LEMMA AbortStep ==
    ASSUME InventoryInv, NEW c \in Clerks, NEW t \in Tasks,
           task' = [task EXCEPT ![c] = t], held' = [held EXCEPT ![c] = Nothing],
           TaskKept(t), t.took = [s \in Supplies |-> 0],
           UNCHANGED <<supply, ledger, mapping, alertsDue, alerted, wasLow, tasks, entries>>,
           Alerting(t) => Alerting(task[c])
    PROVE  InventoryInv'
  <1> USE DEF InventoryInv
  <1>1. Nothing \in [Supplies -> Writes] /\ \A s \in Supplies : ~Nothing[s].written /\ t.took[s] = 0
    BY DEF Nothing, Unwritten, Writes, Ledgers
  <1>2. AlertsCounted'
    <2>1. Cardinality(Alertings)' <= Cardinality(Alertings) /\ Cardinality(Alertings) \in Nat /\ Cardinality(Alertings)' \in Nat
      BY AlertingsMove
    <2>2. QED
      BY <2>1 DEF AlertsCounted, InventoryTypeOK
  <1>3. alertsDue' \in Nat /\ tasks' \in 0 .. MaxTasks /\ entries' \in 0 .. MaxEntries
    BY DEF InventoryTypeOK
  <1>4. PICK h \in [Supplies -> Writes] : h = Nothing
    BY <1>1
  <1>5. \A s \in Supplies : ~h[s].written /\ ~(t.took[s] > 0)
    BY <1>1, <1>4
  <1>6. held' = [held EXCEPT ![c] = h]
    BY <1>4
  <1>7. \A s \in Supplies : /\ h[s].written <=> t.took[s] > 0
                            /\ h[s].written => /\ \A d \in Clerks \ {c} : ~held[d][s].written
                                               /\ Known(s) /\ Near(h[s].stock, h[s].ledger)
    BY <1>5
  <1>8. QED
    BY <1>2, <1>3, <1>6, <1>7, RequestStep

LEMMA NoTaskKept == NoTask \in Tasks /\ TaskKept(NoTask) /\ ~Alerting(NoTask) /\ NoTask.took = [s \in Supplies |-> 0]
  <1>1. NoTask \in Tasks
    BY DEF NoTask, Tasks
  <1>2. QED
    BY <1>1 DEF NoTask, TaskKept, Owing, Alerting

\* The steps of requests, and of what is done at once.
LEMMA UndertakeInv ==
    ASSUME InventoryInv, NEW c \in Clerks, NEW t \in Tasks, Undertake(c, t), TaskKept(t),
           t.took = [s \in Supplies |-> 0]
    PROVE  InventoryInv'
  <1> USE DEF InventoryInv
  <1>1. /\ task[c] = NoTask /\ tasks < MaxTasks /\ tasks' = tasks + 1 /\ task' = [task EXCEPT ![c] = t]
        /\ UNCHANGED <<supply, ledger, mapping, held, alertsDue, alerted, wasLow, entries>>
    BY DEF Undertake
  <1>2. AlertsCounted'
    <2>1. /\ Cardinality(Alertings)' <= Cardinality(Alertings) + 1
          /\ Cardinality(Alertings) \in Nat /\ Cardinality(Alertings)' \in Nat
      BY <1>1, AlertingsMove
    <2>2. QED
      BY <1>1, <2>1 DEF AlertsCounted, InventoryTypeOK
  <1>3. alertsDue' \in Nat /\ tasks' \in 0 .. MaxTasks /\ entries' \in 0 .. MaxEntries
    BY <1>1, TaskBoundsAssumption DEF InventoryTypeOK
  <1>4. t.took = task[c].took
    BY <1>1, NoTaskKept
  <1>5. QED
    BY <1>1, <1>2, <1>3, <1>4, TaskStep

LEMMA RecordMovementInv ==
    ASSUME InventoryInv, NEW c \in Clerks, NEW s \in Supplies, NEW kind \in Kinds, NEW q \in Quantities,
           RecordMovement(c, s, kind, q)
    PROVE  InventoryInv'
  <1>1. PICK m \in Moves : m = [supply |-> s, kind |-> kind, quantity |-> q]
    BY DEF Moves
  <1>2. PICK t : t = [NoTask EXCEPT !.op = "movement", !.at = "move", !.todo = {m}]
    OBVIOUS
  <1>3. /\ t \in Tasks /\ t.took = [x \in Supplies |-> 0]
        /\ t.at = "move" /\ ~t.broken /\ t.op = "movement"
    <2>1. t = [op |-> "movement", at |-> "move", items |-> <<>>, todo |-> {m},
               owes |-> [x \in Supplies |-> 0], took |-> [x \in Supplies |-> 0], broken |-> FALSE]
      BY <1>2 DEF NoTask
    <2>2. QED
      BY <2>1 DEF Tasks
  <1>4. Undertake(c, t)
    BY <1>1, <1>2 DEF RecordMovement
  <1>5. TaskKept(t)
    BY <1>3 DEF TaskKept
  <1>6. QED
    BY <1>3, <1>4, <1>5, UndertakeInv

LEMMA DeductSaleInv ==
    ASSUME InventoryInv, NEW c \in Clerks, NEW op \in {"sale", "order"}, NEW items \in ItemLists,
           DeductSale(c, op, items)
    PROVE  InventoryInv'
  <1>1. items \in Seq(Services) /\ items # <<>>
    <2>1. PICK n \in 1 .. MaxItems : items \in [1 .. n -> Services]
      BY DEF ItemLists
    <2>2. n \in Nat /\ n >= 1
      BY <2>1, TaskBoundsAssumption
    <2>3. items \in Seq(Services) /\ Len(items) = n
      BY <2>1, <2>2
    <2>4. QED
      BY <2>2, <2>3
  <1>2. PICK t : t = [NoTask EXCEPT !.op = op, !.at = "items", !.items = items]
    OBVIOUS
  <1>3. t \in Tasks /\ t.took = [s \in Supplies |-> 0]
    BY <1>1, <1>2 DEF NoTask, Tasks
  <1>4. TaskKept(t)
    BY <1>1, <1>2 DEF NoTask, TaskKept, Owing
  <1>5. Undertake(c, t)
    BY <1>2 DEF DeductSale
  <1>6. QED
    BY <1>3, <1>4, <1>5, UndertakeInv

\* What the next item asks for is owed, in a movement for each supply it uses.
LEMMA ReadMappingsInv == ASSUME InventoryInv, NEW c \in Clerks, ReadMappings(c) PROVE InventoryInv'
  <1> USE DEF InventoryInv
  <1>1. PICK r \in Tasks : r = task[c]
    BY DEF InventoryTypeOK
  <1>2. r.at = "items" /\ r.items # <<>> /\ r.items \in Seq(Services) /\ r.todo = {} /\ ~r.broken /\ TaskKept(r)
    <2>1. r.at = "items" /\ TaskKept(r)
      BY <1>1 DEF ReadMappings
    <2>2. QED
      BY <2>1 DEF TaskKept, Tasks
  <1> DEFINE v == Head(task[c].items)
             items == Tail(task[c].items)
             uses == {x \in Supplies : mapping[v][x] > 0 /\ Known(x)}
             todo == {[supply |-> s, kind |-> "out", quantity |-> mapping[v][s]] : s \in uses}
             owes == [s \in Supplies |-> r.owes[s] + IF Known(s) THEN mapping[v][s] ELSE 0]
             at == After(c, todo, items)
  <1>3. v \in Services /\ items \in Seq(Services)
    <2>1. PICK x \in Seq(Services) : x = r.items
      BY <1>2
    <2>2. Head(x) \in Services /\ Tail(x) \in Seq(Services)
      BY <1>2, <2>1
    <2>3. QED
      BY <1>1, <2>1, <2>2
  <1>4. task' = [task EXCEPT ![c].todo = todo, ![c].items = items, ![c].at = at,
                             ![c].owes = [s \in Supplies |-> @[s] + IF Known(s) THEN mapping[v][s] ELSE 0]]
    BY DEF ReadMappings
  <1>5. UNCHANGED <<supply, ledger, mapping, held, alertsDue, alerted, wasLow, tasks, entries>>
    BY DEF ReadMappings
  <1> HIDE DEF v, items
  <1>6. \A s \in Supplies : mapping[v][s] \in Nat /\ (mapping[v][s] > 0 => mapping[v][s] \in Quantities)
    <2>1. mapping[v] \in [Supplies -> Quantities \cup {0}]
      BY <1>3 DEF InventoryTypeOK
    <2>2. QED
      <3>1. \A s \in Supplies : mapping[v][s] \in Quantities \/ mapping[v][s] = 0
        BY <2>1
      <3>2. QED
        BY <3>1, QuantitiesPositive
  <1>7. /\ todo \in SUBSET Moves
        /\ \A m \in todo : m.supply \in uses /\ m.quantity = mapping[v][m.supply]
        /\ \A m, n \in todo : m.supply = n.supply => m = n
        /\ \A s \in uses : \E m \in todo : m.supply = s
    <2>1. \A s \in uses : [supply |-> s, kind |-> "out", quantity |-> mapping[v][s]] \in Moves
      BY <1>6 DEF Moves, Kinds
    <2>2. \A s \in uses : \E m \in todo : m.supply = s
      <3> SUFFICES ASSUME NEW s \in uses PROVE \E m \in todo : m.supply = s
        OBVIOUS
      <3>1. [supply |-> s, kind |-> "out", quantity |-> mapping[v][s]] \in todo
        OBVIOUS
      <3>2. QED
        BY <3>1
    <2>3. QED
      BY <2>1, <2>2
  <1>8. owes \in [Supplies -> Nat]
    <2>1. \A s \in Supplies : r.owes[s] \in Nat
      BY DEF Tasks
    <2>2. QED
      BY <1>6, <2>1
  <1>9. at \in {"move", "items", "alert", "done"} /\ (at = "move" <=> todo # {})
        /\ (at = "items" => items # <<>>) /\ (at = "alert" => r.op = "sale")
    BY <1>1 DEF After
  <1> HIDE DEF at
  <1>10. task' = [task EXCEPT ![c] = [r EXCEPT !.todo = todo, !.items = items, !.at = at, !.owes = owes]]
    <2> DEFINE g == [s \in Supplies |-> task[c].owes[s] + IF Known(s) THEN mapping[v][s] ELSE 0]
    <2>1. g = owes
      BY <1>1
    <2>2. task' = [task EXCEPT ![c].todo = todo, ![c].items = items, ![c].at = at, ![c].owes = g]
      BY <1>4
    <2> HIDE DEF g, owes, todo
    <2>3. task' = [task EXCEPT ![c].todo = todo, ![c].items = items, ![c].at = at, ![c].owes = owes]
      BY <2>1, <2>2
    <2>4. task \in [Clerks -> Tasks] /\ Clerks # {}
      BY DEF InventoryTypeOK
    <2>5. QED
      BY <1>1, <2>3, <2>4 DEF Tasks
  <1>11. PICK t \in Tasks : /\ task' = [task EXCEPT ![c] = t]
                            /\ t.op = r.op /\ t.at = at /\ t.items = items /\ t.todo = todo
                            /\ t.owes = owes /\ t.took = r.took /\ t.broken = r.broken
    <2> HIDE DEF todo, owes
    <2> DEFINE t == [r EXCEPT !.todo = todo, !.items = items, !.at = at, !.owes = owes]
    <2>1. t \in Tasks
      BY <1>3, <1>7, <1>8, <1>9 DEF Tasks
    <2>2. /\ t.op = r.op /\ t.at = at /\ t.items = items /\ t.todo = todo
          /\ t.owes = owes /\ t.took = r.took /\ t.broken = r.broken
      BY DEF Tasks
    <2>3. QED
      BY <1>10, <2>1, <2>2
  <1>12. r.op # "movement" => Owing(t)
    <2> SUFFICES ASSUME r.op # "movement" PROVE Owing(t)
      OBVIOUS
    <2>1. \A s \in Supplies : r.took[s] = r.owes[s] /\ r.owes[s] \in Nat
      BY <1>2 DEF TaskKept, Owing, Tasks
    <2>2. \A s \in Supplies : s \in uses => t.took[s] + mapping[v][s] = t.owes[s]
      BY <1>6, <1>11, <2>1
    <2>3. \A s \in Supplies : s \notin uses => t.took[s] = t.owes[s]
      BY <1>6, <1>11, <2>1
    <2> HIDE DEF owes, todo
    <2>4. QED
      BY <1>7, <1>11, <2>2, <2>3 DEF Owing
  <1>13. TaskKept(t)
    BY <1>2, <1>9, <1>11, <1>12 DEF TaskKept
  <1>14. AlertsCounted'
    <2>1. Alerting(t) => Alerting(task[c])
      BY <1>1, <1>2, <1>11 DEF Alerting
    <2>2. /\ Cardinality(Alertings)' <= Cardinality(Alertings)
          /\ Cardinality(Alertings) \in Nat /\ Cardinality(Alertings)' \in Nat
      BY <1>11, <2>1, AlertingsMove
    <2>3. QED
      BY <1>5, <2>2 DEF AlertsCounted, InventoryTypeOK
  <1>15. t.took = task[c].took /\ alertsDue' \in Nat /\ tasks' \in 0 .. MaxTasks /\ entries' \in 0 .. MaxEntries
    BY <1>1, <1>5, <1>11 DEF InventoryTypeOK
  <1>16. QED
    BY <1>5, <1>11, <1>13, <1>14, <1>15, TaskStep

\* A movement is written to a row that no other request has written.
LEMMA MakeMovementInv == ASSUME InventoryInv, NEW c \in Clerks, MakeMovement(c) PROVE InventoryInv'
  <1> USE DEF InventoryInv
  <1>1. PICK r \in Tasks : r = task[c]
    BY DEF InventoryTypeOK
  <1>2. PICK m \in r.todo :
           /\ r.at = "move" /\ Known(m.supply) /\ ~HeldByOther(c, m.supply)
           /\ held' = [held EXCEPT ![c][m.supply] =
                          [written |-> TRUE, stock |-> Moved(c, m),
                           ledger |-> Entered(LedgerSeen(c, m.supply), m)]]
           /\ task' = [task EXCEPT ![c].todo = @ \ {m}, ![c].took[m.supply] = @ + m.quantity,
                                   ![c].at = After(c, task[c].todo \ {m}, task[c].items)]
           /\ UNCHANGED <<supply, ledger, mapping, alertsDue, alerted, wasLow, tasks, entries>>
    BY <1>1 DEF MakeMovement
  <1>3. m \in Moves /\ m.supply \in Supplies /\ m.quantity \in Quantities /\ m.quantity \in Nat /\ m.quantity > 0
    <2>1. m \in Moves
      BY DEF Tasks
    <2>2. QED
      BY <2>1, QuantitiesPositive DEF Moves
  <1>4. TaskKept(r) /\ ~r.broken
    BY <1>1, <1>2 DEF TaskKept
  <1> DEFINE s == m.supply
             todo == r.todo \ {m}
             at == After(c, todo, r.items)
             took == [r.took EXCEPT ![s] = @ + m.quantity]
             w == [written |-> TRUE, stock |-> Moved(c, m), ledger |-> Entered(LedgerSeen(c, s), m)]
  <1>5. w \in Writes /\ w.written /\ Near(w.stock, w.ledger)
    <2>1. PICK stock \in Int, l \in Ledgers : stock = StockSeen(c, s) /\ l = LedgerSeen(c, s) /\ Near(stock, l)
      <3>1. CASE held[c][s].written
        BY <1>3, <3>1 DEF InventoryTypeOK, StockSeen, LedgerSeen, Writes
      <3>2. CASE ~held[c][s].written
        <4>1. supply[s] \in Supply
          BY <1>2, <1>3 DEF Known, InventoryTypeOK
        <4>2. Near(supply[s].stock, ledger[s])
          BY <1>2, <1>3 DEF LedgerExplainsStock, Near
        <4>3. QED
          BY <1>3, <3>2, <4>1, <4>2 DEF InventoryTypeOK, StockSeen, LedgerSeen, Supply
      <3>3. QED
        BY <3>1, <3>2
    <2>2. Moved(c, m) = CASE m.kind = "in" -> Cents(2 * stock + m.quantity)
                          [] m.kind = "out" -> Cents(2 * stock - m.quantity)
                          [] m.kind = "adjustment" -> Cents(m.quantity)
      BY <2>1 DEF Moved
    <2>3. Moved(c, m) \in Int /\ Entered(l, m) \in Ledgers /\ Near(Moved(c, m), Entered(l, m))
      BY <1>3, <2>1, <2>2, EnteredNear
    <2>4. QED
      BY <2>1, <2>3 DEF Writes
  <1>6. at \in {"move", "items", "alert", "done"} /\ (at = "move" <=> todo # {})
        /\ (at = "items" => r.items # <<>>) /\ (at = "alert" => r.op = "sale")
    BY <1>1 DEF After
  <1>7. took \in [Supplies -> Nat] /\ took[s] = r.took[s] + m.quantity
        /\ \A x \in Supplies : (x # s => took[x] = r.took[x]) /\ r.took[x] \in Nat
    BY <1>3 DEF Tasks
  <1>8. task' = [task EXCEPT ![c] = [r EXCEPT !.todo = todo, !.took = took, !.at = at]]
    BY <1>1, <1>2 DEF InventoryTypeOK, Tasks
  <1>9. PICK h \in [Supplies -> Writes] : /\ held' = [held EXCEPT ![c] = h] /\ h[s] = w
                                          /\ \A x \in Supplies : x # s => h[x] = held[c][x]
    <2> DEFINE h == [held[c] EXCEPT ![s] = w]
    <2>1. held' = [held EXCEPT ![c] = h]
      BY <1>2 DEF InventoryTypeOK
    <2> HIDE DEF w
    <2>2. h \in [Supplies -> Writes] /\ h[s] = w /\ \A x \in Supplies : x # s => h[x] = held[c][x]
      BY <1>3, <1>5 DEF InventoryTypeOK
    <2>3. QED
      BY <2>1, <2>2
  <1> HIDE DEF at, took, w
  <1>10. PICK t \in Tasks : /\ task' = [task EXCEPT ![c] = t]
                            /\ t.op = r.op /\ t.at = at /\ t.items = r.items /\ t.todo = todo
                            /\ t.owes = r.owes /\ t.took = took /\ t.broken = r.broken
    <2> DEFINE t == [r EXCEPT !.todo = todo, !.took = took, !.at = at]
    <2>1. t \in Tasks
      <3>1. todo \in SUBSET Moves
        BY DEF Tasks
      <3> HIDE DEF todo
      <3>2. QED
        BY <1>6, <1>7, <3>1 DEF Tasks
    <2>2. /\ t.op = r.op /\ t.at = at /\ t.items = r.items /\ t.todo = todo
          /\ t.owes = r.owes /\ t.took = took /\ t.broken = r.broken
      BY DEF Tasks
    <2>3. QED
      BY <1>8, <2>1, <2>2
  <1>11. r.op # "movement" => Owing(t)
    <2> SUFFICES ASSUME r.op # "movement" PROVE Owing(t)
      OBVIOUS
    <2>1. Owing(r)
      BY <1>4 DEF TaskKept
    <2>2. \A n \in todo : n.supply # s /\ n.supply \in Supplies
      BY <2>1 DEF Owing, Tasks, Moves
    <2>3. \A n \in todo : t.took[n.supply] + n.quantity = t.owes[n.supply]
      BY <1>7, <1>10, <2>1, <2>2 DEF Owing
    <2>4. t.took[s] = t.owes[s]
      BY <1>7, <1>10, <2>1 DEF Owing
    <2>5. ASSUME NEW x \in Supplies, \A n \in todo : n.supply # x, x # s PROVE t.took[x] = t.owes[x]
      <3>1. \A n \in r.todo : n.supply # x
        BY <2>5
      <3>2. QED
        BY <1>7, <1>10, <2>1, <2>5, <3>1 DEF Owing
    <2>6. QED
      BY <1>10, <2>1, <2>3, <2>4, <2>5 DEF Owing
  <1>12. TaskKept(t)
    BY <1>4, <1>6, <1>10, <1>11 DEF TaskKept
  <1>13. ASSUME NEW x \in Supplies
         PROVE  /\ h[x].written <=> t.took[x] > 0
                /\ h[x].written => /\ \A d \in Clerks \ {c} : ~held[d][x].written
                                   /\ Known(x) /\ Near(h[x].stock, h[x].ledger)
    <2>1. CASE x = s
      <3>1. \A d \in Clerks \ {c} : ~held[d][x].written
        BY <1>2, <2>1 DEF HeldByOther
      <3>2. QED
        BY <1>2, <1>3, <1>5, <1>7, <1>9, <1>10, <2>1, <3>1
    <2>2. CASE x # s
      BY <1>1, <1>7, <1>9, <1>10, <2>2 DEF InventoryTypeOK
    <2>3. QED
      BY <2>1, <2>2
  <1>14. AlertsCounted'
    <2>1. Alerting(t) => Alerting(task[c])
      BY <1>1, <1>2, <1>10 DEF Alerting
    <2>2. /\ Cardinality(Alertings)' <= Cardinality(Alertings)
          /\ Cardinality(Alertings) \in Nat /\ Cardinality(Alertings)' \in Nat
      BY <1>10, <2>1, AlertingsMove
    <2>3. QED
      BY <1>2, <2>2 DEF AlertsCounted, InventoryTypeOK
  <1>15. alertsDue' \in Nat /\ tasks' \in 0 .. MaxTasks /\ entries' \in 0 .. MaxEntries
    BY <1>2 DEF InventoryTypeOK
  <1>16. QED
    BY <1>2, <1>9, <1>10, <1>12, <1>13, <1>14, <1>15, RequestStep

\* A task that breaks leaves no row written.
LEMMA BreakTaskInv ==
    ASSUME InventoryInv, NEW c \in Clerks, task[c].at = "move", BreakTask(c)
    PROVE  InventoryInv'
  <1>1. PICK r \in Tasks : r = task[c]
    BY DEF InventoryInv, InventoryTypeOK
  <1> DEFINE at == IF r.op = "sale" THEN "alert" ELSE "done"
  <1>2. PICK t : t = [NoTask EXCEPT !.op = r.op, !.broken = TRUE, !.at = at]
    OBVIOUS
  <1>3. /\ task' = [task EXCEPT ![c] = t] /\ held' = [held EXCEPT ![c] = Nothing]
        /\ UNCHANGED <<supply, ledger, mapping, alertsDue, alerted, wasLow, tasks, entries>>
    BY <1>1, <1>2 DEF BreakTask
  <1>4. t = [op |-> r.op, at |-> at, items |-> <<>>, todo |-> {}, owes |-> [s \in Supplies |-> 0],
             took |-> [s \in Supplies |-> 0], broken |-> TRUE]
    BY <1>2 DEF NoTask
  <1>5. t \in Tasks
    BY <1>4 DEF Tasks
  <1>6. TaskKept(t) /\ t.took = [s \in Supplies |-> 0]
    BY <1>4 DEF TaskKept
  <1>7. Alerting(t) => Alerting(task[c])
    BY <1>1, <1>4 DEF Alerting
  <1>8. QED
    BY <1>3, <1>5, <1>6, <1>7, AbortStep

LEMMA RollBackTaskInv == ASSUME InventoryInv, NEW c \in Clerks, RollBackTask(c) PROVE InventoryInv'
  <1>1. PICK t \in Tasks : t = NoTask
    BY NoTaskKept
  <1>2. /\ task' = [task EXCEPT ![c] = t] /\ held' = [held EXCEPT ![c] = Nothing]
        /\ UNCHANGED <<supply, ledger, mapping, alertsDue, alerted, wasLow, tasks, entries>>
    BY <1>1 DEF RollBackTask
  <1>3. TaskKept(t) /\ t.took = [s \in Supplies |-> 0] /\ ~Alerting(t)
    BY <1>1, NoTaskKept
  <1>4. QED
    BY <1>2, <1>3, AbortStep

\* The goroutine takes the place of the upload among the alerts to come.
LEMMA StartAlertInv == ASSUME InventoryInv, NEW c \in Clerks, StartAlert(c) PROVE InventoryInv'
  <1> USE DEF InventoryInv
  <1>1. PICK r \in Tasks : r = task[c]
    BY DEF InventoryTypeOK
  <1>2. /\ r.at = "alert" /\ task' = [task EXCEPT ![c].at = "done"] /\ alertsDue' = alertsDue + 1
        /\ UNCHANGED <<supply, ledger, mapping, held, alerted, wasLow, tasks, entries>>
    BY <1>1 DEF StartAlert
  <1>3. PICK t \in Tasks : /\ task' = [task EXCEPT ![c] = t]
                           /\ t.op = r.op /\ t.at = "done" /\ t.items = r.items /\ t.todo = r.todo
                           /\ t.owes = r.owes /\ t.took = r.took /\ t.broken = r.broken
    <2> DEFINE t == [r EXCEPT !.at = "done"]
    <2>1. t \in Tasks /\ task' = [task EXCEPT ![c] = t]
      BY <1>1, <1>2 DEF Tasks, InventoryTypeOK
    <2>2. /\ t.op = r.op /\ t.at = "done" /\ t.items = r.items /\ t.todo = r.todo
          /\ t.owes = r.owes /\ t.took = r.took /\ t.broken = r.broken
      BY DEF Tasks
    <2>3. QED
      BY <2>1, <2>2
  <1>4. TaskKept(r)
    BY <1>1
  <1>5. TaskKept(t)
    BY <1>2, <1>3, <1>4 DEF TaskKept, Owing
  <1>6. AlertsCounted'
    <2>1. Alerting(task[c]) /\ ~Alerting(t)
      BY <1>1, <1>2, <1>3, <1>4 DEF Alerting, TaskKept
    <2>2. /\ Cardinality(Alertings)' <= Cardinality(Alertings) - 1
          /\ Cardinality(Alertings) \in Nat /\ Cardinality(Alertings)' \in Nat
      BY <1>3, <2>1, AlertingsMove
    <2>3. QED
      BY <1>2, <2>2 DEF AlertsCounted, InventoryTypeOK
  <1>7. alertsDue' \in Nat /\ tasks' \in 0 .. MaxTasks /\ entries' \in 0 .. MaxEntries /\ t.took = task[c].took
    BY <1>1, <1>2, <1>3 DEF InventoryTypeOK
  <1>8. QED
    BY <1>2, <1>3, <1>5, <1>6, <1>7, TaskStep

-----------------------------------------------------------------------------
(***************************************************************************)
(* The steps that are committed.                                           *)
(***************************************************************************)
LEMMA NoSupplyApart == NoSupply \notin Supply
  <1>1. "absent" \in DOMAIN NoSupply
    BY DEF NoSupply
  <1>2. \A x \in Supply : DOMAIN x = {"stock", "min", "active"}
    BY DEF Supply
  <1>3. QED
    BY <1>1, <1>2

\* Whatever is low when a step is committed was low in a committed state.
LEMMA CommittedLow ==
    ASSUME LowStock \subseteq wasLow, alerted \subseteq wasLow, wasLow \subseteq Supplies,
           Committed, alerted' = alerted
    PROVE  LowStock' \subseteq wasLow' /\ alerted' \subseteq wasLow' /\ wasLow' \subseteq Supplies
  BY DEF Committed, LowStock, Known

\* The commit makes of the rows what the request has written.
LEMMA CommitTaskInv == ASSUME InventoryInv, NEW c \in Clerks, CommitTask(c) PROVE InventoryInv'
  <1> USE DEF InventoryInv
  <1>1. /\ supply' = [s \in Supplies |->
                        IF held[c][s].written THEN [supply[s] EXCEPT !.stock = held[c][s].stock]
                        ELSE supply[s]]
        /\ ledger' = [s \in Supplies |-> LedgerSeen(c, s)]
        /\ Committed
        /\ held' = [held EXCEPT ![c] = Nothing]
        /\ task' = [task EXCEPT ![c] = NoTask]
        /\ UNCHANGED <<mapping, alertsDue, alerted, tasks, entries>>
    BY DEF CommitTask
  <1>2. ASSUME NEW s \in Supplies
        PROVE  /\ supply'[s] \in Supply \cup {NoSupply} /\ (Known(s) => supply'[s] \in Supply)
               /\ ledger'[s] \in Ledgers /\ (supply'[s] # NoSupply => Known(s) /\ Near(supply'[s].stock, ledger'[s]))
    <2>1. CASE held[c][s].written
      <3>1. PICK r \in Supply : r = supply[s] /\ Known(s)
        BY <2>1 DEF InventoryTypeOK, Known
      <3>2. PICK w \in Writes : w = held[c][s] /\ Near(w.stock, w.ledger)
        BY <2>1 DEF InventoryTypeOK
      <3>3. supply'[s] = [r EXCEPT !.stock = w.stock] /\ ledger'[s] = w.ledger
        BY <1>1, <2>1, <3>1, <3>2 DEF LedgerSeen
      <3>4. [r EXCEPT !.stock = w.stock] \in Supply /\ [r EXCEPT !.stock = w.stock].stock = w.stock
        BY DEF Supply, Writes
      <3>5. w.ledger \in Ledgers
        BY DEF Writes
      <3>6. QED
        BY <3>1, <3>2, <3>3, <3>4, <3>5
    <2>2. CASE ~held[c][s].written
      <3>1. supply'[s] = supply[s] /\ ledger'[s] = ledger[s]
        BY <1>1, <2>2 DEF LedgerSeen
      <3>2. QED
        BY <3>1 DEF InventoryTypeOK, LedgerExplainsStock, Near, Known
    <2>3. QED
      BY <2>1, <2>2
  <1>3. \A d \in Clerks : /\ task'[d] = IF d = c THEN NoTask ELSE task[d]
                          /\ held'[d] = IF d = c THEN Nothing ELSE held[d]
    BY <1>1 DEF InventoryTypeOK
  <1>4. /\ Nothing \in [Supplies -> Writes] /\ \A s \in Supplies : ~Nothing[s].written
        /\ NoTask \in Tasks /\ TaskKept(NoTask) /\ \A s \in Supplies : ~(NoTask.took[s] > 0)
    BY NoTaskKept DEF Nothing, Unwritten, Writes, Ledgers
  <1>5. LowStock' \subseteq wasLow' /\ alerted' \subseteq wasLow' /\ wasLow' \subseteq Supplies
    BY <1>1, CommittedLow DEF InventoryTypeOK
  <1>6. InventoryTypeOK'
    <2>1. supply' \in [Supplies -> Supply \cup {NoSupply}] /\ ledger' \in [Supplies -> Ledgers]
      BY <1>1, <1>2
    <2>2. task' \in [Clerks -> Tasks] /\ held' \in [Clerks -> [Supplies -> Writes]]
      BY <1>1, <1>3, <1>4 DEF InventoryTypeOK
    <2>3. ASSUME NEW d \in Clerks, NEW s \in Supplies
          PROVE  /\ held'[d][s].written <=> task'[d].took[s] > 0
                 /\ held'[d][s].written => ~\E e \in Clerks \ {d} : held'[e][s].written
      BY <1>3, <1>4 DEF InventoryTypeOK
    <2>4. QED
      BY <1>1, <1>5, <2>1, <2>2, <2>3 DEF InventoryTypeOK
  <1>7. \A d \in Clerks : TaskKept(task'[d])
    BY <1>3, <1>4
  <1>8. ASSUME NEW d \in Clerks, NEW s \in Supplies, held'[d][s].written
        PROVE  Known(s)' /\ Near(held'[d][s].stock, held'[d][s].ledger)
    <2>1. d # c /\ held'[d][s] = held[d][s]
      BY <1>3, <1>4, <1>8
    <2>2. Known(s) /\ Near(held[d][s].stock, held[d][s].ledger)
      BY <1>8, <2>1
    <2>3. QED
      BY <1>2, <2>1, <2>2, NoSupplyApart DEF Known
  <1>9. AlertsCounted'
    <2>1. /\ Cardinality(Alertings)' <= Cardinality(Alertings)
          /\ Cardinality(Alertings) \in Nat /\ Cardinality(Alertings)' \in Nat
      BY <1>1, NoTaskKept, AlertingsMove
    <2>2. QED
      BY <1>1, <2>1 DEF AlertsCounted, InventoryTypeOK
  <1>10. LedgerExplainsStock'
    BY <1>2 DEF LedgerExplainsStock, Known, Near
  <1>11. QED
    BY <1>5, <1>6, <1>7, <1>8, <1>9, <1>10

\* A request of one statement on the supply s: its row becomes r, its ledger l.
LEMMA EntryStep ==
    ASSUME InventoryInv, NEW s \in Supplies, NEW r \in Supply, NEW l \in Ledgers,
           supply' = [supply EXCEPT ![s] = r], ledger' = [ledger EXCEPT ![s] = l], Near(r.stock, l),
           Committed, UNCHANGED <<mapping, task, held, alertsDue, alerted, tasks>>, Entry
    PROVE  InventoryInv'
  <1> USE DEF InventoryInv
  <1>1. \A x \in Supplies : /\ supply'[x] = IF x = s THEN r ELSE supply[x]
                            /\ ledger'[x] = IF x = s THEN l ELSE ledger[x]
    BY DEF InventoryTypeOK
  <1>2. r # NoSupply
    BY NoSupplyApart
  <1>3. LowStock' \subseteq wasLow' /\ alerted' \subseteq wasLow' /\ wasLow' \subseteq Supplies
    BY CommittedLow DEF InventoryTypeOK
  <1>4. entries' = entries + 1 /\ entries' \in 0 .. MaxEntries
    BY TaskBoundsAssumption DEF Entry, InventoryTypeOK
  <1>5. InventoryTypeOK'
    <2>1. supply' \in [Supplies -> Supply \cup {NoSupply}] /\ ledger' \in [Supplies -> Ledgers]
      BY DEF InventoryTypeOK
    <2>2. QED
      BY <1>3, <1>4, <2>1 DEF InventoryTypeOK
  <1>6. \A d \in Clerks, x \in Supplies :
           held'[d][x].written => Known(x)' /\ Near(held'[d][x].stock, held'[d][x].ledger)
    BY <1>1, <1>2 DEF Known
  <1>7. AlertsCounted'
    <2>1. Cardinality(Alertings) \in Nat /\ Alertings' = Alertings
      <3>1. IsFiniteSet(Alertings)
        BY ClerksAssumption, FS_Subset DEF Alertings
      <3>2. QED
        BY <3>1, FS_CardinalityType DEF Alertings
    <2>2. QED
      BY <1>4, <2>1 DEF AlertsCounted, InventoryTypeOK
  <1>8. LedgerExplainsStock'
    <2> SUFFICES ASSUME NEW x \in Supplies, Known(x)' PROVE Near(supply'[x].stock, ledger'[x])
      BY DEF LedgerExplainsStock, Near
    <2>1. CASE x = s
      BY <1>1, <2>1
    <2>2. CASE x # s
      BY <1>1, <2>2 DEF Known, LedgerExplainsStock, Near
    <2>3. QED
      BY <2>1, <2>2
  <1>9. QED
    BY <1>3, <1>5, <1>6, <1>7, <1>8

LEMMA CreateSupplyInv ==
    ASSUME InventoryInv, NEW s \in Supplies, NEW min \in {0, Threshold}, CreateSupply(s, min)
    PROVE  InventoryInv'
  <1>1. PICK r \in Supply : r = [stock |-> FirstStock, min |-> min, active |-> TRUE] /\ r.stock = FirstStock
    <2>1. [stock |-> FirstStock, min |-> min, active |-> TRUE] \in Supply
      BY StockAssumption DEF Supply
    <2>2. QED
      BY <2>1
  <1>2. PICK l \in Ledgers : l = [sum |-> FirstStock, halves |-> 0] /\ l.sum = FirstStock /\ l.halves = 0
    <2>1. [sum |-> FirstStock, halves |-> 0] \in Ledgers
      BY StockAssumption DEF Ledgers
    <2>2. QED
      BY <2>1
  <1>3. Near(r.stock, l)
    BY <1>1, <1>2, StockAssumption DEF Near, Distance
  <1>4. QED
    BY <1>1, <1>2, <1>3, EntryStep DEF CreateSupply

LEMMA UpdateSupplyInv ==
    ASSUME InventoryInv, NEW s \in Supplies, NEW min \in {0, Threshold}, NEW active \in BOOLEAN,
           UpdateSupply(s, min, active)
    PROVE  InventoryInv'
  <1> USE DEF InventoryInv
  <1>1. PICK x \in Supply : x = supply[s]
    BY DEF UpdateSupply, InventoryTypeOK, Known
  <1>2. PICK r \in Supply : r = [x EXCEPT !.min = min, !.active = active] /\ r.stock = x.stock
    <2>1. [x EXCEPT !.min = min, !.active = active] \in Supply
      BY DEF Supply
    <2>2. [x EXCEPT !.min = min, !.active = active].stock = x.stock
      BY DEF Supply
    <2>3. QED
      BY <2>1, <2>2
  <1>3. PICK l \in Ledgers : l = ledger[s]
    BY DEF InventoryTypeOK
  <1>4. supply' = [supply EXCEPT ![s] = r]
    BY <1>1, <1>2 DEF UpdateSupply, InventoryTypeOK
  <1>5. ledger' = [ledger EXCEPT ![s] = l]
    BY <1>3 DEF UpdateSupply, InventoryTypeOK
  <1>6. Near(r.stock, l)
    BY <1>1, <1>2, <1>3 DEF UpdateSupply, LedgerExplainsStock, Near
  <1>7. QED
    BY <1>4, <1>5, <1>6, EntryStep DEF UpdateSupply

\* A sum stays within its bound when it grows by no more.
LEMMA BoundsMove ==
    \A k, n, d, e, f, g \in Nat : d + k <= n + e /\ g + e <= d + f => g + k <= n + f
  OBVIOUS

\* Mappings and alerts leave the stock alone.
LEMMA MappingStep ==
    ASSUME InventoryInv, mapping' \in [Services -> [Supplies -> Quantities \cup {0}]],
           alertsDue' \in Nat, alerted' \subseteq wasLow, entries' \in 0 .. MaxEntries,
           alertsDue' + entries <= alertsDue + entries',
           UNCHANGED <<supply, ledger, task, held, wasLow, tasks>>
    PROVE  InventoryInv'
  <1> USE DEF InventoryInv
  <1>1. Cardinality(Alertings) \in Nat /\ Alertings' = Alertings
    <2>1. IsFiniteSet(Alertings)
      BY ClerksAssumption, FS_Subset DEF Alertings
    <2>2. QED
      BY <2>1, FS_CardinalityType DEF Alertings
  <1>2. AlertsCounted'
    <2>1. PICK k \in Nat, n \in Nat, d \in Nat, e \in Nat, f \in Nat :
             /\ k = Cardinality(Alertings) /\ n = tasks /\ d = alertsDue
             /\ e = entries /\ f = entries' /\ d + k <= n + e
      BY <1>1 DEF AlertsCounted, InventoryTypeOK
    <2>2. Cardinality(Alertings') = k /\ tasks' = n
      BY <1>1, <2>1
    <2>3. PICK g \in Nat : g = alertsDue' /\ g + e <= d + f
      BY <2>1
    <2>4. g + k <= n + f
      BY <2>1, <2>3, BoundsMove
    <2>5. QED
      BY <2>1, <2>2, <2>3, <2>4 DEF AlertsCounted
  <1>3. alertsDue' \in 0 .. MaxTasks + MaxEntries
    BY <1>1, <1>2, TaskBoundsAssumption DEF AlertsCounted, InventoryTypeOK
  <1>4. InventoryTypeOK'
    BY <1>3 DEF InventoryTypeOK
  <1>5. QED
    BY <1>2, <1>4 DEF LowStock, Known, LedgerExplainsStock

LEMMA SetMappingInv ==
    ASSUME InventoryInv, NEW v \in Services, NEW s \in Supplies, NEW q \in Quantities \cup {0},
           SetMapping(v, s, q), Entry
    PROVE  InventoryInv'
  <1>1. mapping' \in [Services -> [Supplies -> Quantities \cup {0}]]
    BY DEF SetMapping, InventoryInv, InventoryTypeOK
  <1>2. entries' \in 0 .. MaxEntries /\ entries' = entries + 1 /\ entries \in Nat
    BY TaskBoundsAssumption DEF Entry, InventoryInv, InventoryTypeOK
  <1>3. alertsDue' = alertsDue /\ alertsDue \in Nat /\ alerted' \subseteq wasLow
    BY DEF SetMapping, InventoryInv, InventoryTypeOK
  <1>4. UNCHANGED <<supply, ledger, task, held, wasLow, tasks>>
    BY DEF SetMapping
  <1>5. QED
    BY <1>1, <1>2, <1>3, <1>4, MappingStep

LEMMA AlertsInv == InventoryInv /\ (DailyAlert \/ SendLowStockAlert) => InventoryInv'
  <1> SUFFICES ASSUME InventoryInv, DailyAlert \/ SendLowStockAlert PROVE InventoryInv'
    OBVIOUS
  <1>1. /\ mapping' = mapping /\ mapping \in [Services -> [Supplies -> Quantities \cup {0}]]
        /\ UNCHANGED <<supply, ledger, task, held, wasLow, tasks>>
    BY DEF DailyAlert, SendLowStockAlert, InventoryInv, InventoryTypeOK
  <1>2. alerted' \subseteq wasLow
    BY DEF DailyAlert, SendLowStockAlert, InventoryInv
  <1>3. /\ alertsDue' \in Nat /\ entries' \in 0 .. MaxEntries
        /\ alertsDue' + entries <= alertsDue + entries'
    BY TaskBoundsAssumption DEF DailyAlert, SendLowStockAlert, Entry, InventoryInv, InventoryTypeOK
  <1>4. QED
    BY <1>1, <1>2, <1>3, MappingStep

\* The invariant holds at first.
LEMMA InitInventory == InventoryInit => InventoryInv
  <1> SUFFICES ASSUME InventoryInit PROVE InventoryInv
    OBVIOUS
  <1> USE DEF InventoryInit
  <1>1. /\ Nothing \in [Supplies -> Writes] /\ \A s \in Supplies : ~Nothing[s].written
        /\ NoTask \in Tasks /\ TaskKept(NoTask) /\ ~Alerting(NoTask)
        /\ \A s \in Supplies : ~(NoTask.took[s] > 0)
    BY NoTaskKept DEF Nothing, Unwritten, Writes, Ledgers
  <1>2. PICK r \in Supply : r = [stock |-> FirstStock, min |-> Threshold, active |-> TRUE]
                            /\ r.stock = FirstStock /\ r.min = Threshold
    <2>1. [stock |-> FirstStock, min |-> Threshold, active |-> TRUE] \in Supply
      BY StockAssumption DEF Supply
    <2>2. QED
      BY <2>1
  <1>3. PICK l \in Ledgers : l = [sum |-> FirstStock, halves |-> 0] /\ l.sum = FirstStock /\ l.halves = 0
    <2>1. [sum |-> FirstStock, halves |-> 0] \in Ledgers
      BY StockAssumption DEF Ledgers
    <2>2. QED
      BY <2>1
  <1>4. supply = [s \in Supplies |-> r] /\ ledger = [s \in Supplies |-> l]
    BY <1>2, <1>3
  <1>5. mapping \in [Services -> [Supplies -> Quantities \cup {0}]]
    <2>1. \A q \in Quantities : [s \in Supplies |-> q] \in [Supplies -> Quantities \cup {0}]
      OBVIOUS
    <2>2. QED
      BY <2>1
  <1>6. InventoryTypeOK
    <2>1. task \in [Clerks -> Tasks] /\ held \in [Clerks -> [Supplies -> Writes]]
      BY <1>1
    <2>2. \A c \in Clerks : task[c] = NoTask /\ held[c] = Nothing
      OBVIOUS
    <2>3. ASSUME NEW c \in Clerks, NEW s \in Supplies
          PROVE  /\ held[c][s].written <=> task[c].took[s] > 0
                 /\ held[c][s].written => ~\E d \in Clerks \ {c} : held[d][s].written
      BY <1>1, <2>2
    <2>4. supply \in [Supplies -> Supply \cup {NoSupply}] /\ ledger \in [Supplies -> Ledgers]
      BY <1>4
    <2>5. /\ alertsDue \in 0 .. MaxTasks + MaxEntries /\ tasks \in 0 .. MaxTasks /\ entries \in 0 .. MaxEntries
          /\ alerted \subseteq Supplies /\ wasLow \subseteq Supplies
      BY TaskBoundsAssumption
    <2>6. QED
      BY <1>5, <2>1, <2>3, <2>4, <2>5 DEF InventoryTypeOK
  <1>7. \A c \in Clerks : TaskKept(task[c]) /\ \A s \in Supplies : ~held[c][s].written
    BY <1>1
  <1>8. AlertsCounted
    <2>1. Alertings = {}
      BY <1>1 DEF Alertings
    <2>2. QED
      BY <2>1, FS_EmptySet DEF AlertsCounted
  <1>9. LowStock \subseteq wasLow
    BY <1>2, <1>4 DEF LowStock
  <1>10. LedgerExplainsStock
    <2>1. Distance(r.stock, l.sum) <= l.halves
      BY <1>2, <1>3, StockAssumption DEF Distance
    <2>2. QED
      BY <1>4, <2>1 DEF LedgerExplainsStock
  <1>11. QED
    BY <1>6, <1>7, <1>8, <1>9, <1>10 DEF InventoryInv

\* Each action keeps it.
LEMMA NextInventory == InventoryInv /\ [InventoryNext]_inventoryVars => InventoryInv'
  <1> SUFFICES ASSUME InventoryInv, [InventoryNext]_inventoryVars PROVE InventoryInv'
    OBVIOUS
  <1>1. CASE InventoryRequest
    <2>1. ASSUME NEW s \in Supplies, NEW min \in {0, Threshold}, CreateSupply(s, min) PROVE InventoryInv'
      BY <2>1, CreateSupplyInv
    <2>2. ASSUME NEW s \in Supplies, NEW min \in {0, Threshold}, NEW active \in BOOLEAN,
                 UpdateSupply(s, min, active)
          PROVE  InventoryInv'
      BY <2>2, UpdateSupplyInv
    <2>3. ASSUME NEW v \in Services, NEW s \in Supplies, NEW q \in Quantities,
                 CreateMapping(v, s, q) \/ UpdateMapping(v, s, q)
          PROVE  InventoryInv'
      BY <2>3, SetMappingInv DEF CreateMapping, UpdateMapping
    <2>4. ASSUME NEW v \in Services, NEW s \in Supplies, DeleteMapping(v, s) PROVE InventoryInv'
      BY <2>4, SetMappingInv DEF DeleteMapping
    <2>5. QED
      BY <1>1, <2>1, <2>2, <2>3, <2>4, AlertsInv DEF InventoryRequest
  <1>2. CASE SendLowStockAlert
    BY <1>2, AlertsInv
  <1>3. ASSUME NEW c \in Clerks, NEW s \in Supplies, NEW kind \in Kinds, NEW q \in Quantities,
               RecordMovement(c, s, kind, q)
        PROVE  InventoryInv'
    BY <1>3, RecordMovementInv
  <1>4. ASSUME NEW c \in Clerks, NEW op \in {"sale", "order"}, NEW items \in ItemLists,
               DeductSale(c, op, items)
        PROVE  InventoryInv'
    BY <1>4, DeductSaleInv
  <1>5. ASSUME NEW c \in Clerks, ReadMappings(c) \/ MakeMovement(c) PROVE InventoryInv'
    BY <1>5, ReadMappingsInv, MakeMovementInv
  <1>6. ASSUME NEW c \in Clerks, MovementFails(c) \/ MovementDeadlock(c) PROVE InventoryInv'
    <2>1. task[c].at = "move" /\ BreakTask(c)
      BY <1>6 DEF MovementFails, MovementDeadlock, Awaits
    <2>2. QED
      BY <2>1, BreakTaskInv
  <1>7. ASSUME NEW c \in Clerks, StartAlert(c) \/ CommitTask(c) \/ RollBackTask(c) PROVE InventoryInv'
    BY <1>7, StartAlertInv, CommitTaskInv, RollBackTaskInv
  <1>8. CASE UNCHANGED inventoryVars
    BY <1>8 DEF inventoryVars, InventoryInv, InventoryTypeOK, AlertsCounted, Alertings, LowStock, Known,
                LedgerExplainsStock
  <1>9. QED
    BY <1>1, <1>2, <1>3, <1>4, <1>5, <1>6, <1>7, <1>8 DEF InventoryNext

\* What a request has read, written and still owes keeps its type, and no two hold
\* one supply (inventory_service.go:216-219).
THEOREM InventoryTypeCorrect == InventorySpec => []InventoryTypeOK
  <1>1. InventorySpec => []InventoryInv
    BY InitInventory, NextInventory, PTL DEF InventorySpec
  <1>2. InventoryInv => InventoryTypeOK
    BY DEF InventoryInv
  <1>3. QED
    BY <1>1, <1>2, PTL

\* It gives the ledger, and what is owed at the end of a request.
LEMMA AccountedByLedger == InventoryInv => StockAccounted
  <1> SUFFICES ASSUME InventoryInv PROVE StockAccounted
    OBVIOUS
  <1>1. SalesDeductWhole
    <2> SUFFICES ASSUME NEW c \in Clerks, task[c].at = "done", ~task[c].broken, task[c].op # "movement"
                 PROVE  task[c].took = task[c].owes
      BY DEF SalesDeductWhole
    <2>1. PICK t \in Tasks : t = task[c] /\ TaskKept(t)
      BY DEF InventoryInv, InventoryTypeOK
    <2>2. t.todo = {} /\ Owing(t)
      BY <2>1 DEF TaskKept
    <2>3. \A s \in Supplies : t.took[s] = t.owes[s]
      BY <2>2 DEF Owing
    <2>4. t.took \in [Supplies -> Nat] /\ t.owes \in [Supplies -> Nat]
      BY DEF Tasks
    <2>5. QED
      BY <2>1, <2>3, <2>4
  <1>2. QED
    BY <1>1 DEF InventoryInv, StockAccounted

\* The stock is what its movements add up to, but for a cent for each quantity with
\* half a one, and a sale takes what its mappings asked for, however requests interleave,
\* fail and are cancelled (inventory_service.go:175-227, 458-484, sync_service.go:399-418).
THEOREM StockIsAccounted == InventorySpec => []StockAccounted
  <1>1. InventorySpec => []InventoryInv
    BY InitInventory, NextInventory, PTL DEF InventorySpec
  <1>2. QED
    BY <1>1, AccountedByLedger, PTL

\* A supply that an alert was about was low in a committed state, and never only in
\* an upload that came to nothing (sync_service.go:424-445).
THEOREM AlertsAreTrue == InventorySpec => []AlertedWasLow
  <1>1. InventorySpec => []InventoryInv
    BY InitInventory, NextInventory, PTL DEF InventorySpec
  <1>2. InventoryInv => AlertedWasLow
    BY DEF InventoryInv, AlertedWasLow
  <1>3. QED
    BY <1>1, <1>2, PTL

-----------------------------------------------------------------------------
(***************************************************************************)
(* Summaries.  Days and times of the day.                                  *)
(***************************************************************************)
LEMMA DayOf ==
    \A m \in Int : /\ Day(m) \in Int /\ TimeOf(m) \in Times
                   /\ m = DayLength * Day(m) + TimeOf(m)
  BY DayAssumption DEF Day, TimeOf, Times

\* A day is over before the next one begins.
LEMMA DayIs ==
    ASSUME NEW m \in Int, NEW d \in Int, NEW x \in Times, m = DayLength * d + x
    PROVE  Day(m) = d /\ TimeOf(m) = x
  <1>1. /\ Day(m) \in Int /\ TimeOf(m) \in Times /\ m = DayLength * Day(m) + TimeOf(m)
    BY DayOf
  <1>2. PICK e \in Int, y \in Times : e = Day(m) /\ y = TimeOf(m)
    BY <1>1
  <1>3. DayLength * d + x = DayLength * e + y /\ x \in 0 .. DayLength - 1 /\ y \in 0 .. DayLength - 1
    BY <1>1, <1>2 DEF Times
  <1>4. DayLength * (d - e) = y - x
    BY <1>3, DayAssumption
  <1>5. ~(d - e >= 1)
    <2>1. d - e >= 1 => DayLength * (d - e) >= DayLength
      BY DayAssumption
    <2>2. QED
      BY <1>3, <1>4, <2>1, DayAssumption
  <1>6. ~(d - e <= -1)
    <2>1. d - e <= -1 => DayLength * (d - e) <= -DayLength
      BY DayAssumption
    <2>2. QED
      BY <1>3, <1>4, <2>1, DayAssumption
  <1>7. d = e /\ x = y
    BY <1>3, <1>5, <1>6, DayAssumption
  <1>8. QED
    BY <1>2, <1>7

\* Days follow one another as minutes do.
LEMMA DaysFollow == \A m, n \in Int : m <= n => Day(m) <= Day(n)
  <1> SUFFICES ASSUME NEW m \in Int, NEW n \in Int, m <= n, Day(m) > Day(n) PROVE FALSE
    BY DayOf
  <1>1. PICK d \in Int, x \in Times : d = Day(m) /\ x = TimeOf(m) /\ m = DayLength * d + x
    BY DayOf
  <1>2. PICK e \in Int, y \in Times : e = Day(n) /\ y = TimeOf(n) /\ n = DayLength * e + y
    BY DayOf
  <1>3. d - e >= 1
    BY <1>1, <1>2
  <1>4. DayLength * (d - e) >= DayLength
    BY <1>3, DayAssumption
  <1>5. DayLength * d >= DayLength * e + DayLength
    BY <1>4, DayAssumption
  <1>6. QED
    BY <1>1, <1>2, <1>5, DayAssumption DEF Times

LEMMA DaysOfMinutes ==
    /\ \A m \in Minutes : m \in Int /\ Day(m) \in Days
    /\ Day(NoMinute) = -1
  <1>1. LastMinute \in Int /\ 0 \in Int
    BY DayAssumption
  <1>2. Day(0) = 0
    BY DayIs, DayAssumption DEF Times
  <1>3. \A m \in Minutes : m \in Int /\ Day(m) \in Days
    BY <1>1, <1>2, DaysFollow, DayOf DEF Minutes, Days, Day
  <1>4. Day(NoMinute) = -1
    <2>1. -1 = DayLength * (-1) + (DayLength - 1) /\ DayLength - 1 \in Times
      BY DayAssumption DEF Times
    <2>2. QED
      BY <2>1, DayIs DEF NoMinute
  <1>5. QED
    BY <1>3, <1>4

-----------------------------------------------------------------------------
(***************************************************************************)
(* The inductive invariant.                                                *)
(***************************************************************************)
\* The tick in the channel is of a minute before the one to come, and the
\* summaries were begun by earlier ones.
TicksPast ==
    /\ ticked <= clock /\ (armed /\ ticked # NoMinute => ticked < clock)
    /\ \A x \in sending \cup sent :
          /\ x.tick <= x.begun /\ x.begun <= clock
          /\ armed => x.tick < clock
          /\ ticked # NoMinute => x.tick < ticked
    /\ \A x \in sending : clock <= x.begun + 1

\* The mark of a tenant is the latest one that a summary that went out has made.
MarksLatest ==
    /\ \A x \in sent : x.marked # NoMinute =>
          x.marked <= clock /\ settings[x.owner].last # NoMinute /\ x.marked <= settings[x.owner].last
    /\ \A t \in Owners : settings[t].last # NoMinute =>
          settings[t].last <= clock /\ \E z \in sent : z.owner = t /\ z.marked = settings[t].last

\* SecondOnlyUnmarked, of summaries under way as well.
Seconds ==
    \A x \in sent, y \in sending \cup sent :
        /\ x.owner = y.owner
        /\ x.marked # NoMinute /\ Day(x.marked) = Day(y.tick) /\ x.marked < y.begun
        => \E z \in sent : z.owner = y.owner /\ Day(z.marked) > Day(y.tick) /\ z.marked <= y.begun

\* Nothing has gone wrong for t since the day d began.
Calm(t, d) == \A e \in d .. Day(clock) : <<t, e>> \notin disturbed

Served(t, d) == \E x \in sent : x.owner = t /\ (Day(x.tick) = d \/ Day(x.marked) = d)

\* Once the minute m of the summary of t has come, its tick is in the channel, or
\* the summary is under way or has gone out.
Serving(t, m) ==
    Calm(t, Day(m)) /\ settings[t].enabled /\ settings[t].time = TimeOf(m)
    /\ (m < clock \/ (m = clock /\ ~armed)) =>
        \/ ticked = m /\ (clock = m \/ (clock = m + 1 /\ armed))
        \/ \E y \in sending : y.owner = t /\ y.tick = m
        \/ Served(t, Day(m))

\* A summary is begun on the day of its tick, or that day was disturbed.
BegunInTime ==
    \A y \in sending : Day(y.begun) = Day(y.tick) \/ <<y.owner, Day(y.tick)>> \in disturbed

LogsTrue == \A o \in Orders : notice[o].status = "sent" => notice[o].taken

SummariesInv ==
    /\ SummariesTypeOK
    /\ TicksPast
    /\ MarksLatest
    /\ Seconds
    /\ \A t \in Owners, m \in Minutes : Serving(t, m)
    /\ BegunInTime
    /\ LogsTrue

\* The invariant holds at first.
LEMMA InitSummaries == SummariesInit => SummariesInv
  <1> SUFFICES ASSUME SummariesInit PROVE SummariesInv
    OBVIOUS
  <1>1. SummariesTypeOK
    <2>1. [enabled: {TRUE}, time: Times, notify: {TRUE}, last: {NoMinute}] \subseteq Settings
      BY DEF Settings
    <2>2. settings \in [Owners -> Settings]
      BY <2>1 DEF SummariesInit
    <2>3. notice \in [Orders -> Notices]
      BY DEF SummariesInit, Notices, NoNotice
    <2>4. QED
      BY <2>2, <2>3, DayAssumption, SummaryBoundsAssumption DEF SummariesInit, SummariesTypeOK, Minutes
  <1>2. TicksPast /\ Seconds /\ BegunInTime /\ LogsTrue
    BY DEF SummariesInit, TicksPast, Seconds, BegunInTime, LogsTrue, NoMinute, NoNotice
  <1>3. MarksLatest
    BY DEF SummariesInit, MarksLatest
  <1>4. \A t \in Owners, m \in Minutes : Serving(t, m)
    BY DEF SummariesInit, Serving, Minutes
  <1>5. QED
    BY <1>1, <1>2, <1>3, <1>4 DEF SummariesInv

-----------------------------------------------------------------------------
(***************************************************************************)
(* The steps.                                                              *)
(***************************************************************************)
LEMMA Typed ==
    ASSUME SummariesTypeOK
    PROVE  /\ clock \in Int /\ clock >= 0 /\ Day(clock) \in Days
           /\ \A x \in sending \cup sent :
                 /\ x.owner \in Owners /\ x.tick \in Minutes /\ x.begun \in Minutes
                 /\ x.tick \in Int /\ x.begun \in Int
                 /\ Day(x.tick) \in Days /\ Day(x.begun) \in Days
           /\ \A x \in sent : x.marked \in Minutes \cup {NoMinute} /\ x.marked \in Int
           /\ \A t \in Owners : /\ settings[t].last \in Minutes \cup {NoMinute} /\ settings[t].last \in Int
                                /\ settings[t].time \in Times /\ settings[t].enabled \in BOOLEAN
           /\ ticked \in Int /\ NoMinute = -1 /\ Minutes \subseteq Int /\ Days \subseteq Int
           /\ \A m \in Minutes : m >= 0
  <1>1. Minutes \subseteq Int /\ Days \subseteq Int /\ NoMinute = -1 /\ \A m \in Minutes : m >= 0
    BY DayAssumption, DaysOfMinutes DEF Minutes, Days, NoMinute
  <1>2. \A x \in sending \cup sent : x.owner \in Owners /\ x.tick \in Minutes /\ x.begun \in Minutes
    BY DEF SummariesTypeOK, Sendings, Deliveries
  <1>3. \A x \in sent : x.marked \in Minutes \cup {NoMinute}
    BY DEF SummariesTypeOK, Deliveries
  <1>4. \A t \in Owners : /\ settings[t].last \in Minutes \cup {NoMinute}
                          /\ settings[t].time \in Times /\ settings[t].enabled \in BOOLEAN
    BY DEF SummariesTypeOK, Settings
  <1>5. clock \in Minutes /\ ticked \in Minutes \cup {NoMinute}
    BY DEF SummariesTypeOK
  <1>6. \A m \in Minutes : m \in Int /\ Day(m) \in Days
    BY DaysOfMinutes
  <1>7. clock \in Int /\ clock >= 0 /\ Day(clock) \in Days /\ ticked \in Int
    BY <1>1, <1>5, <1>6
  <1>8. \A x \in sending \cup sent :
           /\ x.tick \in Int /\ x.begun \in Int
           /\ Day(x.tick) \in Days /\ Day(x.begun) \in Days
    BY <1>2, <1>6
  <1>9. (\A x \in sent : x.marked \in Int) /\ \A t \in Owners : settings[t].last \in Int
    <2>1. Minutes \cup {NoMinute} \subseteq Int
      BY <1>1
    <2>2. QED
      BY <1>3, <1>4, <2>1
  <1>10. QED
    BY <1>1, <1>2, <1>3, <1>4, <1>7, <1>8, <1>9

\* The day that is disturbed is today.
LEMMA TodayDisturbed ==
    ASSUME SummariesTypeOK, disturbed' = disturbed \cup (Owners \X {Day(clock)})
    PROVE  /\ disturbed' \subseteq Owners \X Days /\ disturbed \subseteq disturbed'
           /\ \A t \in Owners : <<t, Day(clock)>> \in disturbed'
  <1>1. PICK d \in Days : d = Day(clock)
    BY Typed
  <1>2. disturbed' = disturbed \cup (Owners \X {d})
    BY <1>1
  <1>3. \A t \in Owners : <<t, d>> \in Owners \X {d}
    OBVIOUS
  <1>4. Owners \X {d} \subseteq Owners \X Days
    OBVIOUS
  <1>5. disturbed \subseteq Owners \X Days
    BY DEF SummariesTypeOK
  <1>6. QED
    BY <1>1, <1>2, <1>3, <1>4, <1>5

\* What is calm was calm before.
LEMMA CalmBefore ==
    ASSUME NEW t, NEW d \in Int, SummariesTypeOK, clock' \in Int, clock <= clock',
           disturbed \subseteq disturbed', Calm(t, d)'
    PROVE  /\ Calm(t, d)
           /\ \A e \in Int : d <= e /\ e <= Day(clock') => <<t, e>> \notin disturbed'
  <1>1. Day(clock) <= Day(clock') /\ Day(clock) \in Int /\ Day(clock') \in Int
    BY Typed, DaysFollow, DayOf
  <1>2. \A e \in d .. Day(clock') : <<t, e>> \notin disturbed'
    BY DEF Calm
  <1>3. QED
    BY <1>1, <1>2 DEF Calm

\* Time passes only when the tick of the minute has come.
LEMMA MinuteInv == SummariesInv /\ Minute => SummariesInv'
  <1> SUFFICES ASSUME SummariesInv, Minute PROVE SummariesInv'
    OBVIOUS
  <1> USE DEF SummariesInv
  <1>1. /\ clock' = clock + 1 /\ armed' = TRUE /\ ~armed /\ clock < LastMinute
        /\ UNCHANGED <<ticked, settings, sending, sent, disturbed, notice, mishaps, edited>>
        /\ \A x \in sending : x.begun = clock
    BY DEF Minute
  <1>2. SummariesTypeOK'
    BY <1>1, DayAssumption DEF SummariesTypeOK, Minutes
  <1>3. TicksPast'
    BY <1>1, Typed DEF TicksPast
  <1>4. MarksLatest'
    BY <1>1, Typed DEF MarksLatest
  <1>5. Seconds' /\ BegunInTime' /\ LogsTrue'
    BY <1>1 DEF Seconds, BegunInTime, LogsTrue
  <1>6. ASSUME NEW t \in Owners, NEW m \in Minutes PROVE Serving(t, m)'
    <2> SUFFICES ASSUME Calm(t, Day(m))', settings[t].enabled, settings[t].time = TimeOf(m), m < clock + 1
                 PROVE  \/ ticked = m /\ clock = m
                        \/ \E y \in sending : y.owner = t /\ y.tick = m
                        \/ Served(t, Day(m))
      BY <1>1, Typed DEF Serving, Served
    <2>1. Calm(t, Day(m))
      BY <1>1, Typed, DaysOfMinutes, CalmBefore
    <2>2. m < clock \/ (m = clock /\ ~armed)
      BY <1>1, Typed
    <2>3. QED
      BY <1>1, <2>1, <2>2 DEF Serving
  <1>7. QED
    BY <1>2, <1>3, <1>4, <1>5, <1>6

\* A tick is of this minute, or finds the channel full and disturbs the day.
LEMMA TickInv == SummariesInv /\ Tick => SummariesInv'
  <1> SUFFICES ASSUME SummariesInv, Tick PROVE SummariesInv'
    OBVIOUS
  <1> USE DEF SummariesInv
  <1>1. /\ armed /\ armed' = FALSE
        /\ UNCHANGED <<clock, settings, sending, sent, notice, mishaps, edited>>
        /\ \/ ticked = NoMinute /\ ticked' = clock /\ disturbed' = disturbed
           \/ ticked # NoMinute /\ ticked' = ticked
              /\ disturbed' = disturbed \cup (Owners \X {Day(clock)})
    BY DEF Tick, Disturb
  <1>2. SummariesTypeOK'
    BY <1>1, TodayDisturbed DEF SummariesTypeOK
  <1>3. TicksPast'
    BY <1>1, Typed DEF TicksPast
  <1>4. MarksLatest' /\ Seconds' /\ BegunInTime' /\ LogsTrue'
    BY <1>1 DEF MarksLatest, Seconds, BegunInTime, LogsTrue
  <1>5. ASSUME NEW t \in Owners, NEW m \in Minutes PROVE Serving(t, m)'
    <2> SUFFICES ASSUME Calm(t, Day(m))', settings[t].enabled, settings[t].time = TimeOf(m), m <= clock
                 PROVE  \/ ticked' = m /\ clock = m
                        \/ \E y \in sending : y.owner = t /\ y.tick = m
                        \/ Served(t, Day(m))
      BY <1>1, Typed DEF Serving, Served
    <2>1. /\ Calm(t, Day(m))
          /\ \A e \in Int : Day(m) <= e /\ e <= Day(clock) => <<t, e>> \notin disturbed'
      BY <1>1, Typed, DaysOfMinutes, CalmBefore
    <2>2. Day(m) <= Day(clock)
      BY Typed, DaysFollow
    <2>3. ticked = NoMinute /\ ticked' = clock
      <3>1. <<t, Day(clock)>> \notin disturbed'
        BY <2>1, <2>2, Typed
      <3>2. QED
        BY <1>1, <3>1, TodayDisturbed
    <2>4. CASE m = clock
      BY <2>3, <2>4
    <2>5. CASE m < clock
      BY <2>1, <2>3, <2>5, Typed DEF Serving
    <2>6. QED
      BY <2>4, <2>5, Typed
  <1>6. QED
    BY <1>2, <1>3, <1>4, <1>5

\* A restart disturbs the day of everyone.
LEMMA RestartServerInv == SummariesInv /\ RestartServer => SummariesInv'
  <1> SUFFICES ASSUME SummariesInv, RestartServer PROVE SummariesInv'
    OBVIOUS
  <1> USE DEF SummariesInv
  <1>1. /\ armed' = FALSE /\ ticked' = NoMinute /\ sending' = {}
        /\ UNCHANGED <<clock, settings, sent, edited>>
        /\ disturbed' = disturbed \cup (Owners \X {Day(clock)})
        /\ mishaps < MaxMishaps /\ mishaps' = mishaps + 1
    BY DEF RestartServer, Disturb, Mishap
  <1>2. notice' \in [Orders -> Notices] /\ LogsTrue'
    <2>1. notice' = [o \in Orders |->
                        IF notice[o].at \in {"sending", "logging"} THEN [notice[o] EXCEPT !.at = "none"]
                        ELSE notice[o]]
      BY DEF RestartServer
    <2>2. \A x \in Notices : /\ [x EXCEPT !.at = "none"] \in Notices
                             /\ [x EXCEPT !.at = "none"].status = x.status
                             /\ [x EXCEPT !.at = "none"].taken = x.taken
      BY DEF Notices
    <2>3. \A o \in Orders : /\ notice'[o] \in Notices
                            /\ notice'[o].status = notice[o].status
                            /\ notice'[o].taken = notice[o].taken
      BY <2>1, <2>2 DEF SummariesTypeOK
    <2>4. QED
      BY <2>1, <2>3 DEF LogsTrue
  <1>3. SummariesTypeOK'
    <2>1. disturbed' \subseteq Owners \X Days
      BY <1>1, TodayDisturbed
    <2>2. mishaps' \in 0 .. MaxMishaps
      BY <1>1, SummaryBoundsAssumption DEF SummariesTypeOK
    <2>3. QED
      BY <1>1, <1>2, <2>1, <2>2 DEF SummariesTypeOK
  <1>4. TicksPast'
    BY <1>1, Typed DEF TicksPast
  <1>5. MarksLatest' /\ Seconds' /\ BegunInTime'
    BY <1>1 DEF MarksLatest, Seconds, BegunInTime
  <1>6. ASSUME NEW t \in Owners, NEW m \in Minutes PROVE Serving(t, m)'
    <2> SUFFICES ASSUME Calm(t, Day(m))', m <= clock PROVE FALSE
      BY <1>1, Typed DEF Serving
    <2>1. \A e \in Int : Day(m) <= e /\ e <= Day(clock) => <<t, e>> \notin disturbed'
      BY <1>1, Typed, DaysOfMinutes, CalmBefore
    <2>2. Day(m) <= Day(clock)
      BY Typed, DaysFollow
    <2>3. <<t, Day(clock)>> \notin disturbed'
      BY <2>1, <2>2, Typed
    <2>4. QED
      BY <1>1, <2>3, TodayDisturbed
  <1>7. QED
    BY <1>2, <1>3, <1>4, <1>5, <1>6

\* The summaries that are due are begun; a tick that is taken on another day than
\* its own disturbs both.
LEMMA CheckAndSendInv == SummariesInv /\ CheckAndSendSummaries => SummariesInv'
  <1> SUFFICES ASSUME SummariesInv, CheckAndSendSummaries PROVE SummariesInv'
    OBVIOUS
  <1> USE DEF SummariesInv
  <1> DEFINE begun == {[owner |-> t, tick |-> ticked, begun |-> clock, at |-> "stats"] :
                          t \in {o \in Owners : Due(o, ticked)}}
  <1>1. /\ ticked # NoMinute /\ ticked' = NoMinute /\ sending' = sending \cup begun
        /\ disturbed' = IF Day(ticked) = Day(clock) THEN disturbed
                        ELSE disturbed \cup (Owners \X {Day(ticked), Day(clock)})
        /\ UNCHANGED <<clock, armed, settings, sent, notice, mishaps, edited>>
    BY DEF CheckAndSendSummaries
  <1>2. ticked \in Minutes /\ clock \in Minutes /\ Day(ticked) \in Days /\ Day(clock) \in Days
    BY <1>1, DaysOfMinutes DEF SummariesTypeOK
  <1>3. \A y \in begun : /\ y.owner \in Owners /\ Due(y.owner, ticked) /\ y.tick = ticked /\ y.begun = clock
                         /\ y = [owner |-> y.owner, tick |-> ticked, begun |-> clock, at |-> "stats"]
                         /\ y \in Sendings
    BY <1>2 DEF Sendings
  <1>4. \A t \in Owners : Due(t, ticked) => \E y \in begun : y.owner = t /\ y.tick = ticked
    <2> SUFFICES ASSUME NEW t \in Owners, Due(t, ticked)
                 PROVE  \E y \in begun : y.owner = t /\ y.tick = ticked
      OBVIOUS
    <2>1. [owner |-> t, tick |-> ticked, begun |-> clock, at |-> "stats"] \in begun
      OBVIOUS
    <2>2. QED
      BY <2>1
  <1> HIDE DEF begun
  <1>5. /\ disturbed \subseteq disturbed' /\ disturbed' \subseteq Owners \X Days
        /\ Day(ticked) # Day(clock) => \A t \in Owners : <<t, Day(ticked)>> \in disturbed'
    <2>1. PICK d \in Days, e \in Days : d = Day(ticked) /\ e = Day(clock)
      BY <1>2
    <2>2. disturbed' = IF d = e THEN disturbed ELSE disturbed \cup (Owners \X {d, e})
      BY <1>1, <2>1
    <2>3. \A t \in Owners : <<t, d>> \in Owners \X {d, e}
      OBVIOUS
    <2>4. Owners \X {d, e} \subseteq Owners \X Days
      OBVIOUS
    <2>5. QED
      BY <2>1, <2>2, <2>3, <2>4 DEF SummariesTypeOK
  <1>6. SummariesTypeOK'
    <2>1. sending' \subseteq Sendings
      BY <1>1, <1>3 DEF SummariesTypeOK
    <2>2. \A x, y \in sending' : x.owner = y.owner /\ x.tick = y.tick => x = y
      <3>1. \A x \in sending : x.tick < ticked /\ x.tick \in Int
        BY <1>1, Typed DEF TicksPast
      <3>2. ticked \in Int
        BY Typed
      <3>3. QED
        BY <1>1, <1>3, <3>1, <3>2 DEF SummariesTypeOK
    <2>3. QED
      BY <1>1, <1>5, <2>1, <2>2 DEF SummariesTypeOK
  <1>7. TicksPast'
    BY <1>1, <1>3, Typed DEF TicksPast
  <1>8. MarksLatest' /\ LogsTrue'
    BY <1>1 DEF MarksLatest, LogsTrue
  <1>9. Seconds'
    <2> SUFFICES ASSUME NEW x \in sent, NEW y \in begun, x.owner = y.owner, x.marked # NoMinute,
                        Day(x.marked) = Day(y.tick), x.marked < y.begun
                 PROVE  \E z \in sent : z.owner = y.owner /\ Day(z.marked) > Day(y.tick) /\ z.marked <= y.begun
      BY <1>1 DEF Seconds
    <2>1. PICK t \in Owners : t = x.owner
      BY Typed
    <2>2. x.marked <= settings[t].last /\ settings[t].last # NoMinute
      BY <2>1 DEF MarksLatest
    <2>3. PICK z \in sent : z.owner = t /\ z.marked = settings[t].last /\ z.marked <= clock
      BY <2>2 DEF MarksLatest
    <2>4. Day(z.marked) # Day(ticked)
      BY <1>3, <2>1, <2>2, <2>3 DEF Due, SentToday
    <2>5. Day(x.marked) <= Day(z.marked)
      BY <2>2, <2>3, Typed, DaysFollow
    <2>6. Day(z.marked) \in Int /\ Day(x.marked) \in Int
      BY Typed, DayOf
    <2>7. QED
      BY <1>3, <2>1, <2>3, <2>4, <2>5, <2>6
  <1>10. ASSUME NEW t \in Owners, NEW m \in Minutes PROVE Serving(t, m)'
    <2> SUFFICES ASSUME Calm(t, Day(m))', settings[t].enabled, settings[t].time = TimeOf(m),
                        m < clock \/ (m = clock /\ ~armed)
                 PROVE  \/ \E y \in sending' : y.owner = t /\ y.tick = m
                        \/ Served(t, Day(m))
      BY <1>1 DEF Serving, Served
    <2>1. /\ Calm(t, Day(m))
          /\ \A e \in Int : Day(m) <= e /\ e <= Day(clock) => <<t, e>> \notin disturbed'
      BY <1>1, <1>5, Typed, DaysOfMinutes, CalmBefore
    <2>2. CASE ticked # m
      BY <1>1, <2>1, <2>2 DEF Serving
    <2>3. CASE ticked = m
      <3>1. Day(ticked) = Day(clock)
        <4>1. Day(m) <= Day(clock) /\ Day(m) \in Int
          BY Typed, DaysFollow, DayOf
        <4>2. <<t, Day(m)>> \notin disturbed'
          BY <2>1, <4>1
        <4>3. QED
          BY <1>5, <2>3, <4>2
      <3>2. CASE SentToday(t, ticked)
        <4>1. PICK z \in sent : z.owner = t /\ z.marked = settings[t].last
          BY <3>2 DEF MarksLatest, SentToday
        <4>2. QED
          BY <2>3, <3>2, <4>1 DEF SentToday, Served
      <3>3. CASE ~SentToday(t, ticked)
        <4>1. Due(t, ticked)
          BY <2>3, <3>3 DEF Due
        <4>2. QED
          BY <1>1, <1>4, <2>3, <4>1
      <3>4. QED
        BY <3>2, <3>3
    <2>4. QED
      BY <2>2, <2>3
  <1>11. BegunInTime'
    <2>1. \A y \in sending : Day(y.begun) = Day(y.tick) \/ <<y.owner, Day(y.tick)>> \in disturbed'
      BY <1>5 DEF BegunInTime
    <2>2. \A y \in begun : Day(y.begun) = Day(y.tick) \/ <<y.owner, Day(y.tick)>> \in disturbed'
      BY <1>3, <1>5
    <2>3. QED
      BY <1>1, <2>1, <2>2 DEF BegunInTime
  <1>12. QED
    BY <1>6, <1>7, <1>8, <1>9, <1>10, <1>11

\* A tick that is lost on the way disturbs its day.
LEMMA SettingsUnreadInv == SummariesInv /\ SettingsUnread => SummariesInv'
  <1> SUFFICES ASSUME SummariesInv, SettingsUnread PROVE SummariesInv'
    OBVIOUS
  <1> USE DEF SummariesInv
  <1>1. /\ ticked # NoMinute /\ ticked' = NoMinute /\ mishaps < MaxMishaps /\ mishaps' = mishaps + 1
        /\ disturbed' = disturbed \cup (Owners \X {Day(ticked)})
        /\ UNCHANGED <<clock, armed, settings, sending, sent, notice, edited>>
    BY DEF SettingsUnread, Mishap
  <1>2. /\ disturbed \subseteq disturbed' /\ disturbed' \subseteq Owners \X Days
        /\ \A t \in Owners : <<t, Day(ticked)>> \in disturbed'
    <2>1. PICK d \in Days : d = Day(ticked)
      BY <1>1, DaysOfMinutes DEF SummariesTypeOK
    <2>2. disturbed' = disturbed \cup (Owners \X {d})
      BY <1>1, <2>1
    <2>3. (\A t \in Owners : <<t, d>> \in Owners \X {d}) /\ Owners \X {d} \subseteq Owners \X Days
      OBVIOUS
    <2>4. QED
      BY <2>1, <2>2, <2>3 DEF SummariesTypeOK
  <1>3. mishaps' \in 0 .. MaxMishaps
    BY <1>1, SummaryBoundsAssumption DEF SummariesTypeOK
  <1>4. SummariesTypeOK'
    BY <1>1, <1>2, <1>3 DEF SummariesTypeOK
  <1>5. TicksPast'
    BY <1>1, Typed DEF TicksPast
  <1>6. MarksLatest' /\ LogsTrue' /\ Seconds'
    BY <1>1 DEF MarksLatest, LogsTrue, Seconds
  <1>7. ASSUME NEW t \in Owners, NEW m \in Minutes PROVE Serving(t, m)'
    <2> SUFFICES ASSUME Calm(t, Day(m))', settings[t].enabled, settings[t].time = TimeOf(m),
                        m < clock \/ (m = clock /\ ~armed)
                 PROVE  \/ \E y \in sending : y.owner = t /\ y.tick = m
                        \/ Served(t, Day(m))
      BY <1>1 DEF Serving, Served
    <2>1. /\ Calm(t, Day(m))
          /\ \A e \in Int : Day(m) <= e /\ e <= Day(clock) => <<t, e>> \notin disturbed'
      BY <1>1, <1>2, Typed, DaysOfMinutes, CalmBefore
    <2>2. ticked # m
      <3>1. Day(m) <= Day(clock) /\ Day(m) \in Int
        BY Typed, DaysFollow, DayOf
      <3>2. <<t, Day(m)>> \notin disturbed'
        BY <2>1, <3>1
      <3>3. <<t, Day(ticked)>> \in disturbed'
        BY <1>2
      <3>4. QED
        BY <3>2, <3>3
    <2>3. QED
      BY <2>1, <2>2 DEF Serving
  <1>8. BegunInTime'
    BY <1>1, <1>2 DEF BegunInTime
  <1>9. QED
    BY <1>4, <1>5, <1>6, <1>7, <1>8

\* The summaries under way stay what they are, go out without a mark yet,
\* or are given up, which disturbs their day.
LEMMA WorkGoesOn ==
    ASSUME SummariesInv, UNCHANGED <<clock, armed, ticked, settings>>,
           disturbed \subseteq disturbed', sent \subseteq sent',
           \A y \in sending' : \E x \in sending :
              x.owner = y.owner /\ x.tick = y.tick /\ x.begun = y.begun,
           \A y \in sent' : y \in sent \/ (y.marked = NoMinute /\ \E x \in sending :
              x.owner = y.owner /\ x.tick = y.tick /\ x.begun = y.begun),
           \A x \in sending : \/ \E y \in sending' : y.owner = x.owner /\ y.tick = x.tick
                              \/ <<x.owner, Day(x.tick)>> \in disturbed'
    PROVE  /\ TicksPast' /\ MarksLatest' /\ Seconds' /\ BegunInTime'
           /\ \A t \in Owners, m \in Minutes : Serving(t, m)'
  <1> USE DEF SummariesInv
  <1>1. TicksPast'
    BY DEF TicksPast
  <1>2. MarksLatest'
    <2>1. \A x \in sent' : x.marked # NoMinute => x \in sent
      OBVIOUS
    <2>2. QED
      BY <2>1 DEF MarksLatest
  <1>3. Seconds'
    <2> SUFFICES ASSUME NEW x \in sent', NEW y \in sending' \cup sent', x.owner = y.owner,
                        x.marked # NoMinute, Day(x.marked) = Day(y.tick), x.marked < y.begun
                 PROVE  \E z \in sent' : z.owner = y.owner /\ Day(z.marked) > Day(y.tick) /\ z.marked <= y.begun
      BY DEF Seconds
    <2>1. x \in sent
      OBVIOUS
    <2>2. PICK w \in sending \cup sent : w.owner = y.owner /\ w.tick = y.tick /\ w.begun = y.begun
      OBVIOUS
    <2>3. QED
      BY <2>1, <2>2 DEF Seconds
  <1>4. BegunInTime'
    <2> SUFFICES ASSUME NEW y \in sending', Day(y.begun) # Day(y.tick)
                 PROVE  <<y.owner, Day(y.tick)>> \in disturbed'
      BY DEF BegunInTime
    <2>1. PICK x \in sending : x.owner = y.owner /\ x.tick = y.tick /\ x.begun = y.begun
      OBVIOUS
    <2>2. <<x.owner, Day(x.tick)>> \in disturbed
      BY <2>1 DEF BegunInTime
    <2>3. QED
      BY <2>1, <2>2
  <1>5. ASSUME NEW t \in Owners, NEW m \in Minutes PROVE Serving(t, m)'
    <2> SUFFICES ASSUME Calm(t, Day(m))', settings[t].enabled, settings[t].time = TimeOf(m),
                        m < clock \/ (m = clock /\ ~armed),
                        ~(ticked = m /\ (clock = m \/ (clock = m + 1 /\ armed)))
                 PROVE  \/ \E y \in sending' : y.owner = t /\ y.tick = m
                        \/ \E x \in sent' : x.owner = t /\ (Day(x.tick) = Day(m) \/ Day(x.marked) = Day(m))
      BY DEF Serving, Served
    <2>1. /\ Calm(t, Day(m))
          /\ \A e \in Int : Day(m) <= e /\ e <= Day(clock) => <<t, e>> \notin disturbed'
      BY Typed, DaysOfMinutes, CalmBefore
    <2>2. <<t, Day(m)>> \notin disturbed'
      <3>1. Day(m) <= Day(clock) /\ Day(m) \in Int
        BY Typed, DaysFollow, DayOf
      <3>2. QED
        BY <2>1, <3>1
    <2>3. CASE \E y \in sending : y.owner = t /\ y.tick = m
      <3>1. PICK y \in sending : y.owner = t /\ y.tick = m
        BY <2>3
      <3>2. <<y.owner, Day(y.tick)>> \notin disturbed'
        BY <2>2, <3>1
      <3>3. QED
        BY <3>1, <3>2
    <2>4. CASE Served(t, Day(m))
      BY <2>4 DEF Served
    <2>5. QED
      BY <2>1, <2>3, <2>4 DEF Serving
  <1>6. QED
    BY <1>1, <1>2, <1>3, <1>4, <1>5

\* The statistics are read.
LEMMA QueryStatsInv == SummariesInv /\ (\E x \in sending : QueryStats(x)) => SummariesInv'
  <1> SUFFICES ASSUME SummariesInv, NEW x \in sending, QueryStats(x) PROVE SummariesInv'
    OBVIOUS
  <1> USE DEF SummariesInv
  <1>1. /\ sending' = (sending \ {x}) \cup {[x EXCEPT !.at = "send"]}
        /\ UNCHANGED <<clock, armed, ticked, settings, sent, disturbed, notice, mishaps, edited>>
    BY DEF QueryStats, Move
  <1>2. SummariesTypeOK' /\ [x EXCEPT !.at = "send"].owner = x.owner
        /\ [x EXCEPT !.at = "send"].tick = x.tick /\ [x EXCEPT !.at = "send"].begun = x.begun
    BY <1>1 DEF SummariesTypeOK, Sendings
  <1>3. /\ TicksPast' /\ MarksLatest' /\ Seconds' /\ BegunInTime'
        /\ \A t \in Owners, m \in Minutes : Serving(t, m)'
    BY <1>1, <1>2, WorkGoesOn
  <1>4. QED
    BY <1>1, <1>2, <1>3 DEF LogsTrue

\* The message is taken.
LEMMA SendSummaryInv == SummariesInv /\ (\E x \in sending : SendSummary(x)) => SummariesInv'
  <1> SUFFICES ASSUME SummariesInv, NEW x \in sending, SendSummary(x) PROVE SummariesInv'
    OBVIOUS
  <1> USE DEF SummariesInv
  <1>1. /\ sending' = (sending \ {x}) \cup {[x EXCEPT !.at = "mark"]}
        /\ sent' = sent \cup {Delivered(x, NoMinute)}
        /\ UNCHANGED <<clock, armed, ticked, settings, disturbed, notice, mishaps, edited>>
    BY DEF SendSummary, Move
  <1>2. SummariesTypeOK' /\ [x EXCEPT !.at = "mark"].owner = x.owner
        /\ [x EXCEPT !.at = "mark"].tick = x.tick /\ [x EXCEPT !.at = "mark"].begun = x.begun
    BY <1>1 DEF SummariesTypeOK, Sendings, Deliveries, Delivered
  <1>3. /\ TicksPast' /\ MarksLatest' /\ Seconds' /\ BegunInTime'
        /\ \A t \in Owners, m \in Minutes : Serving(t, m)'
    <2>1. \A y \in sent' : y \in sent \/ (y.marked = NoMinute /\ \E w \in sending :
             w.owner = y.owner /\ w.tick = y.tick /\ w.begun = y.begun)
      <3>1. LET y == Delivered(x, NoMinute)
            IN y.marked = NoMinute /\ x.owner = y.owner /\ x.tick = y.tick /\ x.begun = y.begun
        BY DEF Delivered
      <3>2. QED
        BY <1>1, <3>1
    <2>2. \A y \in sending : \E w \in sending' : w.owner = y.owner /\ w.tick = y.tick
      BY <1>1, <1>2
    <2>3. \A y \in sending' : \E w \in sending :
             w.owner = y.owner /\ w.tick = y.tick /\ w.begun = y.begun
      BY <1>1, <1>2
    <2>4. sent \subseteq sent'
      BY <1>1
    <2>5. QED
      BY <1>1, <2>1, <2>2, <2>3, <2>4, WorkGoesOn
  <1>4. QED
    BY <1>1, <1>2, <1>3 DEF LogsTrue

\* The goroutine gives up.
LEMMA SummaryFailsInv == SummariesInv /\ (\E x \in sending : SummaryFails(x)) => SummariesInv'
  <1> SUFFICES ASSUME SummariesInv, NEW x \in sending, SummaryFails(x) PROVE SummariesInv'
    OBVIOUS
  <1> USE DEF SummariesInv
  <1>1. /\ sending' = sending \ {x}
        /\ sent' = sent \/ sent' = sent \cup {Delivered(x, NoMinute)}
        /\ disturbed' = disturbed \cup {<<x.owner, Day(x.tick)>>}
        /\ mishaps < MaxMishaps /\ mishaps' = mishaps + 1
        /\ UNCHANGED <<clock, armed, ticked, settings, notice, edited>>
    BY DEF SummaryFails, Drop, Mishap
  <1>2. SummariesTypeOK'
    <2>1. sent' \subseteq Deliveries
      BY <1>1 DEF SummariesTypeOK, Sendings, Deliveries, Delivered
    <2>2. disturbed' \subseteq Owners \X Days
      BY <1>1, Typed DEF SummariesTypeOK
    <2>3. mishaps' \in 0 .. MaxMishaps
      BY <1>1, SummaryBoundsAssumption DEF SummariesTypeOK
    <2>4. QED
      BY <1>1, <2>1, <2>2, <2>3 DEF SummariesTypeOK
  <1>3. /\ TicksPast' /\ MarksLatest' /\ Seconds' /\ BegunInTime'
        /\ \A t \in Owners, m \in Minutes : Serving(t, m)'
    <2>1. \A y \in sent' : y \in sent \/ (y.marked = NoMinute /\ \E w \in sending :
             w.owner = y.owner /\ w.tick = y.tick /\ w.begun = y.begun)
      <3>1. LET y == Delivered(x, NoMinute)
            IN y.marked = NoMinute /\ x.owner = y.owner /\ x.tick = y.tick /\ x.begun = y.begun
        BY DEF Delivered
      <3>2. QED
        BY <1>1, <3>1
    <2>2. \A y \in sending : \/ \E w \in sending' : w.owner = y.owner /\ w.tick = y.tick
                             \/ <<y.owner, Day(y.tick)>> \in disturbed'
      BY <1>1
    <2>3. sent \subseteq sent' /\ disturbed \subseteq disturbed' /\ sending' \subseteq sending
      BY <1>1
    <2>4. QED
      BY <1>1, <2>1, <2>2, <2>3, WorkGoesOn
  <1>4. QED
    BY <1>1, <1>2, <1>3 DEF LogsTrue

\* The mark is the latest of all marks.
LEMMA MarkSentInv == SummariesInv /\ (\E x \in sending : MarkSent(x)) => SummariesInv'
  <1> SUFFICES ASSUME SummariesInv, NEW x \in sending, MarkSent(x) PROVE SummariesInv'
    OBVIOUS
  <1> USE DEF SummariesInv
  <1> DEFINE old == Delivered(x, NoMinute)
             new == Delivered(x, clock)
  <1>1. /\ settings' = [settings EXCEPT ![x.owner].last = clock]
        /\ sent' = (sent \ {old}) \cup {new}
        /\ sending' = sending \ {x}
        /\ UNCHANGED <<clock, armed, ticked, disturbed, notice, mishaps, edited>>
    BY DEF MarkSent, Drop
  <1>2. /\ old.owner = x.owner /\ old.tick = x.tick /\ old.begun = x.begun /\ old.marked = NoMinute
        /\ new.owner = x.owner /\ new.tick = x.tick /\ new.begun = x.begun /\ new.marked = clock
        /\ clock # NoMinute
    BY Typed DEF Delivered
  <1>3. new \in Deliveries
    BY Typed DEF SummariesTypeOK, Deliveries, Delivered
  <1> HIDE DEF old, new
  <1>4. \A t \in Owners : /\ settings'[t] \in Settings
                          /\ t = x.owner => settings'[t].last = clock
                          /\ t # x.owner => settings'[t].last = settings[t].last
                          /\ settings'[t].time = settings[t].time
                          /\ settings'[t].enabled = settings[t].enabled
    <2>1. \A r \in Settings : /\ [r EXCEPT !.last = clock] \in Settings
                              /\ [r EXCEPT !.last = clock].last = clock
                              /\ [r EXCEPT !.last = clock].time = r.time
                              /\ [r EXCEPT !.last = clock].enabled = r.enabled
      BY DEF SummariesTypeOK, Settings
    <2>2. \A t \in Owners : settings'[t] = IF t = x.owner THEN [settings[t] EXCEPT !.last = clock]
                                          ELSE settings[t]
      BY <1>1 DEF SummariesTypeOK
    <2>3. ASSUME NEW t \in Owners
          PROVE  /\ settings'[t] \in Settings
                 /\ t = x.owner => settings'[t].last = clock
                 /\ t # x.owner => settings'[t].last = settings[t].last
                 /\ settings'[t].time = settings[t].time
                 /\ settings'[t].enabled = settings[t].enabled
      <3>1. settings[t] \in Settings
        BY DEF SummariesTypeOK
      <3>2. CASE t = x.owner
        BY <2>1, <2>2, <3>1, <3>2
      <3>3. CASE t # x.owner
        BY <2>2, <3>1, <3>3
      <3>4. QED
        BY <3>2, <3>3
    <2>4. QED
      BY <2>3
  <1>5. SummariesTypeOK'
    <2>1. settings' \in [Owners -> Settings]
      BY <1>1, <1>4 DEF SummariesTypeOK
    <2>2. QED
      BY <1>1, <1>3, <2>1 DEF SummariesTypeOK
  <1>6. TicksPast'
    BY <1>1, <1>2, Typed DEF TicksPast
  <1>7. MarksLatest'
    <2>1. \A y \in sent' : y.marked # NoMinute =>
             /\ y.marked <= clock
             /\ settings'[y.owner].last # NoMinute /\ y.marked <= settings'[y.owner].last
      BY <1>1, <1>2, <1>4, Typed DEF MarksLatest
    <2>2. ASSUME NEW t \in Owners, settings'[t].last # NoMinute
          PROVE  settings'[t].last <= clock /\ \E z \in sent' : z.owner = t /\ z.marked = settings'[t].last
      <3>1. CASE t = x.owner
        BY <1>1, <1>2, <1>4, <3>1, Typed
      <3>2. CASE t # x.owner
        <4>1. settings'[t].last = settings[t].last
          BY <1>4, <3>2
        <4>2. PICK z \in sent : z.owner = t /\ z.marked = settings[t].last /\ settings[t].last <= clock
          BY <2>2, <4>1 DEF MarksLatest
        <4>3. z \in sent'
          BY <1>1, <1>2, <3>2, <4>2
        <4>4. QED
          BY <4>1, <4>2, <4>3
      <3>3. QED
        BY <3>1, <3>2
    <2>3. QED
      BY <1>1, <2>1, <2>2 DEF MarksLatest
  <1>8. Seconds'
    <2> SUFFICES ASSUME NEW v \in sent', NEW y \in sending' \cup sent', v.owner = y.owner,
                        v.marked # NoMinute, Day(v.marked) = Day(y.tick), v.marked < y.begun
                 PROVE  \E z \in sent' : z.owner = y.owner /\ Day(z.marked) > Day(y.tick) /\ z.marked <= y.begun
      BY DEF Seconds
    <2>1. PICK w \in sending \cup sent : w.owner = y.owner /\ w.tick = y.tick /\ w.begun = y.begun
      BY <1>1, <1>2
    <2>2. v \in sent
      <3>1. w.begun <= clock /\ w.begun \in Int /\ clock \in Int
        BY Typed DEF TicksPast
      <3>2. v # new
        BY <1>2, <2>1, <3>1
      <3>3. QED
        BY <1>1, <3>2
    <2>3. PICK z \in sent : z.owner = y.owner /\ Day(z.marked) > Day(y.tick) /\ z.marked <= y.begun
      BY <2>1, <2>2 DEF Seconds
    <2>4. Day(w.tick) \in Int /\ Day(w.tick) >= 0
      BY Typed DEF Days
    <2>5. z # old
      BY <1>2, <2>1, <2>3, <2>4, DaysOfMinutes
    <2>6. QED
      BY <1>1, <2>3, <2>5
  <1>9. BegunInTime'
    BY <1>1 DEF BegunInTime
  <1>10. ASSUME NEW t \in Owners, NEW m \in Minutes PROVE Serving(t, m)'
    <2> SUFFICES ASSUME Calm(t, Day(m)), settings[t].enabled, settings[t].time = TimeOf(m),
                        m < clock \/ (m = clock /\ ~armed),
                        ~(ticked = m /\ (clock = m \/ (clock = m + 1 /\ armed)))
                 PROVE  \/ \E y \in sending' : y.owner = t /\ y.tick = m
                        \/ \E y \in sent' : y.owner = t /\ (Day(y.tick) = Day(m) \/ Day(y.marked) = Day(m))
      BY <1>1, <1>4 DEF Serving, Served, Calm
    <2>1. CASE \E y \in sending : y.owner = t /\ y.tick = m
      BY <1>1, <1>2, <2>1
    <2>2. CASE Served(t, Day(m))
      <3>1. PICK y \in sent : y.owner = t /\ (Day(y.tick) = Day(m) \/ Day(y.marked) = Day(m))
        BY <2>2 DEF Served
      <3>2. Day(NoMinute) # Day(m)
        <4>1. Day(m) \in Int /\ Day(m) >= 0
          BY DaysOfMinutes DEF Days
        <4>2. QED
          BY <4>1, DaysOfMinutes
      <3>3. CASE y = old
        BY <1>1, <1>2, <3>1, <3>2, <3>3
      <3>4. CASE y # old
        BY <1>1, <3>1, <3>4
      <3>5. QED
        BY <3>3, <3>4
    <2>3. QED
      BY <2>1, <2>2 DEF Serving
  <1>11. QED
    BY <1>1, <1>5, <1>6, <1>7, <1>8, <1>9, <1>10 DEF LogsTrue

\* An edit disturbs the day of its owner and leaves the mark alone.
LEMMA UpsertSettingsInv ==
    ASSUME SummariesInv, NEW t \in Owners, NEW enabled \in BOOLEAN, NEW notify \in BOOLEAN,
           NEW time \in Times, UpsertSettings(t, enabled, time, notify)
    PROVE  SummariesInv'
  <1> USE DEF SummariesInv
  <1>1. /\ edited < MaxSettings /\ edited' = edited + 1
        /\ settings' = [settings EXCEPT ![t].enabled = enabled, ![t].time = time, ![t].notify = notify]
        /\ disturbed' = disturbed \cup ({t} \X {Day(clock)})
        /\ UNCHANGED <<clock, armed, ticked, sending, sent, notice, mishaps>>
    BY DEF UpsertSettings, Disturb
  <1>2. \A u \in Owners : /\ settings'[u] \in Settings
                          /\ settings'[u].last = settings[u].last
                          /\ u # t => settings'[u] = settings[u]
    <2> DEFINE edit(r) == [r EXCEPT !.enabled = enabled, !.time = time, !.notify = notify]
    <2>1. \A r \in Settings : edit(r) \in Settings /\ edit(r).last = r.last
      BY DEF Settings
    <2>2. settings' = [settings EXCEPT ![t] = edit(settings[t])]
      BY <1>1 DEF SummariesTypeOK
    <2> HIDE DEF edit
    <2>3. QED
      BY <2>1, <2>2 DEF SummariesTypeOK
  <1>3. /\ disturbed \subseteq disturbed' /\ disturbed' \subseteq Owners \X Days
        /\ <<t, Day(clock)>> \in disturbed'
    <2>1. PICK d \in Days : d = Day(clock)
      BY Typed
    <2>2. disturbed' = disturbed \cup ({t} \X {d})
      BY <1>1, <2>1
    <2>3. <<t, d>> \in {t} \X {d} /\ {t} \X {d} \subseteq Owners \X Days
      OBVIOUS
    <2>4. QED
      BY <2>1, <2>2, <2>3 DEF SummariesTypeOK
  <1>4. SummariesTypeOK'
    <2>1. settings' \in [Owners -> Settings]
      <3>1. settings' = [u \in Owners |-> settings'[u]]
        BY <1>1 DEF SummariesTypeOK
      <3>2. QED
        BY <1>2, <3>1
    <2>2. edited' \in 0 .. MaxSettings
      BY <1>1, SummaryBoundsAssumption DEF SummariesTypeOK
    <2>3. QED
      BY <1>1, <1>3, <2>1, <2>2 DEF SummariesTypeOK
  <1>5. TicksPast' /\ Seconds' /\ LogsTrue'
    BY <1>1 DEF TicksPast, Seconds, LogsTrue
  <1>6. BegunInTime'
    BY <1>1, <1>3 DEF BegunInTime
  <1>7. MarksLatest'
    <2>1. \A u \in Owners : settings'[u].last = settings[u].last
      BY <1>2
    <2>2. \A x \in sent : x.owner \in Owners
      BY Typed
    <2>3. \A x \in sent : x.marked # NoMinute =>
             x.marked <= clock /\ settings'[x.owner].last # NoMinute /\ x.marked <= settings'[x.owner].last
      <3> SUFFICES ASSUME NEW x \in sent, x.marked # NoMinute
                   PROVE  x.marked <= clock /\ settings'[x.owner].last # NoMinute
                          /\ x.marked <= settings'[x.owner].last
        OBVIOUS
      <3>1. settings'[x.owner].last = settings[x.owner].last
        BY <2>1, <2>2
      <3>2. QED
        BY <3>1 DEF MarksLatest
    <2>4. \A u \in Owners : settings'[u].last # NoMinute =>
             settings'[u].last <= clock /\ \E z \in sent : z.owner = u /\ z.marked = settings'[u].last
      <3> SUFFICES ASSUME NEW u \in Owners, settings'[u].last # NoMinute
                   PROVE  settings'[u].last <= clock /\ \E z \in sent : z.owner = u /\ z.marked = settings'[u].last
        OBVIOUS
      <3>1. settings'[u].last = settings[u].last
        BY <2>1
      <3>2. QED
        BY <3>1 DEF MarksLatest
    <2>5. QED
      BY <1>1, <2>3, <2>4 DEF MarksLatest
  <1>8. ASSUME NEW u \in Owners, NEW m \in Minutes PROVE Serving(u, m)'
    <2> SUFFICES ASSUME Calm(u, Day(m))', settings'[u].enabled, settings'[u].time = TimeOf(m),
                        m < clock \/ (m = clock /\ ~armed),
                        ~(ticked = m /\ (clock = m \/ (clock = m + 1 /\ armed)))
                 PROVE  \/ \E y \in sending : y.owner = u /\ y.tick = m
                        \/ Served(u, Day(m))
      BY <1>1 DEF Serving, Served
    <2>1. /\ Calm(u, Day(m))
          /\ \A e \in Int : Day(m) <= e /\ e <= Day(clock) => <<u, e>> \notin disturbed'
      BY <1>1, <1>3, Typed, DaysOfMinutes, CalmBefore
    <2>2. u # t
      <3>1. Day(m) <= Day(clock) /\ Day(clock) \in Int
        BY Typed, DaysFollow, DayOf
      <3>2. <<u, Day(clock)>> \notin disturbed'
        BY <2>1, <3>1
      <3>3. QED
        BY <1>3, <3>2
    <2>3. settings'[u] = settings[u]
      BY <1>2, <2>2
    <2>4. QED
      BY <2>1, <2>3 DEF Serving
  <1>9. QED
    BY <1>4, <1>5, <1>6, <1>7, <1>8

\* The messages on orders leave the daily summaries alone.
LEMMA NoticesInv ==
    ASSUME SummariesInv, notice' \in [Orders -> Notices], LogsTrue', mishaps' \in 0 .. MaxMishaps,
           UNCHANGED <<clock, armed, ticked, settings, sending, sent, disturbed, edited>>
    PROVE  SummariesInv'
  <1> USE DEF SummariesInv
  <1>1. SummariesTypeOK'
    BY DEF SummariesTypeOK
  <1>2. TicksPast' /\ MarksLatest' /\ Seconds' /\ BegunInTime'
    BY DEF TicksPast, MarksLatest, Seconds, BegunInTime
  <1>3. \A t \in Owners, m \in Minutes : Serving(t, m)'
    BY DEF Serving, Served, Calm
  <1>4. QED
    BY <1>1, <1>2, <1>3

LEMMA NoticeStepInv ==
    ASSUME SummariesInv, NEW o \in Orders,
           (\E t \in Owners : NotifyOrderStatus(o, t)) \/ SendNotice(o) \/ NoticeFails(o) \/ LogNotice(o)
    PROVE  SummariesInv'
  <1> USE DEF SummariesInv
  <1>1. /\ UNCHANGED <<clock, armed, ticked, settings, sending, sent, disturbed, edited>>
        /\ mishaps' \in 0 .. MaxMishaps
    BY SummaryBoundsAssumption
    DEF NotifyOrderStatus, SendNotice, NoticeFails, LogNotice, Mishap, SummariesTypeOK
  <1>2. PICK n \in Notices : notice' = [notice EXCEPT ![o] = n] /\ (n.status = "sent" => n.taken)
    <2> DEFINE Log(n) == notice' = [notice EXCEPT ![o] = n]
    <2>1. CASE \E t \in Owners : NotifyOrderStatus(o, t)
      <3>1. Log([at |-> "sending", taken |-> FALSE, status |-> "-"])
        BY <2>1 DEF NotifyOrderStatus, NoNotice
      <3>2. [at |-> "sending", taken |-> FALSE, status |-> "-"] \in Notices
        BY DEF Notices
      <3>3. QED
        BY <3>1, <3>2
    <2>2. CASE SendNotice(o)
      <3>1. Log([at |-> "logging", taken |-> TRUE, status |-> "sent"])
        BY <2>2 DEF SendNotice
      <3>2. [at |-> "logging", taken |-> TRUE, status |-> "sent"] \in Notices
        BY DEF Notices
      <3>3. QED
        BY <3>1, <3>2
    <2>3. CASE NoticeFails(o)
      <3>1. PICK b \in BOOLEAN : Log([at |-> "logging", taken |-> b, status |-> "failed"])
        BY <2>3 DEF NoticeFails
      <3>2. [at |-> "logging", taken |-> b, status |-> "failed"] \in Notices
        BY DEF Notices
      <3>3. QED
        BY <3>1, <3>2
    <2>4. CASE LogNotice(o)
      <3>1. PICK r \in Notices : r = notice[o]
        BY DEF SummariesTypeOK
      <3>2. Log([r EXCEPT !.at = "logged"])
        BY <2>4, <3>1 DEF LogNotice, SummariesTypeOK
      <3>3. /\ [r EXCEPT !.at = "logged"] \in Notices
            /\ [r EXCEPT !.at = "logged"].status = r.status
            /\ [r EXCEPT !.at = "logged"].taken = r.taken
        BY DEF Notices
      <3>4. r.status = "sent" => r.taken
        BY <3>1 DEF LogsTrue
      <3>5. QED
        BY <3>2, <3>3, <3>4
    <2>5. QED
      BY <2>1, <2>2, <2>3, <2>4
  <1>3. notice' \in [Orders -> Notices] /\ LogsTrue'
    BY <1>2 DEF SummariesTypeOK, LogsTrue
  <1>4. QED
    BY <1>1, <1>3, NoticesInv

\* Each action keeps it.
LEMMA NextSummaries == SummariesInv /\ [SummariesNext]_summaryVars => SummariesInv'
  <1> SUFFICES ASSUME SummariesInv, [SummariesNext]_summaryVars PROVE SummariesInv'
    OBVIOUS
  <1>1. CASE Minute \/ Tick \/ RestartServer
    BY <1>1, MinuteInv, TickInv, RestartServerInv
  <1>2. CASE CheckAndSendSummaries \/ SettingsUnread
    BY <1>2, CheckAndSendInv, SettingsUnreadInv
  <1>3. CASE \E x \in sending : QueryStats(x) \/ SendSummary(x) \/ SummaryFails(x) \/ MarkSent(x)
    BY <1>3, QueryStatsInv, SendSummaryInv, SummaryFailsInv, MarkSentInv
  <1>4. CASE \E t \in Owners, enabled, notify \in BOOLEAN, time \in Times :
                UpsertSettings(t, enabled, time, notify)
    BY <1>4, UpsertSettingsInv
  <1>5. CASE \E o \in Orders : \/ \E t \in Owners : NotifyOrderStatus(o, t)
                             \/ SendNotice(o) \/ NoticeFails(o) \/ LogNotice(o)
    BY <1>5, NoticeStepInv
  <1>6. CASE UNCHANGED summaryVars
    <2>1. UNCHANGED <<clock, armed, ticked, settings, sending, sent, disturbed, notice, mishaps, edited>>
      BY <1>6 DEF summaryVars
    <2>2. QED
      BY <2>1, NoticesInv DEF SummariesInv, SummariesTypeOK, LogsTrue
  <1>7. QED
    BY <1>1, <1>2, <1>3, <1>4, <1>5, <1>6 DEF SummariesNext, DailyNext, NoticesNext

\* Clocks, settings, runs and logs keep their types, over any number of days and
\* restarts (scheduler.go:23-88).
THEOREM SummariesTypeCorrect == SummariesSpec => []SummariesTypeOK
  <1>1. SummariesSpec => []SummariesInv
    BY InitSummaries, NextSummaries, PTL DEF SummariesSpec
  <1>2. SummariesInv => SummariesTypeOK
    BY DEF SummariesInv
  <1>3. QED
    BY <1>1, <1>2, PTL

\* Its parts on seconds and on logs are what is remembered.
LEMMA RememberedBySeconds == SummariesInv => MessagesRemembered
  <1> SUFFICES ASSUME SummariesInv PROVE MessagesRemembered
    OBVIOUS
  <1>1. SecondOnlyUnmarked
    BY DEF SummariesInv, Seconds, SecondOnlyUnmarked
  <1>2. LoggedSentWasTaken
    BY DEF SummariesInv, LogsTrue, LoggedSentWasTaken
  <1>3. QED
    BY <1>1, <1>2 DEF MessagesRemembered

\* A second summary in a day has a reason, and what is logged as sent was
\* taken, for any number of days, of owners and of mishaps
\* (notification_service.go:188-298).
THEOREM MessagesAreRemembered == SummariesSpec => []MessagesRemembered
  <1>1. SummariesSpec => []SummariesInv
    BY InitSummaries, NextSummaries, PTL DEF SummariesSpec
  <1>2. QED
    BY <1>1, RememberedBySeconds, PTL

\* A day without a disturbance is one of its days that were served.
LEMMA ServedWhenCalm == SummariesInv => SummaryUnlessDisturbed
  <1> SUFFICES ASSUME SummariesInv, NEW t \in Owners, NEW d \in Days, Day(clock - 1) > d,
                      settings[t].enabled, \A e \in d .. Day(clock) : <<t, e>> \notin disturbed
               PROVE  \E x \in sent : x.owner = t /\ (Day(x.tick) = d \/ Day(x.marked) = d)
    BY DEF SummaryUnlessDisturbed
  <1> USE DEF SummariesInv
  <1>1. PICK time \in Times : time = settings[t].time
    BY Typed
  <1>2. d \in Int /\ d >= 0 /\ clock \in Int /\ time \in Int /\ time >= 0
    BY Typed DEF Days, Times
  <1>3. PICK m \in Int : m = DayLength * d + time
    BY <1>2, DayAssumption
  <1>4. Day(m) = d /\ TimeOf(m) = time
    BY <1>2, <1>3, DayIs
  <1>5. m < clock - 1
    <2>1. clock - 1 <= m => Day(clock - 1) <= Day(m)
      BY <1>2, DaysFollow
    <2>2. Day(clock - 1) \in Int
      BY <1>2, DayOf
    <2>3. QED
      BY <1>2, <1>4, <2>1, <2>2
  <1>6. m \in Minutes
    <2>1. m >= 0
      <3>1. DayLength * d >= 0
        BY <1>2, DayAssumption
      <3>2. QED
        BY <1>2, <1>3, <3>1, DayAssumption
    <2>2. QED
      BY <1>2, <1>5, <2>1, DayAssumption DEF SummariesTypeOK, Minutes
  <1>7. Calm(t, Day(m))
    BY <1>4 DEF Calm
  <1>8. Serving(t, m)
    BY <1>6
  <1>9. (\E y \in sending : y.owner = t /\ y.tick = m) \/ Served(t, d)
    BY <1>1, <1>2, <1>4, <1>5, <1>7, <1>8 DEF Serving
  <1>10. ~ \E y \in sending : y.owner = t /\ y.tick = m
    <2> SUFFICES ASSUME NEW y \in sending, y.owner = t, y.tick = m PROVE FALSE
      OBVIOUS
    <2>1. clock - 1 <= y.begun /\ y.begun \in Int
      BY Typed DEF TicksPast
    <2>2. Day(clock - 1) <= Day(y.begun) /\ Day(clock - 1) \in Int /\ Day(y.begun) \in Int
      BY <1>2, <2>1, DaysFollow, DayOf
    <2>3. Day(y.begun) # Day(y.tick)
      BY <1>2, <1>4, <2>2
    <2>4. <<t, d>> \in disturbed
      BY <1>4, <2>3 DEF BegunInTime
    <2>5. d \in d .. Day(clock)
      <3>1. Day(m) <= Day(clock) /\ Day(clock) \in Int
        BY <1>2, <1>5, DaysFollow, DayOf
      <3>2. QED
        BY <1>2, <1>4, <3>1
    <2>6. QED
      BY <2>4, <2>5
  <1>11. QED
    BY <1>9, <1>10 DEF Served

\* On a day on which nothing failed, was late, or was changed, the owner gets the
\* summary, however long a day is and whenever it is due (scheduler.go:54-69).
THEOREM SummaryComes == SummariesSpec => []SummaryUnlessDisturbed
  <1>1. SummariesSpec => []SummariesInv
    BY InitSummaries, NextSummaries, PTL DEF SummariesSpec
  <1>2. QED
    BY <1>1, ServedWhenCalm, PTL

-----------------------------------------------------------------------------
(***************************************************************************)
(* Books.  The figures as functions of the rows S of sales and P of        *)
(* expenses, and of the days from a to b.                                  *)
(***************************************************************************)
Done(S, ids) == {i \in ids : S[i] # NoSale /\ S[i].completed}
SalesOver(S, ids) == MapThenSumSet(LAMBDA i : S[i].amount, Done(S, ids))
SpentOver(P, ids) == MapThenSumSet(LAMBDA e : P[e].amount, ids)

SoldFrom(S, a, b) == {i \in SaleIds : S[i] # NoSale /\ S[i].day \in a .. b}
SpentFrom(P, a, b) == {e \in ExpenseIds : P[e] # NoExpense /\ P[e].day \in a .. b}

RevenueOf(S, a, b) == SalesOver(S, SoldFrom(S, a, b))
ExpensesOf(P, a, b) == SpentOver(P, SpentFrom(P, a, b))
BreakdownOf(P, a, b) ==
    SpentOver(P, {e \in SpentFrom(P, a, b) : P[e].filed})
        + SpentOver(P, {e \in SpentFrom(P, a, b) : ~P[e].filed})

SoldOf(S, o, a, b) == {i \in SaleIds : S[i] # NoSale /\ S[i].outlet = o} \cap SoldFrom(S, a, b)
ShownOf(S, a, b) == {o \in Outlets : Done(S, SoldOf(S, o, a, b)) # {}}
TaxesOf(S, a, b) == [o \in Outlets |-> PPN(SalesOver(S, SoldOf(S, o, a, b)))]
TaxesSum(S, a, b) == SumOver(TaxesOf(S, a, b), ShownOf(S, a, b))

Stage(op, stages) == report.op = op /\ report.stage \in stages

\* While nothing was written since it was begun, what a report has read is what
\* it would read now.
ReadNow ==
    LET a == report.from
        b == report.to
        is == report.is
    IN /\ Stage("pnl", {"breakdown", "done"}) => is["expenses"] = ExpensesOf(spent, a, b)
       /\ Stage("pnl", {"done"}) => is["breakdown"] = BreakdownOf(spent, a, b)
       /\ Stage("tax", {"outlets", "done"}) => is["revenue"] = PPN(RevenueOf(sales, a, b))
       /\ Stage("tax", {"done"}) => /\ is["byOutlet"] = TaxesSum(sales, a, b)
                                    /\ is["shown"] = Cardinality(ShownOf(sales, a, b))
       /\ Stage("range", {"expenses", "last", "lastExpenses", "done"}) =>
             is["revenue"] = RevenueOf(sales, a, b)
       /\ Stage("range", {"lastExpenses", "done"}) =>
             is["last"] = RevenueOf(sales, PreviousFrom(a, b), PreviousTo(a))

TodayCounts ==
    Stage("summary", {"last", "expenses", "done"}) =>
        report.is["today"] <= report.is["week"] /\ report.is["today"] <= report.is["month"]

BooksInv ==
    /\ BooksTypeOK
    /\ ~stirred => ReadNow
    /\ report.op = "range" => report.from <= report.to
    /\ TodayCounts

\* The figures of a report, read now.
LEMMA SumSalesIs == \A ids : SumSales(ids) = SalesOver(sales, ids)
  BY DEF SumSales, SalesOver, Completed, Done, MapThenSumSet, MapThenFoldSet

LEMMA SumTaxesIs == \A shown : SumTaxes(shown) = SumOver(Taxes, shown)
  BY DEF SumTaxes, SumOver, MapThenSumSet, MapThenFoldSet

LEMMA FiguresAre ==
    /\ RevenueIn = RevenueOf(sales, report.from, report.to)
    /\ ExpensesIn = ExpensesOf(spent, report.from, report.to)
    /\ Breakdown = BreakdownOf(spent, report.from, report.to)
    /\ Shown = ShownOf(sales, report.from, report.to)
    /\ SumTaxes(Shown) = TaxesSum(sales, report.from, report.to)
  <1>1. RevenueIn = RevenueOf(sales, report.from, report.to)
    BY DEF RevenueIn, RevenueOf, SumSales, SalesOver, Completed, Done, SalesIn, SoldFrom,
           MapThenSumSet, MapThenFoldSet
  <1>2. ExpensesIn = ExpensesOf(spent, report.from, report.to)
    BY DEF ExpensesIn, ExpensesOf, SumSpent, SpentOver, SpentIn, SpentFrom, MapThenSumSet, MapThenFoldSet
  <1>3. Breakdown = BreakdownOf(spent, report.from, report.to)
    BY DEF Breakdown, BreakdownOf, SumSpent, SpentOver, SpentIn, SpentFrom, MapThenSumSet, MapThenFoldSet
  <1>4. \A o : SoldBy(o) = SoldOf(sales, o, report.from, report.to)
    BY DEF SoldBy, SoldOf, SalesOf, SalesIn, SoldFrom
  <1>5. Shown = ShownOf(sales, report.from, report.to)
    BY <1>4 DEF Shown, ShownOf, Completed, Done
  <1>6. Taxes = TaxesOf(sales, report.from, report.to)
    BY <1>4, SumSalesIs DEF Taxes, TaxesOf
  <1>7. SumTaxes(Shown) = SumOver(Taxes, Shown)
    BY SumTaxesIs
  <1>8. QED
    BY <1>1, <1>2, <1>3, <1>5, <1>6, <1>7 DEF TaxesSum

-----------------------------------------------------------------------------
(***************************************************************************)
(* Sums of sales and of expenses.                                          *)
(***************************************************************************)
SalesRows == [SaleIds -> SaleRows \cup {NoSale}]
SpentRows == [ExpenseIds -> Expenses \cup {NoExpense}]
AmountsOf(S, ids) == [i \in ids |-> S[i].amount]

\* A sum of amounts is one over a function on all rows.
LEMMA SumOfAmounts ==
    ASSUME NEW D, NEW S, NEW C \in SUBSET D, IsFiniteSet(D), \A i \in D : S[i].amount \in Nat
    PROVE  /\ MapThenSumSet(LAMBDA i : S[i].amount, C) = SumOver(AmountsOf(S, D), C)
           /\ IsFiniteSet(C) /\ SumOver(AmountsOf(S, D), C) \in Nat
           /\ \A i \in D : AmountsOf(S, D)[i] \in Nat
  <1>1. IsFiniteSet(C)
    BY FS_Subset
  <1>2. MapThenSumSet(LAMBDA i : S[i].amount, C) = SumOver([x \in C |-> S[x]["amount"]], C)
    <2>1. MapThenSumSet(LAMBDA i : S[i]["amount"], C) = SumOver([x \in C |-> S[x]["amount"]], C)
      BY <1>1, SumOfPlace
    <2>2. MapThenSumSet(LAMBDA i : S[i]["amount"], C) = MapThenSumSet(LAMBDA i : S[i].amount, C)
      BY DEF MapThenSumSet, MapThenFoldSet
    <2>3. QED
      BY <2>1, <2>2
  <1>3. SumOver([x \in C |-> S[x]["amount"]], C) = SumOver(AmountsOf(S, D), C)
    <2>1. \A x \in C : [y \in C |-> S[y]["amount"]][x] = AmountsOf(S, D)[x]
      BY DEF AmountsOf
    <2>2. QED
      BY <1>1, <2>1, SumAgrees
  <1>4. \A i \in D : AmountsOf(S, D)[i] \in Nat
    BY DEF AmountsOf
  <1>5. SumOver(AmountsOf(S, D), C) \in Nat
    BY <1>1, <1>4, SumNat
  <1>6. QED
    BY <1>1, <1>2, <1>3, <1>4, <1>5

LEMMA SalesOverIs ==
    ASSUME NEW S \in SalesRows, NEW ids \in SUBSET SaleIds
    PROVE  /\ SalesOver(S, ids) = SumOver(AmountsOf(S, SaleIds), Done(S, ids))
           /\ Done(S, ids) \in SUBSET SaleIds /\ IsFiniteSet(Done(S, ids))
           /\ SalesOver(S, ids) \in Nat /\ \A i \in SaleIds : AmountsOf(S, SaleIds)[i] \in Nat
  <1>1. Done(S, ids) \in SUBSET SaleIds
    BY DEF Done
  <1>2. \A i \in SaleIds : S[i].amount \in Nat
    <2>1. \A x \in SaleRows : x.amount \in Nat
      BY SpanAssumption DEF SaleRows
    <2>2. NoSale.amount \in Nat
      BY DEF NoSale
    <2>3. QED
      BY <2>1, <2>2 DEF SalesRows
  <1>3. PICK C \in SUBSET SaleIds : C = Done(S, ids)
    BY <1>1
  <1>4. SalesOver(S, ids) = MapThenSumSet(LAMBDA i : S[i].amount, C)
    BY <1>3 DEF SalesOver
  <1>5. IsFiniteSet(SaleIds)
    BY RowsAssumption
  <1>6. /\ MapThenSumSet(LAMBDA i : S[i].amount, C) = SumOver(AmountsOf(S, SaleIds), C)
        /\ IsFiniteSet(C) /\ SumOver(AmountsOf(S, SaleIds), C) \in Nat
        /\ \A i \in SaleIds : AmountsOf(S, SaleIds)[i] \in Nat
    BY <1>2, <1>5, SumOfAmounts
  <1>7. QED
    BY <1>3, <1>4, <1>6

LEMMA SpentOverIs ==
    ASSUME NEW P \in SpentRows, NEW ids \in SUBSET ExpenseIds
    PROVE  /\ SpentOver(P, ids) = SumOver(AmountsOf(P, ExpenseIds), ids)
           /\ IsFiniteSet(ids) /\ SpentOver(P, ids) \in Nat
           /\ \A e \in ExpenseIds : AmountsOf(P, ExpenseIds)[e] \in Nat
  <1>1. \A e \in ExpenseIds : P[e].amount \in Nat
    <2>1. \A x \in Expenses : x.amount \in Nat
      BY DEF Expenses
    <2>2. NoExpense.amount \in Nat
      BY DEF NoExpense
    <2>3. QED
      BY <2>1, <2>2 DEF SpentRows
  <1>2. SpentOver(P, ids) = MapThenSumSet(LAMBDA e : P[e].amount, ids)
    BY DEF SpentOver
  <1>3. IsFiniteSet(ExpenseIds)
    BY RowsAssumption
  <1>4. /\ MapThenSumSet(LAMBDA e : P[e].amount, ids) = SumOver(AmountsOf(P, ExpenseIds), ids)
        /\ IsFiniteSet(ids) /\ SumOver(AmountsOf(P, ExpenseIds), ids) \in Nat
        /\ \A e \in ExpenseIds : AmountsOf(P, ExpenseIds)[e] \in Nat
    BY <1>1, <1>3, SumOfAmounts
  <1>5. QED
    BY <1>2, <1>4

\* The categories and what is under none make the whole.
LEMMA BreakdownWhole ==
    ASSUME NEW P \in SpentRows, NEW a, NEW b
    PROVE  BreakdownOf(P, a, b) = ExpensesOf(P, a, b)
  <1> DEFINE in == SpentFrom(P, a, b)
             F == {e \in in : P[e].filed}
             G == {e \in in : ~P[e].filed}
             f == AmountsOf(P, ExpenseIds)
  <1>1. F \in SUBSET ExpenseIds /\ G \in SUBSET ExpenseIds /\ in \in SUBSET ExpenseIds
        /\ F \cap G = {} /\ F \cup G = in
    BY DEF SpentFrom
  <1>2. BreakdownOf(P, a, b) = SpentOver(P, F) + SpentOver(P, G) /\ ExpensesOf(P, a, b) = SpentOver(P, in)
    BY DEF BreakdownOf, ExpensesOf
  <1> HIDE DEF F, G, in, f
  <1>3. /\ SpentOver(P, F) = SumOver(f, F) /\ SpentOver(P, G) = SumOver(f, G)
        /\ SpentOver(P, in) = SumOver(f, in) /\ IsFiniteSet(F) /\ IsFiniteSet(G)
        /\ \A e \in ExpenseIds : f[e] \in Nat
    BY <1>1, SpentOverIs DEF f
  <1>4. SumOver(f, F \cup G) = SumOver(f, F) + SumOver(f, G)
    <2>1. \A e \in F \cup G : f[e] \in Int
      BY <1>1, <1>3
    <2>2. QED
      BY <1>1, <1>3, <2>1, SumDisjoint
  <1>5. QED
    BY <1>1, <1>2, <1>3, <1>4

\* Sales of more days are worth no less.
LEMMA SalesMonotone ==
    ASSUME NEW S \in SalesRows, NEW ids \in SUBSET SaleIds, NEW part \in SUBSET ids
    PROVE  SalesOver(S, part) <= SalesOver(S, ids)
  <1>1. Done(S, part) \in SUBSET Done(S, ids) /\ part \in SUBSET SaleIds
    BY DEF Done
  <1>2. /\ SalesOver(S, ids) = SumOver(AmountsOf(S, SaleIds), Done(S, ids))
        /\ SalesOver(S, part) = SumOver(AmountsOf(S, SaleIds), Done(S, part))
        /\ IsFiniteSet(Done(S, ids)) /\ Done(S, ids) \in SUBSET SaleIds
        /\ \A i \in SaleIds : AmountsOf(S, SaleIds)[i] \in Nat
    BY <1>1, SalesOverIs
  <1>3. SumOver(AmountsOf(S, SaleIds), Done(S, part)) <= SumOver(AmountsOf(S, SaleIds), Done(S, ids))
    <2>1. \A i \in Done(S, ids) : AmountsOf(S, SaleIds)[i] \in Nat
      BY <1>2
    <2>2. QED
      BY <1>1, <1>2, <2>1, SumMonotone
  <1>4. QED
    BY <1>2, <1>3

\* Two periods that abut add up.
LEMMA PeriodsAdd ==
    ASSUME NEW S \in SalesRows, NEW a \in Int, NEW b \in Int, NEW c \in Int, a <= b, b <= c + 1
    PROVE  RevenueOf(S, b, c) + RevenueOf(S, a, b - 1) = RevenueOf(S, a, c)
  <1> DEFINE F == Done(S, SoldFrom(S, b, c))
             G == Done(S, SoldFrom(S, a, b - 1))
             H == Done(S, SoldFrom(S, a, c))
             f == AmountsOf(S, SaleIds)
  <1>1. \A x, y : SoldFrom(S, x, y) \in SUBSET SaleIds
    BY DEF SoldFrom
  <1>2. /\ RevenueOf(S, b, c) = SumOver(f, F) /\ IsFiniteSet(F) /\ F \in SUBSET SaleIds
        /\ RevenueOf(S, a, b - 1) = SumOver(f, G) /\ IsFiniteSet(G) /\ G \in SUBSET SaleIds
        /\ RevenueOf(S, a, c) = SumOver(f, H)
        /\ \A i \in SaleIds : f[i] \in Nat
    BY <1>1, SalesOverIs DEF RevenueOf
  <1>3. F \cap G = {} /\ F \cup G = H
    <2>1. ASSUME NEW i \in SaleIds, S[i] # NoSale
          PROVE  /\ ~(S[i].day \in b .. c /\ S[i].day \in a .. b - 1)
                 /\ S[i].day \in a .. c <=> S[i].day \in b .. c \/ S[i].day \in a .. b - 1
      <3>1. PICK d \in Nat : d = S[i].day
        <4>1. S[i] \in SaleRows
          BY <2>1 DEF SalesRows
        <4>2. QED
          BY <4>1, SpanAssumption DEF SaleRows
      <3>2. QED
        BY <3>1
    <2>2. QED
      BY <2>1 DEF Done, SoldFrom
  <1> HIDE DEF F, G, H, f
  <1>4. SumOver(f, F \cup G) = SumOver(f, F) + SumOver(f, G)
    <2>1. \A i \in F \cup G : f[i] \in Int
      BY <1>2
    <2>2. QED
      BY <1>2, <1>3, <2>1, SumDisjoint
  <1>5. QED
    BY <1>2, <1>3, <1>4

\* Each summand that is rounded down loses less than one.
LEMMA FloorsOfSum ==
    ASSUME NEW T, IsFiniteSet(T), NEW f, \A x \in T : f[x] \in Nat,
           NEW g, \A x \in T : g[x] = PPN(f[x])
    PROVE  /\ 100 * SumOver(g, T) <= 11 * SumOver(f, T)
           /\ 11 * SumOver(f, T) <= 100 * SumOver(g, T) + 99 * Cardinality(T)
  <1>0. \A x \in T : g[x] \in Nat /\ 100 * g[x] <= 11 * f[x] /\ 11 * f[x] <= 100 * g[x] + 99
    <2> SUFFICES ASSUME NEW x \in T
                 PROVE  g[x] \in Nat /\ 100 * g[x] <= 11 * f[x] /\ 11 * f[x] <= 100 * g[x] + 99
      OBVIOUS
    <2>1. PICK n \in Nat : n = f[x]
      OBVIOUS
    <2>2. PICK m \in Nat : m = 11 * n
      OBVIOUS
    <2>3. m \div 100 \in Nat /\ 100 * (m \div 100) <= m /\ m <= 100 * (m \div 100) + 99
      OBVIOUS
    <2>4. g[x] = m \div 100
      BY <2>1, <2>2 DEF PPN
    <2>5. QED
      BY <2>1, <2>2, <2>3, <2>4
  <1> DEFINE Q == {U \in SUBSET T : /\ 100 * SumOver(g, U) <= 11 * SumOver(f, U)
                                    /\ 11 * SumOver(f, U) <= 100 * SumOver(g, U) + 99 * Cardinality(U)}
  <1>1. ASSUME NEW U \in SUBSET T, \A x \in U : U \ {x} \in Q
        PROVE  U \in Q
    <2>1. CASE U = {}
      BY <2>1, SumEmpty, FS_EmptySet
    <2>2. CASE U # {}
      <3>1. PICK y \in U : TRUE
        BY <2>2
      <3>2. IsFiniteSet(U) /\ IsFiniteSet(U \ {y})
        BY FS_Subset
      <3>3. SumOver(f, U) = f[y] + SumOver(f, U \ {y}) /\ SumOver(g, U) = g[y] + SumOver(g, U \ {y})
        <4>1. \A x \in U : f[x] \in Int /\ g[x] \in Int
          BY <1>0
        <4>2. QED
          BY <3>1, <3>2, <4>1, SumTakes
      <3>4. SumOver(f, U \ {y}) \in Nat /\ SumOver(g, U \ {y}) \in Nat
        <4>1. \A x \in U \ {y} : f[x] \in Nat /\ g[x] \in Nat
          BY <1>0
        <4>2. QED
          BY <3>2, <4>1, SumNat
      <3>5. Cardinality(U) = Cardinality(U \ {y}) + 1 /\ Cardinality(U \ {y}) \in Nat
        BY <3>1, <3>2, FS_RemoveElement, FS_CardinalityType
      <3>6. /\ 100 * SumOver(g, U \ {y}) <= 11 * SumOver(f, U \ {y})
            /\ 11 * SumOver(f, U \ {y}) <= 100 * SumOver(g, U \ {y}) + 99 * Cardinality(U \ {y})
        BY <1>1, <3>1
      <3>7. f[y] \in Nat /\ g[y] \in Nat /\ 100 * g[y] <= 11 * f[y] /\ 11 * f[y] <= 100 * g[y] + 99
        BY <1>0, <3>1
      <3>8. /\ 100 * SumOver(g, U) <= 11 * SumOver(f, U)
            /\ 11 * SumOver(f, U) <= 100 * SumOver(g, U) + 99 * Cardinality(U)
        BY <3>3, <3>4, <3>5, <3>6, <3>7
      <3>9. QED
        BY <3>8
    <2>3. QED
      BY <2>1, <2>2
  <1>2. Q = SUBSET T
    <2>1. \A U \in SUBSET T : (\A x \in U : U \ {x} \in Q) => U \in Q
      BY <1>1
    <2>2. Q \in SUBSET (SUBSET T)
      OBVIOUS
    <2> HIDE DEF Q
    <2>3. QED
      BY <2>1, <2>2, SubsetInduction
  <1>3. QED
    BY <1>2

\* The outlets' taxes are less than the tax of the whole by less than their number.
LEMMA TaxDrift ==
    ASSUME NEW S \in SalesRows, NEW a, NEW b,
           NEW drift, drift = PPN(RevenueOf(S, a, b)) - TaxesSum(S, a, b)
    PROVE  drift >= 0 /\ (drift = 0 \/ drift < Cardinality(ShownOf(S, a, b)))
  <1> DEFINE D == Done(S, SoldFrom(S, a, b))
             O == ShownOf(S, a, b)
             f == AmountsOf(S, SaleIds)
             h == [i \in SaleIds |-> S[i].outlet]
             net == [o \in Outlets |-> SalesOver(S, SoldOf(S, o, a, b))]
             part == [o \in Outlets |-> Done(S, SoldOf(S, o, a, b))]
             tax == TaxesOf(S, a, b)
  <1>1. \A o : SoldOf(S, o, a, b) \in SUBSET SaleIds /\ SoldFrom(S, a, b) \in SUBSET SaleIds
    BY DEF SoldOf, SoldFrom
  <1>2. /\ RevenueOf(S, a, b) = SumOver(f, D) /\ IsFiniteSet(D) /\ D \in SUBSET SaleIds
        /\ \A i \in SaleIds : f[i] \in Nat
    BY <1>1, SalesOverIs DEF RevenueOf
  <1>3. \A o \in Outlets : net[o] \in Nat /\ tax[o] = PPN(net[o])
    BY <1>1, SalesOverIs DEF TaxesOf
  <1>4. IsFiniteSet(O) /\ O \subseteq Outlets
    BY RowsAssumption, FS_Subset DEF ShownOf
  <1>5. \A o \in Outlets : \A i \in D : h[i] = o => i \in Done(S, SoldOf(S, o, a, b))
    BY DEF Done, SoldOf, SoldFrom
  <1>6. \A i \in D : h[i] \in O
    <2> SUFFICES ASSUME NEW i \in D PROVE h[i] \in O
      OBVIOUS
    <2>1. h[i] \in Outlets
      BY DEF Done, SoldFrom, SalesRows, SaleRows
    <2>2. i \in Done(S, SoldOf(S, h[i], a, b))
      BY <1>5, <2>1
    <2>3. QED
      BY <2>1, <2>2 DEF ShownOf
  <1>7. \A o \in O : /\ net[o] = SumOver(f, part[o]) /\ part[o] \in SUBSET D
                       /\ \A i \in D : i \in part[o] <=> h[i] = o
    <2> SUFFICES ASSUME NEW o \in O
                 PROVE  /\ net[o] = SumOver(f, part[o]) /\ part[o] \in SUBSET D
                        /\ \A i \in D : i \in part[o] <=> h[i] = o
      OBVIOUS
    <2>1. o \in Outlets /\ part[o] = Done(S, SoldOf(S, o, a, b))
      BY <1>4
    <2>2. net[o] = SumOver(f, part[o])
      BY <1>1, <2>1, SalesOverIs
    <2>3. part[o] \in SUBSET D /\ \A i \in D : i \in part[o] <=> h[i] = o
      BY <2>1 DEF Done, SoldOf, SoldFrom
    <2>4. QED
      BY <2>2, <2>3
  <1> HIDE DEF D, O, f, h, net, tax, part
  <1>8. SumOver(net, O) = SumOver(f, D)
    <2>1. \A i \in D : f[i] \in Int /\ h[i] \in O
      BY <1>2, <1>6
    <2>2. IsFiniteSet(D) /\ IsFiniteSet(O)
      BY <1>2, <1>4
    <2>3. QED
      BY <1>7, <2>1, <2>2, SumByGroup
  <1>9. /\ 100 * SumOver(tax, O) <= 11 * SumOver(net, O)
        /\ 11 * SumOver(net, O) <= 100 * SumOver(tax, O) + 99 * Cardinality(O)
    <2>1. \A o \in O : net[o] \in Nat /\ tax[o] = PPN(net[o])
      BY <1>3, <1>4
    <2>2. QED
      BY <1>4, <2>1, FloorsOfSum
  <1>10. PICK r \in Nat, t \in Nat, n \in Nat :
            r = SumOver(net, O) /\ t = SumOver(tax, O) /\ n = Cardinality(O)
    <2>1. \A o \in O : net[o] \in Nat /\ tax[o] \in Nat
      BY <1>3, <1>4 DEF PPN
    <2>2. QED
      BY <1>4, <2>1, SumNat, FS_CardinalityType
  <1>11. drift = PPN(r) - t
    BY <1>2, <1>8, <1>10 DEF TaxesSum, O, tax
  <1>12. 100 * t <= 11 * r /\ 11 * r <= 100 * t + 99 * n
    BY <1>9, <1>10
  <1>13. PICK q \in Nat : q = PPN(r) /\ 100 * q <= 11 * r /\ 11 * r <= 100 * q + 99
    <2>1. PICK m \in Nat : m = 11 * r
      OBVIOUS
    <2>2. m \div 100 \in Nat /\ 100 * (m \div 100) <= m /\ m <= 100 * (m \div 100) + 99
      OBVIOUS
    <2>3. QED
      BY <2>1, <2>2 DEF PPN
  <1>14. q - t >= 0 /\ (q - t = 0 \/ q - t < n)
    BY <1>12, <1>13
  <1>15. QED
    BY <1>10, <1>11, <1>13, <1>14 DEF O

-----------------------------------------------------------------------------
(***************************************************************************)
(* The steps keep the invariant.                                           *)
(***************************************************************************)
LEMMA SumSpentIs == \A ids : SumSpent(ids) = SpentOver(spent, ids)
  BY DEF SumSpent, SpentOver, MapThenSumSet, MapThenFoldSet

LEMMA PPNNat == \A n \in Nat : PPN(n) \in Nat
  <1>1. SUFFICES ASSUME NEW n \in Nat PROVE PPN(n) \in Nat
    OBVIOUS
  <1>2. PICK m \in Nat : m = 11 * n
    OBVIOUS
  <1>3. m \div 100 \in Nat
    OBVIOUS
  <1>4. QED
    BY <1>2, <1>3 DEF PPN

\* Every figure is a natural number.
LEMMA SumsNat ==
    ASSUME BooksTypeOK
    PROVE  /\ \A ids \in SUBSET SaleIds : SumSales(ids) \in Nat
           /\ \A ids \in SUBSET ExpenseIds : SumSpent(ids) \in Nat
  <1>1. sales \in SalesRows /\ spent \in SpentRows
    BY DEF BooksTypeOK, SalesRows, SpentRows
  <1>2. \A S \in SalesRows : \A ids \in SUBSET SaleIds : SalesOver(S, ids) \in Nat
    BY SalesOverIs
  <1>3. \A P \in SpentRows : \A ids \in SUBSET ExpenseIds : SpentOver(P, ids) \in Nat
    BY SpentOverIs
  <1>4. QED
    BY <1>1, <1>2, <1>3, SumSalesIs, SumSpentIs

\* Taxes are natural numbers, and so is the number of outlets shown.
LEMMA TaxesNat ==
    ASSUME NEW S \in SalesRows, NEW a, NEW b
    PROVE  TaxesSum(S, a, b) \in Nat /\ Cardinality(ShownOf(S, a, b)) \in Nat
  <1>1. IsFiniteSet(ShownOf(S, a, b)) /\ ShownOf(S, a, b) \subseteq Outlets
    BY RowsAssumption, FS_Subset DEF ShownOf
  <1>2. \A o \in Outlets : TaxesOf(S, a, b)[o] \in Nat
    <2> SUFFICES ASSUME NEW o \in Outlets PROVE TaxesOf(S, a, b)[o] \in Nat
      OBVIOUS
    <2>1. SoldOf(S, o, a, b) \in SUBSET SaleIds
      BY DEF SoldOf
    <2>2. SalesOver(S, SoldOf(S, o, a, b)) \in Nat
      BY <2>1, SalesOverIs
    <2>3. QED
      BY <2>2, PPNNat DEF TaxesOf
  <1>3. TaxesSum(S, a, b) \in Nat
    <2>1. \A o \in ShownOf(S, a, b) : TaxesOf(S, a, b)[o] \in Nat
      BY <1>1, <1>2
    <2>2. SumOver(TaxesOf(S, a, b), ShownOf(S, a, b)) \in Nat
      BY <1>1, <2>1, SumNat
    <2>3. QED
      BY <2>2 DEF TaxesSum
  <1>4. QED
    BY <1>1, <1>3, FS_CardinalityType

LEMMA FiguresNat ==
    ASSUME BooksTypeOK
    PROVE  /\ RevenueIn \in Nat /\ ExpensesIn \in Nat /\ Breakdown \in Nat
           /\ PPN(RevenueIn) \in Nat
           /\ SumTaxes(Shown) \in Nat /\ Cardinality(Shown) \in Nat
  <1>1. RevenueIn \in Nat
    <2>1. SalesIn(report.from, report.to) \in SUBSET SaleIds
      BY DEF SalesIn
    <2>2. QED
      BY <2>1, SumsNat DEF RevenueIn
  <1>2. ExpensesIn \in Nat
    <2>1. SpentIn(report.from, report.to) \in SUBSET ExpenseIds
      BY DEF SpentIn
    <2>2. QED
      BY <2>1, SumsNat DEF ExpensesIn
  <1>3. Breakdown \in Nat
    <2>1. /\ {e \in SpentIn(report.from, report.to) : spent[e].filed} \in SUBSET ExpenseIds
          /\ {e \in SpentIn(report.from, report.to) : ~spent[e].filed} \in SUBSET ExpenseIds
      BY DEF SpentIn
    <2>2. QED
      BY <2>1, SumsNat DEF Breakdown
  <1>4. PPN(RevenueIn) \in Nat
    BY <1>1, PPNNat
  <1>5. \A S \in SalesRows : \A a, b : TaxesSum(S, a, b) \in Nat /\ Cardinality(ShownOf(S, a, b)) \in Nat
    BY TaxesNat
  <1>6. sales \in SalesRows
    BY DEF BooksTypeOK, SalesRows
  <1>7. SumTaxes(Shown) \in Nat /\ Cardinality(Shown) \in Nat
    BY <1>5, <1>6, FiguresAre
  <1>8. QED
    BY <1>1, <1>2, <1>3, <1>4, <1>7

\* So are the figures of a part of the rows.
LEMMA ShortFiguresNat ==
    ASSUME BooksTypeOK
    PROVE  /\ \A ids \in SUBSET SpentIn(report.from, report.to) : SumSpent(ids) \in Nat
           /\ \A shown \in SUBSET Shown : SumTaxes(shown) \in Nat /\ Cardinality(shown) \in Nat
  <1>1. SpentIn(report.from, report.to) \subseteq ExpenseIds
    BY DEF SpentIn
  <1>2. \A ids \in SUBSET SpentIn(report.from, report.to) : SumSpent(ids) \in Nat
    BY <1>1, SumsNat
  <1>3. ASSUME NEW shown \in SUBSET Shown
        PROVE  SumTaxes(shown) \in Nat /\ Cardinality(shown) \in Nat
    <2>1. shown \subseteq Outlets /\ IsFiniteSet(shown)
      BY RowsAssumption, FS_Subset DEF Shown
    <2>2. ASSUME NEW o \in Outlets PROVE Taxes[o] \in Nat
      <3>1. SoldBy(o) \in SUBSET SaleIds
        BY DEF SoldBy, SalesOf
      <3>2. SumSales(SoldBy(o)) \in Nat
        BY <3>1, SumsNat
      <3>3. QED
        BY <3>2, PPNNat DEF Taxes
    <2>3. \A o \in shown : Taxes[o] \in Nat
      BY <2>1, <2>2
    <2>4. SumOver(Taxes, shown) \in Nat
      BY <2>1, <2>3, SumNat
    <2>5. QED
      BY <2>1, <2>4, SumTaxesIs, FS_CardinalityType
  <1>4. QED
    BY <1>2, <1>3

\* What a statement reads is added to the report.
LEMMA StepIs ==
    ASSUME BooksTypeOK, NEW op, NEW stage, NEW next \in Stages, NEW figures,
           DOMAIN figures \in SUBSET Figures, \A f \in DOMAIN figures : figures[f] \in Nat,
           Step(op, stage, next, figures)
    PROVE  /\ BooksTypeOK'
           /\ report.op = op /\ report.stage = stage
           /\ report'.op = op /\ report'.stage = next
           /\ report'.from = report.from /\ report'.to = report.to
           /\ \A f \in Figures : report'.is[f] = IF f \in DOMAIN figures THEN figures[f] ELSE report.is[f]
           /\ UNCHANGED <<today, sales, spent, stirred, postings>>
  <1> DEFINE is == [f \in Figures |-> IF f \in DOMAIN figures THEN figures[f] ELSE report.is[f]]
  <1>0. report \in Reports
    BY DEF BooksTypeOK
  <1>1. is \in [Figures -> Nat]
    BY <1>0 DEF Reports
  <1>2. report' = [report EXCEPT !.stage = next, !.is = is]
    BY DEF Step
  <1>3. report.op = op /\ report.stage = stage /\ UNCHANGED <<today, sales, spent, stirred, postings>>
    BY DEF Step
  <1>4. \A f \in Figures : is[f] = IF f \in DOMAIN figures THEN figures[f] ELSE report.is[f]
    OBVIOUS
  <1> HIDE DEF is
  <1>5. /\ report' \in Reports
        /\ report'.op = report.op /\ report'.stage = next /\ report'.is = is
        /\ report'.from = report.from /\ report'.to = report.to
    BY <1>0, <1>1, <1>2 DEF Reports
  <1>6. BooksTypeOK'
    BY <1>3, <1>5 DEF BooksTypeOK
  <1>7. QED
    BY <1>3, <1>4, <1>5, <1>6

\* The statements of each report.
LEMMA PnLKeeps ==
    ASSUME BooksInv, PnLStep
    PROVE  BooksInv'
  <1>0. BooksTypeOK /\ Figures # {}
    BY DEF BooksInv, Figures
  <1>1. CASE Step("pnl", "revenue", "expenses", [revenue |-> RevenueIn])
    <2>1. PICK n \in Nat : n = RevenueIn
      BY <1>0, FiguresNat
    <2> DEFINE figures == [revenue |-> n]
    <2>2. Step("pnl", "revenue", "expenses", figures)
      BY <1>1, <2>1 DEF Step
    <2>3. DOMAIN figures \in SUBSET Figures /\ (\A f \in DOMAIN figures : figures[f] \in Nat) /\ "expenses" \in Stages
      BY DEF Figures, Stages
    <2> HIDE DEF figures
    <2>4. BooksTypeOK' /\ report'.op = "pnl" /\ report'.stage = "expenses"
      BY <1>0, <2>2, <2>3, StepIs
    <2>5. QED
      BY <2>4 DEF BooksInv, ReadNow, TodayCounts, Stage
  <1>2. CASE Step("pnl", "expenses", "breakdown", [expenses |-> ExpensesIn])
    <2>1. PICK n \in Nat : n = ExpensesIn
      BY <1>0, FiguresNat
    <2> DEFINE figures == [expenses |-> n]
    <2>2. Step("pnl", "expenses", "breakdown", figures)
      BY <1>2, <2>1 DEF Step
    <2>3. DOMAIN figures \in SUBSET Figures /\ (\A f \in DOMAIN figures : figures[f] \in Nat) /\ "breakdown" \in Stages
      BY DEF Figures, Stages
    <2>4. "expenses" \in Figures /\ "expenses" \in DOMAIN figures /\ figures["expenses"] = n
      BY DEF Figures
    <2> HIDE DEF figures
    <2>5. /\ BooksTypeOK' /\ report'.op = "pnl" /\ report'.stage = "breakdown"
          /\ report'.from = report.from /\ report'.to = report.to
          /\ report'.is["expenses"] = n /\ spent' = spent
      BY <1>0, <2>2, <2>3, <2>4, StepIs
    <2>6. report'.is["expenses"] = ExpensesOf(spent', report'.from, report'.to)
      BY <2>1, <2>5, FiguresAre
    <2>7. QED
      BY <2>5, <2>6 DEF BooksInv, ReadNow, TodayCounts, Stage
  <1>3. CASE Step("pnl", "breakdown", "done", [breakdown |-> Breakdown])
    <2>1. PICK n \in Nat : n = Breakdown
      BY <1>0, FiguresNat
    <2> DEFINE figures == [breakdown |-> n]
    <2>2. Step("pnl", "breakdown", "done", figures)
      BY <1>3, <2>1 DEF Step
    <2>3. DOMAIN figures \in SUBSET Figures /\ (\A f \in DOMAIN figures : figures[f] \in Nat) /\ "done" \in Stages
      BY DEF Figures, Stages
    <2>4. /\ "breakdown" \in Figures /\ "breakdown" \in DOMAIN figures /\ figures["breakdown"] = n
          /\ "expenses" \in Figures /\ "expenses" \notin DOMAIN figures
      BY DEF Figures
    <2> HIDE DEF figures
    <2>5. /\ BooksTypeOK' /\ report'.op = "pnl" /\ report'.stage = "done"
          /\ report.op = "pnl" /\ report.stage = "breakdown"
          /\ report'.from = report.from /\ report'.to = report.to
          /\ report'.is["breakdown"] = n /\ report'.is["expenses"] = report.is["expenses"]
          /\ spent' = spent /\ stirred' = stirred
      BY <1>0, <2>2, <2>3, <2>4, StepIs
    <2>6. report'.is["breakdown"] = BreakdownOf(spent', report'.from, report'.to)
      BY <2>1, <2>5, FiguresAre
    <2>7. ~stirred => report'.is["expenses"] = ExpensesOf(spent', report'.from, report'.to)
      BY <2>5 DEF BooksInv, ReadNow, Stage
    <2>8. QED
      BY <2>5, <2>6, <2>7 DEF BooksInv, ReadNow, TodayCounts, Stage
  <1>4. ASSUME NEW ids \in SUBSET SpentIn(report.from, report.to),
               Step("pnl", "breakdown", "short", [breakdown |-> SumSpent(ids)])
        PROVE  BooksInv'
    <2>1. PICK n \in Nat : n = SumSpent(ids)
      BY <1>0, ShortFiguresNat
    <2> DEFINE figures == [breakdown |-> n]
    <2>2. Step("pnl", "breakdown", "short", figures)
      BY <1>4, <2>1 DEF Step
    <2>3. DOMAIN figures \in SUBSET Figures /\ (\A f \in DOMAIN figures : figures[f] \in Nat) /\ "short" \in Stages
      BY DEF Figures, Stages
    <2> HIDE DEF figures
    <2>4. BooksTypeOK' /\ report'.op = "pnl" /\ report'.stage = "short"
      BY <1>0, <2>2, <2>3, StepIs
    <2>5. QED
      BY <2>4 DEF BooksInv, ReadNow, TodayCounts, Stage
  <1>5. QED
    BY <1>1, <1>2, <1>3, <1>4 DEF PnLStep

LEMMA CashFlowKeeps ==
    ASSUME BooksInv, CashFlowStep
    PROVE  BooksInv'
  <1>0. BooksTypeOK
    BY DEF BooksInv
  <1>1. CASE Step("cash", "revenue", "expenses", [revenue |-> RevenueIn])
    <2>1. PICK n \in Nat :
             n = RevenueIn
      BY <1>0, FiguresNat
    <2> DEFINE figures == [revenue |-> n]
    <2>2. Step("cash", "revenue", "expenses", figures)
      BY <1>1, <2>1 DEF Step
    <2>3. DOMAIN figures \in SUBSET Figures /\ (\A f \in DOMAIN figures : figures[f] \in Nat)
          /\ "expenses" \in Stages
      BY DEF Figures, Stages
    <2>4. /\ "revenue" \in Figures /\ "revenue" \in DOMAIN figures /\ figures["revenue"] = n
      BY DEF Figures
    <2> HIDE DEF figures
    <2>5. /\ BooksTypeOK' /\ report'.op = "cash" /\ report'.stage = "expenses"
          /\ report.op = "cash" /\ report.stage = "revenue"
          /\ report'.from = report.from /\ report'.to = report.to
          /\ report'.is["revenue"] = n
          /\ UNCHANGED <<today, sales, spent, stirred, postings>>
      BY <1>0, <2>2, <2>3, <2>4, StepIs
    <2>6. QED
      BY <2>5 DEF BooksInv, ReadNow, TodayCounts, Stage
  <1>2. CASE Step("cash", "expenses", "done", [expenses |-> ExpensesIn])
    <2>1. PICK n \in Nat :
             n = ExpensesIn
      BY <1>0, FiguresNat
    <2> DEFINE figures == [expenses |-> n]
    <2>2. Step("cash", "expenses", "done", figures)
      BY <1>2, <2>1 DEF Step
    <2>3. DOMAIN figures \in SUBSET Figures /\ (\A f \in DOMAIN figures : figures[f] \in Nat)
          /\ "done" \in Stages
      BY DEF Figures, Stages
    <2>4. /\ "expenses" \in Figures /\ "expenses" \in DOMAIN figures /\ figures["expenses"] = n
      BY DEF Figures
    <2> HIDE DEF figures
    <2>5. /\ BooksTypeOK' /\ report'.op = "cash" /\ report'.stage = "done"
          /\ report.op = "cash" /\ report.stage = "expenses"
          /\ report'.from = report.from /\ report'.to = report.to
          /\ report'.is["expenses"] = n
          /\ UNCHANGED <<today, sales, spent, stirred, postings>>
      BY <1>0, <2>2, <2>3, <2>4, StepIs
    <2>6. QED
      BY <2>5 DEF BooksInv, ReadNow, TodayCounts, Stage
  <1>3. QED
    BY <1>1, <1>2 DEF CashFlowStep

LEMMA TaxKeeps ==
    ASSUME BooksInv, TaxStep
    PROVE  BooksInv'
  <1>0. BooksTypeOK
    BY DEF BooksInv
  <1>1. CASE Step("tax", "revenue", "outlets", [revenue |-> PPN(RevenueIn)])
    <2>1. PICK n \in Nat :
             n = PPN(RevenueIn)
      BY <1>0, FiguresNat
    <2> DEFINE figures == [revenue |-> n]
    <2>2. Step("tax", "revenue", "outlets", figures)
      BY <1>1, <2>1 DEF Step
    <2>3. DOMAIN figures \in SUBSET Figures /\ (\A f \in DOMAIN figures : figures[f] \in Nat)
          /\ "outlets" \in Stages
      BY DEF Figures, Stages
    <2>4. /\ "revenue" \in Figures /\ "revenue" \in DOMAIN figures /\ figures["revenue"] = n
      BY DEF Figures
    <2> HIDE DEF figures
    <2>5. /\ BooksTypeOK' /\ report'.op = "tax" /\ report'.stage = "outlets"
          /\ report.op = "tax" /\ report.stage = "revenue"
          /\ report'.from = report.from /\ report'.to = report.to
          /\ report'.is["revenue"] = n
          /\ UNCHANGED <<today, sales, spent, stirred, postings>>
      BY <1>0, <2>2, <2>3, <2>4, StepIs
    <2>6. report'.is["revenue"] = PPN(RevenueOf(sales', report'.from, report'.to))
      BY <2>1, <2>5, FiguresAre
    <2>7. QED
      BY <2>5, <2>6 DEF BooksInv, ReadNow, TodayCounts, Stage
  <1>2. CASE Step("tax", "outlets", "done",
              [byOutlet |-> SumTaxes(Shown), shown |-> Cardinality(Shown)])
    <2>1. PICK n \in Nat, m \in Nat :
             n = SumTaxes(Shown) /\ m = Cardinality(Shown)
      BY <1>0, FiguresNat
    <2> DEFINE figures == [byOutlet |-> n, shown |-> m]
    <2>2. Step("tax", "outlets", "done", figures)
      BY <1>2, <2>1 DEF Step
    <2>3. DOMAIN figures \in SUBSET Figures /\ (\A f \in DOMAIN figures : figures[f] \in Nat)
          /\ "done" \in Stages
      BY DEF Figures, Stages
    <2>4. /\ "byOutlet" \in Figures /\ "byOutlet" \in DOMAIN figures /\ figures["byOutlet"] = n
          /\ "shown" \in Figures /\ "shown" \in DOMAIN figures /\ figures["shown"] = m
          /\ "revenue" \in Figures /\ "revenue" \notin DOMAIN figures
      BY DEF Figures
    <2> HIDE DEF figures
    <2>5. /\ BooksTypeOK' /\ report'.op = "tax" /\ report'.stage = "done"
          /\ report.op = "tax" /\ report.stage = "outlets"
          /\ report'.from = report.from /\ report'.to = report.to
          /\ report'.is["byOutlet"] = n
          /\ report'.is["shown"] = m
          /\ report'.is["revenue"] = report.is["revenue"]
          /\ UNCHANGED <<today, sales, spent, stirred, postings>>
      BY <1>0, <2>2, <2>3, <2>4, StepIs
    <2>6. /\ report'.is["byOutlet"] = TaxesSum(sales', report'.from, report'.to)
          /\ report'.is["shown"] = Cardinality(ShownOf(sales', report'.from, report'.to))
      BY <2>1, <2>5, FiguresAre
    <2>7. ~stirred => report'.is["revenue"] = PPN(RevenueOf(sales', report'.from, report'.to))
      BY <2>5 DEF BooksInv, ReadNow, TodayCounts, Stage
    <2>8. QED
      BY <2>5, <2>6, <2>7 DEF BooksInv, ReadNow, TodayCounts, Stage
  <1>3. ASSUME NEW shown \in SUBSET Shown,
               Step("tax", "outlets", "short",
                    [byOutlet |-> SumTaxes(shown), shown |-> Cardinality(shown)])
        PROVE  BooksInv'
    <2>1. PICK n \in Nat, m \in Nat : n = SumTaxes(shown) /\ m = Cardinality(shown)
      BY <1>0, ShortFiguresNat
    <2> DEFINE figures == [byOutlet |-> n, shown |-> m]
    <2>2. Step("tax", "outlets", "short", figures)
      BY <1>3, <2>1 DEF Step
    <2>3. DOMAIN figures \in SUBSET Figures /\ (\A f \in DOMAIN figures : figures[f] \in Nat)
          /\ "short" \in Stages
      BY DEF Figures, Stages
    <2> HIDE DEF figures
    <2>4. BooksTypeOK' /\ report'.op = "tax" /\ report'.stage = "short"
      BY <1>0, <2>2, <2>3, StepIs
    <2>5. QED
      BY <2>4 DEF BooksInv, ReadNow, TodayCounts, Stage
  <1>4. QED
    BY <1>1, <1>2, <1>3 DEF TaxStep

\* Today is part of its week and of its month.
LEMMA SumsSince ==
    ASSUME BooksTypeOK
    PROVE  /\ \A d : SumSales(SalesSince(d)) \in Nat
           /\ \A a, b : SumSales(SalesIn(a, b)) \in Nat
           /\ \A a, b : SumSpent(SpentIn(a, b)) \in Nat
           /\ SumSales(SalesSince(today)) <= SumSales(SalesSince(WeekStart(today)))
           /\ SumSales(SalesSince(today)) <= SumSales(SalesSince(MonthStart(today)))
  <1>1. (\A d : SalesSince(d) \in SUBSET SaleIds) /\ (\A a, b : SalesIn(a, b) \in SUBSET SaleIds)
        /\ \A a, b : SpentIn(a, b) \in SUBSET ExpenseIds
    BY DEF SalesSince, SalesIn, SpentIn
  <1>2. (\A d : SumSales(SalesSince(d)) \in Nat) /\ (\A a, b : SumSales(SalesIn(a, b)) \in Nat)
        /\ \A a, b : SumSpent(SpentIn(a, b)) \in Nat
    BY <1>1, SumsNat
  <1>3. PICK t \in Nat, w \in Int, m \in Int :
           t = today /\ w = WeekStart(today) /\ m = MonthStart(today) /\ w <= t /\ m <= t
    <2>1. PICK t \in Nat : t = today
      BY SpanAssumption DEF BooksTypeOK
    <2>2. t % 7 \in 0 .. 6
      OBVIOUS
    <2>3. WeekStart(t) \in Int /\ WeekStart(t) <= t
      BY <2>2 DEF WeekStart
    <2>4. PICK l \in Nat \ {0} : l = MonthLength
      BY MonthAssumption
    <2>5. t % l \in Nat
      OBVIOUS
    <2>6. MonthStart(t) \in Int /\ MonthStart(t) <= t
      BY <2>4, <2>5 DEF MonthStart
    <2>7. QED
      BY <2>1, <2>3, <2>6
  <1>4. \A i \in SaleIds : sales[i] # NoSale => sales[i].day \in Nat
    <2> SUFFICES ASSUME NEW i \in SaleIds, sales[i] # NoSale PROVE sales[i].day \in Nat
      OBVIOUS
    <2>1. sales[i] \in SaleRows
      BY DEF BooksTypeOK
    <2>2. QED
      BY <2>1, SpanAssumption DEF SaleRows
  <1>5. SalesSince(t) \in SUBSET SalesSince(w) /\ SalesSince(t) \in SUBSET SalesSince(m)
    BY <1>3, <1>4 DEF SalesSince
  <1>6. \A S \in SalesRows : \A ids \in SUBSET SaleIds : \A part \in SUBSET ids :
           SalesOver(S, part) <= SalesOver(S, ids)
    BY SalesMonotone
  <1>7. sales \in SalesRows
    BY DEF BooksTypeOK, SalesRows
  <1>8. SumSales(SalesSince(t)) <= SumSales(SalesSince(w)) /\ SumSales(SalesSince(t)) <= SumSales(SalesSince(m))
    BY <1>1, <1>5, <1>6, <1>7, SumSalesIs
  <1>9. QED
    BY <1>2, <1>3, <1>8

LEMMA SummaryKeeps ==
    ASSUME BooksInv, SummaryStep
    PROVE  BooksInv'
  <1>0. BooksTypeOK
    BY DEF BooksInv
  <1>1. CASE Step("summary", "revenue", "last",
              [today |-> SumSales(SalesSince(today)), week |-> SumSales(SalesSince(WeekStart(today))), month |-> SumSales(SalesSince(MonthStart(today)))])
    <2>1. PICK n \in Nat, w \in Nat, m \in Nat :
             n = SumSales(SalesSince(today)) /\ w = SumSales(SalesSince(WeekStart(today))) /\ m = SumSales(SalesSince(MonthStart(today)))
      BY <1>0, SumsSince
    <2> DEFINE figures == [today |-> n, week |-> w, month |-> m]
    <2>2. Step("summary", "revenue", "last", figures)
      BY <1>1, <2>1 DEF Step
    <2>3. DOMAIN figures \in SUBSET Figures /\ (\A f \in DOMAIN figures : figures[f] \in Nat)
          /\ "last" \in Stages
      BY DEF Figures, Stages
    <2>4. /\ "today" \in Figures /\ "today" \in DOMAIN figures /\ figures["today"] = n
          /\ "week" \in Figures /\ "week" \in DOMAIN figures /\ figures["week"] = w
          /\ "month" \in Figures /\ "month" \in DOMAIN figures /\ figures["month"] = m
      BY DEF Figures
    <2> HIDE DEF figures
    <2>5. /\ BooksTypeOK' /\ report'.op = "summary" /\ report'.stage = "last"
          /\ report.op = "summary" /\ report.stage = "revenue"
          /\ report'.from = report.from /\ report'.to = report.to
          /\ report'.is["today"] = n
          /\ report'.is["week"] = w
          /\ report'.is["month"] = m
          /\ UNCHANGED <<today, sales, spent, stirred, postings>>
      BY <1>0, <2>2, <2>3, <2>4, StepIs
    <2>6. report'.is["today"] <= report'.is["week"] /\ report'.is["today"] <= report'.is["month"]
      BY <1>0, <2>1, <2>5, SumsSince
    <2>7. QED
      BY <2>5, <2>6 DEF BooksInv, ReadNow, TodayCounts, Stage
  <1>2. CASE Step("summary", "last", "expenses",
              [last |-> SumSales(SalesIn(MonthStart(today) - MonthLength, MonthStart(today) - 1))])
    <2>1. PICK n \in Nat :
             n = SumSales(SalesIn(MonthStart(today) - MonthLength, MonthStart(today) - 1))
      BY <1>0, SumsSince
    <2> DEFINE figures == [last |-> n]
    <2>2. Step("summary", "last", "expenses", figures)
      BY <1>2, <2>1 DEF Step
    <2>3. DOMAIN figures \in SUBSET Figures /\ (\A f \in DOMAIN figures : figures[f] \in Nat)
          /\ "expenses" \in Stages
      BY DEF Figures, Stages
    <2>4. /\ "last" \in Figures /\ "last" \in DOMAIN figures /\ figures["last"] = n
          /\ "today" \in Figures /\ "today" \notin DOMAIN figures
          /\ "week" \in Figures /\ "week" \notin DOMAIN figures
          /\ "month" \in Figures /\ "month" \notin DOMAIN figures
      BY DEF Figures
    <2> HIDE DEF figures
    <2>5. /\ BooksTypeOK' /\ report'.op = "summary" /\ report'.stage = "expenses"
          /\ report.op = "summary" /\ report.stage = "last"
          /\ report'.from = report.from /\ report'.to = report.to
          /\ report'.is["last"] = n
          /\ report'.is["today"] = report.is["today"]
          /\ report'.is["week"] = report.is["week"]
          /\ report'.is["month"] = report.is["month"]
          /\ UNCHANGED <<today, sales, spent, stirred, postings>>
      BY <1>0, <2>2, <2>3, <2>4, StepIs
    <2>6. report'.is["today"] <= report'.is["week"] /\ report'.is["today"] <= report'.is["month"]
      BY <2>5 DEF BooksInv, ReadNow, TodayCounts, Stage
    <2>7. QED
      BY <2>5, <2>6 DEF BooksInv, ReadNow, TodayCounts, Stage
  <1>3. CASE Step("summary", "expenses", "done", [expenses |-> ExpensesIn])
    <2>1. PICK n \in Nat :
             n = ExpensesIn
      BY <1>0, FiguresNat
    <2> DEFINE figures == [expenses |-> n]
    <2>2. Step("summary", "expenses", "done", figures)
      BY <1>3, <2>1 DEF Step
    <2>3. DOMAIN figures \in SUBSET Figures /\ (\A f \in DOMAIN figures : figures[f] \in Nat)
          /\ "done" \in Stages
      BY DEF Figures, Stages
    <2>4. /\ "expenses" \in Figures /\ "expenses" \in DOMAIN figures /\ figures["expenses"] = n
          /\ "today" \in Figures /\ "today" \notin DOMAIN figures
          /\ "week" \in Figures /\ "week" \notin DOMAIN figures
          /\ "month" \in Figures /\ "month" \notin DOMAIN figures
      BY DEF Figures
    <2> HIDE DEF figures
    <2>5. /\ BooksTypeOK' /\ report'.op = "summary" /\ report'.stage = "done"
          /\ report.op = "summary" /\ report.stage = "expenses"
          /\ report'.from = report.from /\ report'.to = report.to
          /\ report'.is["expenses"] = n
          /\ report'.is["today"] = report.is["today"]
          /\ report'.is["week"] = report.is["week"]
          /\ report'.is["month"] = report.is["month"]
          /\ UNCHANGED <<today, sales, spent, stirred, postings>>
      BY <1>0, <2>2, <2>3, <2>4, StepIs
    <2>6. report'.is["today"] <= report'.is["week"] /\ report'.is["today"] <= report'.is["month"]
      BY <2>5 DEF BooksInv, ReadNow, TodayCounts, Stage
    <2>7. QED
      BY <2>5, <2>6 DEF BooksInv, ReadNow, TodayCounts, Stage
  <1>4. CASE Step("summary", "expenses", "done", [expenses |-> 0])
    <2> DEFINE figures == [expenses |-> 0]
    <2>2. Step("summary", "expenses", "done", figures)
      BY <1>4 DEF Step
    <2>3. DOMAIN figures \in SUBSET Figures /\ (\A f \in DOMAIN figures : figures[f] \in Nat)
          /\ "done" \in Stages
      BY DEF Figures, Stages
    <2>4. /\ "expenses" \in Figures /\ "expenses" \in DOMAIN figures /\ figures["expenses"] = 0
          /\ "today" \in Figures /\ "today" \notin DOMAIN figures
          /\ "week" \in Figures /\ "week" \notin DOMAIN figures
          /\ "month" \in Figures /\ "month" \notin DOMAIN figures
      BY DEF Figures
    <2> HIDE DEF figures
    <2>5. /\ BooksTypeOK' /\ report'.op = "summary" /\ report'.stage = "done"
          /\ report.op = "summary" /\ report.stage = "expenses"
          /\ report'.from = report.from /\ report'.to = report.to
          /\ report'.is["expenses"] = 0
          /\ report'.is["today"] = report.is["today"]
          /\ report'.is["week"] = report.is["week"]
          /\ report'.is["month"] = report.is["month"]
          /\ UNCHANGED <<today, sales, spent, stirred, postings>>
      BY <1>0, <2>2, <2>3, <2>4, StepIs
    <2>6. report'.is["today"] <= report'.is["week"] /\ report'.is["today"] <= report'.is["month"]
      BY <2>5 DEF BooksInv, ReadNow, TodayCounts, Stage
    <2>7. QED
      BY <2>5, <2>6 DEF BooksInv, ReadNow, TodayCounts, Stage
  <1>5. QED
    BY <1>1, <1>2, <1>3, <1>4 DEF SummaryStep

LEMMA RangeKeeps ==
    ASSUME BooksInv, RangeStep
    PROVE  BooksInv'
  <1>0. BooksTypeOK
    BY DEF BooksInv
  <1>1. CASE Step("range", "revenue", "expenses", [revenue |-> RevenueIn])
    <2>1. PICK n \in Nat :
             n = RevenueIn
      BY <1>0, FiguresNat
    <2> DEFINE figures == [revenue |-> n]
    <2>2. Step("range", "revenue", "expenses", figures)
      BY <1>1, <2>1 DEF Step
    <2>3. DOMAIN figures \in SUBSET Figures /\ (\A f \in DOMAIN figures : figures[f] \in Nat)
          /\ "expenses" \in Stages
      BY DEF Figures, Stages
    <2>4. /\ "revenue" \in Figures /\ "revenue" \in DOMAIN figures /\ figures["revenue"] = n
      BY DEF Figures
    <2> HIDE DEF figures
    <2>5. /\ BooksTypeOK' /\ report'.op = "range" /\ report'.stage = "expenses"
          /\ report.op = "range" /\ report.stage = "revenue"
          /\ report'.from = report.from /\ report'.to = report.to
          /\ report'.is["revenue"] = n
          /\ UNCHANGED <<today, sales, spent, stirred, postings>>
      BY <1>0, <2>2, <2>3, <2>4, StepIs
    <2>6. report'.from <= report'.to
      BY <2>5 DEF BooksInv
    <2>7. report'.is["revenue"] = RevenueOf(sales', report'.from, report'.to)
      BY <2>1, <2>5, FiguresAre
    <2>8. QED
      BY <2>5, <2>6, <2>7 DEF BooksInv, ReadNow, TodayCounts, Stage
  <1>2. CASE Step("range", "expenses", "last", [expenses |-> ExpensesIn])
    <2>1. PICK n \in Nat :
             n = ExpensesIn
      BY <1>0, FiguresNat
    <2> DEFINE figures == [expenses |-> n]
    <2>2. Step("range", "expenses", "last", figures)
      BY <1>2, <2>1 DEF Step
    <2>3. DOMAIN figures \in SUBSET Figures /\ (\A f \in DOMAIN figures : figures[f] \in Nat)
          /\ "last" \in Stages
      BY DEF Figures, Stages
    <2>4. /\ "expenses" \in Figures /\ "expenses" \in DOMAIN figures /\ figures["expenses"] = n
          /\ "revenue" \in Figures /\ "revenue" \notin DOMAIN figures
      BY DEF Figures
    <2> HIDE DEF figures
    <2>5. /\ BooksTypeOK' /\ report'.op = "range" /\ report'.stage = "last"
          /\ report.op = "range" /\ report.stage = "expenses"
          /\ report'.from = report.from /\ report'.to = report.to
          /\ report'.is["expenses"] = n
          /\ report'.is["revenue"] = report.is["revenue"]
          /\ UNCHANGED <<today, sales, spent, stirred, postings>>
      BY <1>0, <2>2, <2>3, <2>4, StepIs
    <2>6. report'.from <= report'.to
      BY <2>5 DEF BooksInv
    <2>7. ~stirred => report'.is["revenue"] = RevenueOf(sales', report'.from, report'.to)
      BY <2>5 DEF BooksInv, ReadNow, TodayCounts, Stage
    <2>8. QED
      BY <2>5, <2>6, <2>7 DEF BooksInv, ReadNow, TodayCounts, Stage
  <1>3. CASE Step("range", "last", "lastExpenses",
              [last |-> SumSales(SalesIn(PreviousFrom(report.from, report.to), PreviousTo(report.from)))])
    <2>1. PICK n \in Nat :
             n = SumSales(SalesIn(PreviousFrom(report.from, report.to), PreviousTo(report.from)))
      BY <1>0, SumsSince
    <2> DEFINE figures == [last |-> n]
    <2>2. Step("range", "last", "lastExpenses", figures)
      BY <1>3, <2>1 DEF Step
    <2>3. DOMAIN figures \in SUBSET Figures /\ (\A f \in DOMAIN figures : figures[f] \in Nat)
          /\ "lastExpenses" \in Stages
      BY DEF Figures, Stages
    <2>4. /\ "last" \in Figures /\ "last" \in DOMAIN figures /\ figures["last"] = n
          /\ "revenue" \in Figures /\ "revenue" \notin DOMAIN figures
      BY DEF Figures
    <2> HIDE DEF figures
    <2>5. /\ BooksTypeOK' /\ report'.op = "range" /\ report'.stage = "lastExpenses"
          /\ report.op = "range" /\ report.stage = "last"
          /\ report'.from = report.from /\ report'.to = report.to
          /\ report'.is["last"] = n
          /\ report'.is["revenue"] = report.is["revenue"]
          /\ UNCHANGED <<today, sales, spent, stirred, postings>>
      BY <1>0, <2>2, <2>3, <2>4, StepIs
    <2>6. report'.from <= report'.to
      BY <2>5 DEF BooksInv
    <2>7. report'.is["last"] = RevenueOf(sales', PreviousFrom(report'.from, report'.to), PreviousTo(report'.from))
      BY <2>1, <2>5, SumSalesIs DEF RevenueOf, SalesIn, SoldFrom, PreviousFrom, PreviousTo
    <2>8. ~stirred => report'.is["revenue"] = RevenueOf(sales', report'.from, report'.to)
      BY <2>5 DEF BooksInv, ReadNow, TodayCounts, Stage
    <2>9. QED
      BY <2>5, <2>6, <2>7, <2>8 DEF BooksInv, ReadNow, TodayCounts, Stage
  <1>4. CASE Step("range", "lastExpenses", "done",
              [lastExpenses |-> SumSpent(SpentIn(PreviousFrom(report.from, report.to), PreviousTo(report.from)))])
    <2>1. PICK n \in Nat :
             n = SumSpent(SpentIn(PreviousFrom(report.from, report.to), PreviousTo(report.from)))
      BY <1>0, SumsSince
    <2> DEFINE figures == [lastExpenses |-> n]
    <2>2. Step("range", "lastExpenses", "done", figures)
      BY <1>4, <2>1 DEF Step
    <2>3. DOMAIN figures \in SUBSET Figures /\ (\A f \in DOMAIN figures : figures[f] \in Nat)
          /\ "done" \in Stages
      BY DEF Figures, Stages
    <2>4. /\ "lastExpenses" \in Figures /\ "lastExpenses" \in DOMAIN figures /\ figures["lastExpenses"] = n
          /\ "revenue" \in Figures /\ "revenue" \notin DOMAIN figures
          /\ "last" \in Figures /\ "last" \notin DOMAIN figures
      BY DEF Figures
    <2> HIDE DEF figures
    <2>5. /\ BooksTypeOK' /\ report'.op = "range" /\ report'.stage = "done"
          /\ report.op = "range" /\ report.stage = "lastExpenses"
          /\ report'.from = report.from /\ report'.to = report.to
          /\ report'.is["lastExpenses"] = n
          /\ report'.is["revenue"] = report.is["revenue"]
          /\ report'.is["last"] = report.is["last"]
          /\ UNCHANGED <<today, sales, spent, stirred, postings>>
      BY <1>0, <2>2, <2>3, <2>4, StepIs
    <2>6. report'.from <= report'.to
      BY <2>5 DEF BooksInv
    <2>7. ~stirred => /\ report'.is["revenue"] = RevenueOf(sales', report'.from, report'.to)
                      /\ report'.is["last"] = RevenueOf(sales', PreviousFrom(report'.from, report'.to), PreviousTo(report'.from))
      BY <2>5 DEF BooksInv, ReadNow, TodayCounts, Stage
    <2>8. QED
      BY <2>5, <2>6, <2>7 DEF BooksInv, ReadNow, TodayCounts, Stage
  <1>5. CASE Step("range", "lastExpenses", "done", [lastExpenses |-> 0])
    <2> DEFINE figures == [lastExpenses |-> 0]
    <2>2. Step("range", "lastExpenses", "done", figures)
      BY <1>5 DEF Step
    <2>3. DOMAIN figures \in SUBSET Figures /\ (\A f \in DOMAIN figures : figures[f] \in Nat)
          /\ "done" \in Stages
      BY DEF Figures, Stages
    <2>4. /\ "lastExpenses" \in Figures /\ "lastExpenses" \in DOMAIN figures /\ figures["lastExpenses"] = 0
          /\ "revenue" \in Figures /\ "revenue" \notin DOMAIN figures
          /\ "last" \in Figures /\ "last" \notin DOMAIN figures
      BY DEF Figures
    <2> HIDE DEF figures
    <2>5. /\ BooksTypeOK' /\ report'.op = "range" /\ report'.stage = "done"
          /\ report.op = "range" /\ report.stage = "lastExpenses"
          /\ report'.from = report.from /\ report'.to = report.to
          /\ report'.is["lastExpenses"] = 0
          /\ report'.is["revenue"] = report.is["revenue"]
          /\ report'.is["last"] = report.is["last"]
          /\ UNCHANGED <<today, sales, spent, stirred, postings>>
      BY <1>0, <2>2, <2>3, <2>4, StepIs
    <2>6. report'.from <= report'.to
      BY <2>5 DEF BooksInv
    <2>7. ~stirred => /\ report'.is["revenue"] = RevenueOf(sales', report'.from, report'.to)
                      /\ report'.is["last"] = RevenueOf(sales', PreviousFrom(report'.from, report'.to), PreviousTo(report'.from))
      BY <2>5 DEF BooksInv, ReadNow, TodayCounts, Stage
    <2>8. QED
      BY <2>5, <2>6, <2>7 DEF BooksInv, ReadNow, TodayCounts, Stage
  <1>6. QED
    BY <1>1, <1>2, <1>3, <1>4, <1>5 DEF RangeStep

LEMMA NoReportIs == NoReport \in Reports /\ NoReport.op = "none" /\ NoReport.stage = "none"
  <1>1. [f \in Figures |-> 0] \in [Figures -> Nat]
    OBVIOUS
  <1>2. QED
    BY <1>1 DEF NoReport, Reports, Stages

\* After a write a report need not agree with the rows any more; without one there
\* is nothing to agree.
LEMMA PostKeeps ==
    ASSUME BooksInv, Post, sales' \in SalesRows, spent' \in SpentRows
    PROVE  BooksInv'
  <1>a. postings' \in 0 .. MaxPostings
    BY MonthAssumption DEF BooksInv, BooksTypeOK, Post
  <1>b. stirred' \in BOOLEAN
    <2>1. CASE report = NoReport
      BY <2>1 DEF Post
    <2>2. CASE report # NoReport
      BY <2>2 DEF Post
    <2>3. QED
      BY <2>1, <2>2
  <1>c. UNCHANGED <<today, report>>
    BY DEF Post
  <1>1. BooksTypeOK'
    BY <1>a, <1>b, <1>c DEF BooksInv, BooksTypeOK, SalesRows, SpentRows
  <1>2. report' = report /\ (~stirred' => report = NoReport)
    <2>1. CASE report = NoReport
      BY <2>1, <1>c
    <2>2. CASE report # NoReport
      BY <2>2, <1>c DEF Post
    <2>3. QED
      BY <2>1, <2>2
  <1>3. (report.op = "range" => report.from <= report.to)' /\ TodayCounts'
    BY <1>2 DEF BooksInv, TodayCounts, Stage
  <1>4. ~stirred' => ReadNow'
    <2>1. ~stirred' => report'.op = "none"
      BY <1>2, NoReportIs
    <2>2. QED
      BY <2>1 DEF ReadNow, Stage
  <1>5. QED
    BY <1>1, <1>3, <1>4 DEF BooksInv

\* The writes, each of which keeps the rows in their type.
LEMMA UploadSaleKeeps ==
    ASSUME BooksInv, NEW i \in SaleIds, NEW row \in SaleRows, UploadSale(i, row)
    PROVE  BooksInv'
  <1>1. sales \in SalesRows /\ spent \in SpentRows
    BY DEF BooksInv, BooksTypeOK, SalesRows, SpentRows
  <1>2. Post /\ spent' = spent /\ sales' = [sales EXCEPT ![i] = row]
    BY DEF UploadSale
  <1>3. sales' \in SalesRows
    BY <1>1, <1>2 DEF SalesRows
  <1>4. QED
    BY <1>1, <1>2, <1>3, PostKeeps

LEMMA UploadStatusKeeps ==
    ASSUME BooksInv, NEW i \in SaleIds, UploadStatus(i)
    PROVE  BooksInv'
  <1>1. sales \in SalesRows /\ spent \in SpentRows
    BY DEF BooksInv, BooksTypeOK, SalesRows, SpentRows
  <1>2. Post /\ spent' = spent /\ sales[i] # NoSale
    BY DEF UploadStatus
  <1>3. PICK row \in SaleRows : row = sales[i]
    BY <1>1, <1>2 DEF SalesRows
  <1>4. [row EXCEPT !.completed = ~row.completed] \in SaleRows
    <2>1. (~row.completed) \in BOOLEAN
      BY ZenonT(20) DEF SaleRows
    <2>2. QED
      BY <2>1 DEF SaleRows
  <1>5. sales' = [sales EXCEPT ![i] = [row EXCEPT !.completed = ~row.completed]]
    BY <1>3 DEF UploadStatus
  <1>6. sales' \in SalesRows
    BY <1>1, <1>4, <1>5 DEF SalesRows
  <1>7. QED
    BY <1>1, <1>2, <1>6, PostKeeps

LEMMA CreateExpenseKeeps ==
    ASSUME BooksInv, NEW e \in ExpenseIds, NEW row \in Expenses, CreateExpense(e, row)
    PROVE  BooksInv'
  <1>1. sales \in SalesRows /\ spent \in SpentRows
    BY DEF BooksInv, BooksTypeOK, SalesRows, SpentRows
  <1>2. Post /\ sales' = sales /\ spent' = [spent EXCEPT ![e] = row]
    BY DEF CreateExpense
  <1>3. spent' \in SpentRows
    BY <1>1, <1>2 DEF SpentRows
  <1>4. QED
    BY <1>1, <1>2, <1>3, PostKeeps

LEMMA UpdateExpenseKeeps ==
    ASSUME BooksInv, NEW e \in ExpenseIds, NEW given \in [amount: {1, 2}] \cup [filed: BOOLEAN],
           UpdateExpense(e, given)
    PROVE  BooksInv'
  <1>1. sales \in SalesRows /\ spent \in SpentRows
    BY DEF BooksInv, BooksTypeOK, SalesRows, SpentRows
  <1>2. Post /\ sales' = sales /\ spent[e] # NoExpense
    BY DEF UpdateExpense
  <1>3. PICK row \in Expenses : row = spent[e]
    BY <1>1, <1>2 DEF SpentRows
  <1> DEFINE new == [c \in DOMAIN row |-> IF c \in DOMAIN given THEN given[c] ELSE row[c]]
  <1>4. new \in Expenses
    <2>1. /\ DOMAIN row = {"filed", "day", "amount"}
          /\ row.filed \in BOOLEAN /\ row.day \in Span /\ row.amount \in {1, 2}
      BY DEF Expenses
    <2>2. "filed" \in DOMAIN given => given["filed"] \in BOOLEAN
      BY DEF Expenses
    <2>3. "amount" \in DOMAIN given => given["amount"] \in {1, 2}
      OBVIOUS
    <2>4. "day" \notin DOMAIN given
      OBVIOUS
    <2>5. new["filed"] \in BOOLEAN /\ new["day"] \in Span /\ new["amount"] \in {1, 2}
      BY <2>1, <2>2, <2>3, <2>4
    <2>6. new = [filed |-> new["filed"], day |-> new["day"], amount |-> new["amount"]]
      BY <2>1
    <2> HIDE DEF new
    <2>7. QED
      BY <2>5, <2>6 DEF Expenses
  <1>5. spent' = [spent EXCEPT ![e] = new]
    BY <1>3 DEF UpdateExpense
  <1> HIDE DEF new
  <1>6. spent' \in SpentRows
    BY <1>1, <1>4, <1>5 DEF SpentRows
  <1>7. QED
    BY <1>1, <1>2, <1>6, PostKeeps

LEMMA DeleteExpenseKeeps ==
    ASSUME BooksInv, NEW e \in ExpenseIds, DeleteExpense(e)
    PROVE  BooksInv'
  <1>1. sales \in SalesRows /\ spent \in SpentRows
    BY DEF BooksInv, BooksTypeOK, SalesRows, SpentRows
  <1>2. Post /\ sales' = sales /\ spent' = [spent EXCEPT ![e] = NoExpense]
    BY DEF DeleteExpense
  <1>3. spent' \in SpentRows
    BY <1>1, <1>2 DEF SpentRows
  <1>4. QED
    BY <1>1, <1>2, <1>3, PostKeeps

\* A report that is begun has read nothing.
LEMMA OpenKeeps ==
    ASSUME BooksInv, NEW op \in {"pnl", "cash", "tax", "summary", "range"},
           NEW from \in Int, NEW to \in Int, op = "range" => from <= to, Open(op, from, to)
    PROVE  BooksInv'
  <1>1. UNCHANGED <<today, sales, spent, postings>> /\ stirred' = FALSE
    BY DEF Open
  <1>2. report' = [NoReport EXCEPT !.op = op, !.stage = "revenue", !.from = from, !.to = to]
    BY DEF Open
  <1>3. /\ report' \in Reports /\ report'.op = op /\ report'.stage = "revenue"
        /\ report'.from = from /\ report'.to = to
    BY <1>2, NoReportIs DEF Reports, Stages
  <1>4. BooksTypeOK'
    BY <1>1, <1>3 DEF BooksInv, BooksTypeOK
  <1>5. QED
    BY <1>3, <1>4 DEF BooksInv, ReadNow, TodayCounts, Stage

LEMMA CloseKeeps ==
    ASSUME BooksInv, Close
    PROVE  BooksInv'
  <1>1. UNCHANGED <<today, sales, spent, postings>> /\ stirred' = FALSE /\ report' = NoReport
    BY DEF Close
  <1>2. BooksTypeOK' /\ report'.op = "none"
    BY <1>1, NoReportIs DEF BooksInv, BooksTypeOK
  <1>3. QED
    BY <1>2 DEF BooksInv, ReadNow, TodayCounts, Stage

\* The invariant holds at first.
LEMMA InitBooks == BooksInit => BooksInv
  <1> SUFFICES ASSUME BooksInit PROVE BooksInv
    OBVIOUS
  <1>a. sales \in [SaleIds -> SaleRows \cup {NoSale}] /\ spent \in [ExpenseIds -> Expenses \cup {NoExpense}]
    BY DEF BooksInit
  <1>b. today \in Span /\ postings \in 0 .. MaxPostings
    BY MonthAssumption DEF BooksInit
  <1>d. stirred \in BOOLEAN
    BY Zenon DEF BooksInit
  <1>c. report \in Reports /\ report.op = "none"
    BY NoReportIs DEF BooksInit
  <1>1. BooksTypeOK /\ report.op = "none"
    BY <1>a, <1>b, <1>c, <1>d DEF BooksTypeOK
  <1>2. QED
    BY <1>1 DEF BooksInv, ReadNow, TodayCounts, Stage

\* Each action keeps it.
LEMMA NextBooks ==
    ASSUME BooksInv, [BooksNext]_bookVars
    PROVE  BooksInv'
  <1>0. \A d \in Span : d \in Int
    BY SpanAssumption
  <1>1. CASE \E i \in SaleIds : UploadStatus(i) \/ \E row \in SaleRows : row.completed /\ UploadSale(i, row)
    BY <1>1, UploadStatusKeeps, UploadSaleKeeps
  <1>2. CASE \E e \in ExpenseIds :
                \/ \E row \in Expenses : CreateExpense(e, row)
                \/ \E given \in [amount: {1, 2}] \cup [filed: BOOLEAN] : UpdateExpense(e, given)
                \/ DeleteExpense(e)
    BY <1>2, CreateExpenseKeeps, UpdateExpenseKeeps, DeleteExpenseKeeps
  <1>3. CASE \E from, to \in Span :
                \/ GetPnLReport(from, to) \/ GetCashFlowReport(from, to)
                \/ GetTaxReport(from, to) \/ GetSummaryByDateRange(from, to)
    <2>1. PICK from \in Int, to \in Int :
              \/ GetPnLReport(from, to) \/ GetCashFlowReport(from, to)
              \/ GetTaxReport(from, to) \/ GetSummaryByDateRange(from, to)
      BY <1>0, <1>3
    <2>2. CASE GetPnLReport(from, to)
      BY <2>2, OpenKeeps DEF GetPnLReport
    <2>3. CASE GetCashFlowReport(from, to)
      BY <2>3, OpenKeeps DEF GetCashFlowReport
    <2>4. CASE GetTaxReport(from, to)
      BY <2>4, OpenKeeps DEF GetTaxReport
    <2>5. CASE GetSummaryByDateRange(from, to)
      BY <2>5, OpenKeeps DEF GetSummaryByDateRange
    <2>6. QED
      BY <2>1, <2>2, <2>3, <2>4, <2>5
  <1>4. CASE GetSummary
    <2>1. PICK t \in Nat : t = today
      BY SpanAssumption DEF BooksInv, BooksTypeOK
    <2>2. PICK m \in Int : m = MonthStart(t)
      <3>1. PICK l \in Nat \ {0} : l = MonthLength
        BY MonthAssumption
      <3>2. t - (t % l) \in Int
        OBVIOUS
      <3>3. QED
        BY <3>1, <3>2 DEF MonthStart
    <2>3. Open("summary", m, t)
      <3>1. MonthStart(today) = m
        BY <2>1, <2>2
      <3>2. QED
        BY <1>4, <2>1, <3>1 DEF GetSummary, Open
    <2>4. QED
      BY <2>3, OpenKeeps
  <1>5. CASE PnLStep
    BY <1>5, PnLKeeps
  <1>6. CASE CashFlowStep
    BY <1>6, CashFlowKeeps
  <1>7. CASE TaxStep
    BY <1>7, TaxKeeps
  <1>8. CASE SummaryStep
    BY <1>8, SummaryKeeps
  <1>9. CASE RangeStep
    BY <1>9, RangeKeeps
  <1>10. CASE Close
    BY <1>10, CloseKeeps
  <1>11. CASE UNCHANGED bookVars
    <2>1. BooksTypeOK' /\ (~stirred => ReadNow)' /\ TodayCounts'
      BY <1>11 DEF bookVars, BooksInv, BooksTypeOK, ReadNow, TodayCounts, Stage
    <2>2. (report.op = "range" => report.from <= report.to)'
      BY <1>11 DEF bookVars, BooksInv
    <2>3. QED
      BY <2>1, <2>2 DEF BooksInv
  <1>12. QED
    BY <1>1, <1>2, <1>3, <1>4, <1>5, <1>6, <1>7, <1>8, <1>9, <1>10, <1>11 DEF BooksNext

\* Figures that are those of the rows agree with one another.
LEMMA AgreeByInv ==
    ASSUME BooksInv
    PROVE  FiguresAgree
  <1>1. sales \in SalesRows /\ spent \in SpentRows /\ report \in Reports
    BY DEF BooksInv, BooksTypeOK, SalesRows, SpentRows
  <1>2. BreakdownComplete
    <2>1. \A P \in SpentRows : \A a, b : BreakdownOf(P, a, b) = ExpensesOf(P, a, b)
      BY BreakdownWhole
    <2>2. QED
      BY <1>1, <2>1 DEF BreakdownComplete, Made, BooksInv, ReadNow, Stage
  <1>3. TaxDriftBounded
    <2> SUFFICES ASSUME Made("tax"), ~stirred
                 PROVE  LET drift == report.is["revenue"] - report.is["byOutlet"]
                        IN  drift >= 0 /\ (drift = 0 \/ drift < report.is["shown"])
      BY DEF TaxDriftBounded
    <2>1. \A S \in SalesRows : \A a, b, drift : drift = PPN(RevenueOf(S, a, b)) - TaxesSum(S, a, b)
             => drift >= 0 /\ (drift = 0 \/ drift < Cardinality(ShownOf(S, a, b)))
      BY TaxDrift
    <2>2. /\ report.is["revenue"] = PPN(RevenueOf(sales, report.from, report.to))
          /\ report.is["byOutlet"] = TaxesSum(sales, report.from, report.to)
          /\ report.is["shown"] = Cardinality(ShownOf(sales, report.from, report.to))
      BY DEF Made, BooksInv, ReadNow, Stage
    <2>3. QED
      BY <1>1, <2>1, <2>2
  <1>4. TodayWithinWeekAndMonth
    BY DEF TodayWithinWeekAndMonth, Made, BooksInv, TodayCounts, Stage
  <1>5. PeriodsAbut
    <2> SUFFICES ASSUME Made("range"), ~stirred
                 PROVE  report.is["revenue"] + report.is["last"]
                          = SumSales(SalesIn(PreviousFrom(report.from, report.to), report.to))
      BY DEF PeriodsAbut
    <2>1. PICK b \in Int, c \in Int : b = report.from /\ c = report.to /\ b <= c
      BY <1>1 DEF Reports, Made, BooksInv
    <2>2. PICK a \in Int : a = PreviousFrom(b, c) /\ a <= b
      BY <2>1 DEF PreviousFrom
    <2>3. PreviousTo(b) = b - 1
      BY DEF PreviousTo
    <2>4. report.is["revenue"] = RevenueOf(sales, b, c) /\ report.is["last"] = RevenueOf(sales, a, b - 1)
      BY <2>1, <2>2, <2>3 DEF Made, BooksInv, ReadNow, Stage
    <2>5. \A S \in SalesRows : RevenueOf(S, b, c) + RevenueOf(S, a, b - 1) = RevenueOf(S, a, c)
      BY <2>1, <2>2, PeriodsAdd
    <2>6. SumSales(SalesIn(a, c)) = RevenueOf(sales, a, c)
      BY SumSalesIs DEF RevenueOf, SalesIn, SoldFrom
    <2>7. QED
      BY <1>1, <2>1, <2>2, <2>4, <2>5, <2>6
  <1>6. QED
    BY <1>2, <1>3, <1>4, <1>5 DEF FiguresAgree

LEMMA BooksAlways == BooksInit /\ [][BooksNext]_bookVars => []BooksInv
  BY InitBooks, NextBooks, PTL

\* A report's figures are numbers, whatever is written while it is made.
THEOREM BooksTypeCorrect == BooksSpec => []BooksTypeOK
  <1>1. BooksInv => BooksTypeOK
    BY DEF BooksInv
  <1>2. QED
    BY <1>1, BooksAlways, PTL DEF BooksSpec

\* The figures of a report agree, for any number of sales, expenses and outlets
\* (expense_service.go:264-458, owner_dashboard_service.go:70-408).
THEOREM FiguresDoAgree == BooksSpec => []FiguresAgree
  BY AgreeByInv, BooksAlways, PTL DEF BooksSpec

-----------------------------------------------------------------------------
(***************************************************************************)
(* The three together.                                                     *)
(***************************************************************************)
\* A step of one of them is a step of each: a stutter of the other two.
LEMMA EachSteps ==
    ASSUME [Next]_<<desk, inventoryVars, summaryVars, bookVars>>
    PROVE  /\ [InventoryNext]_inventoryVars
           /\ [SummariesNext]_summaryVars
           /\ [BooksNext]_bookVars
  BY DEF Next, SummariesNext

\* Every variable keeps its type, whichever desk is at work
\* (inventory_service.go:216-219, scheduler.go:23-88).
THEOREM OperationsTypeCorrect ==
    Init /\ [][Next]_<<desk, inventoryVars, summaryVars, bookVars>> => []OperationsTypeOK
  <1>1. Init => InventoryInv /\ SummariesInv /\ BooksInv
    BY InitInventory, InitSummaries, InitBooks DEF Init
  <1>2. /\ InventoryInv /\ SummariesInv /\ BooksInv
        /\ [Next]_<<desk, inventoryVars, summaryVars, bookVars>>
        => (InventoryInv /\ SummariesInv /\ BooksInv)'
    BY EachSteps, NextInventory, NextSummaries, NextBooks
  <1>3. InventoryInv /\ SummariesInv /\ BooksInv => OperationsTypeOK
    BY DEF InventoryInv, SummariesInv, BooksInv, OperationsTypeOK
  <1>4. QED
    BY <1>1, <1>2, <1>3, PTL
=============================================================================
