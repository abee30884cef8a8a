-------------------------- MODULE Loyalty_proofs --------------------------
(***************************************************************************)
(* Proofs about Loyalty for any number of requests and members, whatever   *)
(* sales cost: balances are what referrals and awards have brought less    *)
(* what was redeemed, tiers follow spending, and no row is orphaned.       *)
(***************************************************************************)
EXTENDS Loyalty, FiniteSetTheorems, SequenceTheorems, TLAPS

(***************************************************************************)
(* The inductive invariant: what each request has done so far.             *)
(***************************************************************************)
NoWork(r) == \A m \in Members : work[r][m] = Unwritten

\* A first sale is one that was paid for, and the tier is that of the spending.
RowOK(m, row) ==
    /\ row.first => row.spending > 0
    /\ m \notin edited /\ row.spending > 0 => row.tier = calculateTier(row.spending)

\* A row that the request has written is a later version of the committed one.
Follows(r, m) ==
    Locks(r, m) =>
        /\ Exists(m)
        /\ work[r][m].referrer = member[m].referrer
        /\ member[m].first => work[r][m].first
        /\ RowOK(m, work[r][m])

\* The members referred by m whose first sale the request has found.
NewFirst(r, m) ==
    {x \in Members : /\ Locks(r, x)
                     /\ work[r][x].referrer = m
                     /\ work[r][x].first
                     /\ ~member[x].first}

\* The referrer that is still to be awarded.
Due(r, m) == pc[r] = "award" /\ work[r][Sale(r).member].referrer = m
DuePoints(r, m) == IF Due(r, m) THEN 1 ELSE 0

\* It has given each referrer a point for each first sale, or is about to.
Awarding(r) ==
    \A m \in Members :
        IF Locks(r, m)
        THEN work[r][m].points + DuePoints(r, m) = member[m].points + Cardinality(NewFirst(r, m))
        ELSE Cardinality(NewFirst(r, m)) = DuePoints(r, m)

Uploading(r) ==
    /\ job[r] \in Uploads
    /\ \A n \in 1 .. Len(job[r].sales) : Exists(job[r].sales[n].member)
    /\ Awarding(r)

\* It has taken the points of a member that exists, and has written no more.
Deducted(r) ==
    \A m \in Members :
        IF m = job[r].member /\ Exists(m)
        THEN work[r][m] = [member[m] EXCEPT !.points = @ - job[r].points]
        ELSE work[r][m] = Unwritten

RequestOK(r) ==
    /\ pc[r] \in {"idle", "read", "editing", "failed", "unlogged"} => NoWork(r)
    /\ pc[r] \in {"upload", "referral", "award"} => Uploading(r)
    /\ pc[r] \in {"referral", "award"} =>
          /\ job[r].sales # <<>>
          /\ Locks(r, Sale(r).member)
          /\ work[r][Sale(r).member].spending > 0
    /\ pc[r] = "award" => work[r][Sale(r).member].referrer # NoMember
    /\ pc[r] \in {"read", "deducted", "logged"} =>
          job[r] \in Redemptions /\ member[job[r].member] # Unborn
    /\ pc[r] \in {"deducted", "logged"} => Deducted(r)
    /\ pc[r] = "logged" => Locks(r, job[r].member)
    /\ pc[r] = "editing" => job[r] \in Edits
    /\ \A m \in Members : Follows(r, m)

\* The row lock: a row is written by one request at a time.
WritersApart ==
    \A r, q \in Requests, m \in Members : Locks(r, m) /\ Locks(q, m) => r = q

NoneLost ==
    /\ \A m \in Members : redeemed[m] > 0 => Exists(m)
    /\ \A m \in Members : member[m] = Unborn => earned[m] = 0
    /\ \A x, m \in Members : Exists(x) /\ member[x].referrer = m => Exists(m)

Inv ==
    /\ TypeOK
    /\ \A r \in Requests : RequestOK(r)
    /\ WritersApart
    /\ NoneLost
    /\ PointsBalance
    /\ \A m \in Members : Exists(m) => RowOK(m, member[m])

-----------------------------------------------------------------------------
(***************************************************************************)
(* Rows and sets.                                                          *)
(***************************************************************************)
\* The marks that stand for no row are no rows.
LEMMA RowKinds ==
    /\ \A v \in Rows : v \notin {Unborn, Deleted, Unwritten}
    /\ Unborn # Deleted
  <1>1. \A v \in Rows : v.tier \in Tiers
    BY DEF Rows
  <1>2. Unborn.tier = "unborn" /\ Deleted.tier = "deleted" /\ Unwritten.tier = "unwritten"
    BY DEF Unborn, Deleted, Unwritten
  <1>3. QED
    BY <1>1, <1>2 DEF Tiers

\* Which rows exist and which are locked.
LEMMA RowsTyped ==
    ASSUME TypeOK, NEW m \in Members
    PROVE  /\ Exists(m) <=> member[m] \in Rows
           /\ \A r \in Requests : Locks(r, m) <=> work[r][m] \in Rows
           /\ earned[m] \in Nat /\ redeemed[m] \in Nat
  BY RowKinds DEF TypeOK, Exists, Locks

\* The same after a step.
LEMMA RowsTypedAfter ==
    ASSUME TypeOK', NEW m \in Members
    PROVE  /\ Exists(m)' <=> member'[m] \in Rows
           /\ \A r \in Requests : Locks(r, m)' <=> work'[r][m] \in Rows
  BY RowKinds DEF TypeOK, Exists, Locks

\* Sets of members can be counted.
LEMMA MembersCounted ==
    ASSUME NEW S \in SUBSET Members
    PROVE  IsFiniteSet(S) /\ Cardinality(S) \in Nat
  BY MembersAssumption, FS_Subset, FS_CardinalityType

\* calculateTier gives one of the four tiers.
LEMMA TierTyped == \A n \in Nat : calculateTier(n) \in Tiers
  BY DEF calculateTier, Tiers

\* The row that a statement sees of a member that exists.
LEMMA SeenRow ==
    ASSUME Inv, NEW r \in Requests, NEW m \in Members, Exists(m)
    PROVE  /\ Seen(r, m) \in Rows
           /\ Seen(r, m).referrer = member[m].referrer
           /\ member[m].first => Seen(r, m).first
           /\ RowOK(m, Seen(r, m))
           /\ ~Locks(r, m) => Seen(r, m) = member[m]
           /\ Locks(r, m) => Seen(r, m) = work[r][m]
           /\ Seen(r, m).referrer # NoMember =>
                 Seen(r, m).referrer \in Members /\ Exists(Seen(r, m).referrer)
  <1>1. member[m] \in Rows /\ (Locks(r, m) => work[r][m] \in Rows)
    BY RowsTyped DEF Inv
  <1>2. /\ ~Locks(r, m) => Seen(r, m) = member[m]
        /\ Locks(r, m) => Seen(r, m) = work[r][m]
    BY DEF Seen
  <1>3. Follows(r, m)
    BY DEF Inv, RequestOK
  <1>4. /\ Seen(r, m).referrer = member[m].referrer
        /\ member[m].first => Seen(r, m).first
        /\ RowOK(m, Seen(r, m))
    BY <1>2, <1>3 DEF Follows, Inv
  <1>5. member[m].referrer # NoMember =>
           member[m].referrer \in Members /\ Exists(member[m].referrer)
    <2>1. member[m].referrer \in Members \cup {NoMember}
      BY <1>1 DEF Rows
    <2>2. QED
      BY <2>1 DEF Inv, NoneLost
  <1>6. QED
    BY <1>1, <1>2, <1>4, <1>5

\* The sale at hand, and those that follow it.
LEMMA SalesTyped ==
    ASSUME Inv, NEW r \in Requests, pc[r] \in {"upload", "referral", "award"},
           job[r].sales # <<>>
    PROVE  /\ job[r] \in Uploads
           /\ Sale(r).member \in Members /\ Sale(r).amount \in Nat \ {0}
           /\ Exists(Sale(r).member)
           /\ Tail(job[r].sales) \in Seq(Sales)
           /\ \A n \in 1 .. Len(Tail(job[r].sales)) :
                 /\ Tail(job[r].sales)[n].member \in Members
                 /\ Exists(Tail(job[r].sales)[n].member)
  <1> DEFINE s == job[r].sales
  <1>1. job[r] \in Uploads /\ \A n \in 1 .. Len(s) : Exists(s[n].member)
    BY DEF Inv, RequestOK, Uploading
  <1>2. s \in Seq(Sales)
    BY <1>1 DEF Uploads
  <1>3. Len(s) \in Nat \ {0} /\ Head(s) = s[1] /\ s[1] \in Sales
    BY <1>2
  <1>4. Exists(s[1].member)
    BY <1>1, <1>3
  <1>5. Sale(r) = s[1] /\ Sale(r).member \in Members /\ Sale(r).amount \in Nat \ {0}
    BY <1>3, AmountsAssumption DEF Sale, Sales
  <1>6. Tail(s) \in Seq(Sales) /\ Len(Tail(s)) = Len(s) - 1
        /\ \A n \in 1 .. Len(Tail(s)) : Tail(s)[n] = s[n + 1]
    BY <1>2
  <1>7. \A n \in 1 .. Len(Tail(s)) :
           Tail(s)[n] \in Sales /\ Exists(Tail(s)[n].member)
    <2>1. SUFFICES ASSUME NEW n \in 1 .. Len(Tail(s))
                   PROVE  Tail(s)[n] \in Sales /\ Exists(Tail(s)[n].member)
      OBVIOUS
    <2>2. n + 1 \in 1 .. Len(s) /\ Tail(s)[n] = s[n + 1]
      BY <1>3, <1>6
    <2>3. s[n + 1] \in Sales
      BY <1>2, <2>2
    <2>4. QED
      BY <1>1, <2>2, <2>3
  <1>8. QED
    BY <1>1, <1>4, <1>5, <1>6, <1>7 DEF Sales

-----------------------------------------------------------------------------
(***************************************************************************)
(* What every action leaves alone.                                         *)
(***************************************************************************)
SameRequest(q) == pc'[q] = pc[q] /\ job'[q] = job[q] /\ work'[q] = work[q]

\* Rows come, change and go, but what was sold to stays and what is gone is gone.
Grown ==
    /\ \A m \in Members : member[m] # Unborn => member'[m] # Unborn
    /\ \A m \in Members : member[m] = Deleted => member'[m] = Deleted
    /\ edited \subseteq edited'

\* A request that does nothing keeps its invariant while nobody touches the rows
\* that it has locked or deletes the members that it sells to.
LEMMA RequestKept ==
    ASSUME TypeOK, NEW q \in Requests, RequestOK(q), SameRequest(q), Grown,
           \A m \in Members : Locks(q, m) => member'[m] = member[m],
           \A m \in Members : SellsTo(q, m) /\ Exists(m) => Exists(m)'
    PROVE  RequestOK(q)'
  <1>1. /\ pc'[q] = pc[q] /\ job'[q] = job[q] /\ work'[q] = work[q]
        /\ NoWork(q)' = NoWork(q)
        /\ Sale(q)' = Sale(q)
        /\ \A m \in Members : Locks(q, m)' = Locks(q, m)
    BY DEF SameRequest, NoWork, Sale, Locks
  <1>2. \A m \in Members : NewFirst(q, m)' = NewFirst(q, m)
    BY <1>1 DEF NewFirst
  <1>3. \A m \in Members : DuePoints(q, m)' = DuePoints(q, m)
    BY <1>1 DEF DuePoints, Due
  <1>4. Awarding(q) => Awarding(q)'
    BY <1>1, <1>2, <1>3 DEF Awarding
  <1>5. pc[q] \in {"upload", "referral", "award"} => Uploading(q)'
    <2>1. SUFFICES ASSUME pc[q] \in {"upload", "referral", "award"} PROVE Uploading(q)'
      OBVIOUS
    <2>2. Uploading(q)
      BY <2>1 DEF RequestOK
    <2>3. ASSUME NEW n \in 1 .. Len(job[q].sales)
          PROVE  Exists(job[q].sales[n].member)'
      <3>1. job[q].sales \in Seq(Sales)
        BY <2>2 DEF Uploading, Uploads
      <3>a. job[q].sales[n] \in Sales
        BY <2>3, <3>1
      <3>2. PICK m \in Members : m = job[q].sales[n].member
        BY <3>a DEF Sales
      <3>3. SellsTo(q, m) /\ Exists(m)
        BY <2>1, <2>2, <2>3, <3>2 DEF SellsTo, Uploading
      <3>4. Exists(m)'
        BY <3>3
      <3>5. QED
        BY <1>1, <3>2, <3>4 DEF Exists
    <2>4. QED
      BY <1>1, <1>4, <2>2, <2>3 DEF Uploading
  <1>6. Deducted(q) /\ job[q] \in Redemptions /\ member[job[q].member] # Unborn => Deducted(q)'
    <2>1. SUFFICES ASSUME Deducted(q), job[q] \in Redemptions, member[job[q].member] # Unborn
                   PROVE  Deducted(q)'
      OBVIOUS
    <2>2. job[q].member \in Members
      BY <2>1 DEF Redemptions
    <2>3. SUFFICES ASSUME NEW m \in Members
                   PROVE  IF m = job[q].member /\ Exists(m)'
                          THEN work[q][m] = [member'[m] EXCEPT !.points = @ - job[q].points]
                          ELSE work[q][m] = Unwritten
      BY <1>1 DEF Deducted
    <2>4. CASE m = job[q].member /\ Exists(m)
      <3>1. work[q][m] = [member[m] EXCEPT !.points = @ - job[q].points]
        BY <2>1, <2>4 DEF Deducted
      <3>2. member[m] \in Rows
        BY <2>4, RowsTyped
      <3>3. work[q][m].tier \in Tiers
        BY <3>1, <3>2 DEF Rows
      <3>4. Locks(q, m)
        BY <3>3 DEF Locks, Unwritten, Tiers
      <3>5. QED
        BY <2>4, <3>1, <3>4 DEF Exists
    <2>5. CASE m = job[q].member /\ ~Exists(m)
      BY <2>1, <2>5 DEF Deducted, Exists, Grown
    <2>6. CASE m # job[q].member
      BY <2>1, <2>6 DEF Deducted
    <2>7. QED
      BY <2>4, <2>5, <2>6
  <1>7. \A m \in Members : Follows(q, m)'
    BY <1>1 DEF RequestOK, Follows, Exists, RowOK, Grown
  <1>8. job[q] \in Redemptions /\ member[job[q].member] # Unborn
           => member'[job[q].member] # Unborn
    BY DEF Grown, Redemptions
  <1>9. pc[q] \in {"referral", "award"} =>
           /\ job'[q].sales # <<>>
           /\ Locks(q, Sale(q).member)'
           /\ work'[q][Sale(q)'.member].spending > 0
    BY <1>1 DEF RequestOK, Locks
  <1>10. pc[q] = "award" => work'[q][Sale(q)'.member].referrer # NoMember
    BY <1>1 DEF RequestOK
  <1>11. pc[q] \in {"read", "deducted", "logged"} =>
           job'[q] \in Redemptions /\ member'[job'[q].member] # Unborn
    BY <1>1, <1>8 DEF RequestOK
  <1>12. pc[q] \in {"deducted", "logged"} => Deducted(q)'
    BY <1>6 DEF RequestOK
  <1>13. pc[q] = "logged" => Locks(q, job[q].member)'
    BY <1>1 DEF RequestOK, Locks
  <1>14. QED
    BY <1>1, <1>5, <1>7, <1>9, <1>10, <1>11, <1>12, <1>13 DEF RequestOK

\* Only the request r makes a step, and it commits nothing.
Alone(r) ==
    /\ UNCHANGED tables
    /\ \A q \in Requests \ {r} : SameRequest(q)

\* Such a step keeps the invariant if it keeps that of the request.
LEMMA InvKept ==
    ASSUME Inv, TypeOK', NEW r \in Requests, Alone(r), RequestOK(r)',
           \A m \in Members : Locks(r, m)' => \A q \in Requests \ {r} : ~Locks(q, m)
    PROVE  Inv'
  <1>1. member' = member /\ earned' = earned /\ redeemed' = redeemed /\ edited' = edited
    BY DEF Alone, tables
  <1>2. ASSUME NEW q \in Requests \ {r} PROVE RequestOK(q)'
    <2>1. Grown /\ SameRequest(q) /\ \A m \in Members : Exists(m)' = Exists(m)
      BY <1>1 DEF Grown, Alone, Exists
    <2>2. QED
      BY <1>1, <2>1, RequestKept DEF Inv
  <1>3. WritersApart'
    BY DEF Inv, WritersApart, Alone, SameRequest, Locks
  <1>4. NoneLost'
    BY <1>1 DEF Inv, NoneLost, Exists
  <1>5. PointsBalance'
    BY <1>1 DEF Inv, PointsBalance, Referred, Exists
  <1>6. \A m \in Members : Exists(m)' => RowOK(m, member[m])'
    BY <1>1 DEF Inv, Exists, RowOK
  <1>7. QED
    BY <1>1, <1>2, <1>3, <1>4, <1>5, <1>6 DEF Inv

\* A request that has written nothing, and is not at work on anything.
LEMMA NothingWritten ==
    ASSUME NEW r \in Requests, pc'[r] \in {"idle", "failed", "unlogged"},
           \A m \in Members : work'[r][m] = Unwritten
    PROVE  RequestOK(r)'
  <1>1. NoWork(r)' /\ \A m \in Members : Follows(r, m)'
    BY DEF NoWork, Follows, Locks
  <1>2. QED
    BY <1>1 DEF RequestOK

\* A statement fails: the transaction is gone.
LEMMA BreakKeeps ==
    ASSUME Inv, NEW r \in Requests, NEW o \in {"failed", "unlogged"}, Break(r, o)
    PROVE  Inv'
  <1>1. /\ UNCHANGED tables /\ pc'[r] = o
        /\ \A m \in Members : work'[r][m] = Unwritten
        /\ Alone(r)
    BY DEF Break, Inv, TypeOK, Clean, Alone, SameRequest
  <1>2. TypeOK'
    BY DEF Break, Inv, TypeOK, Clean, tables
  <1>3. RequestOK(r)' /\ \A m \in Members : ~Locks(r, m)'
    BY <1>1, NothingWritten DEF Locks
  <1>4. QED
    BY <1>1, <1>2, <1>3, InvKept

\* What End does to the requests.
LEMMA EndDoes ==
    ASSUME Inv, NEW r \in Requests, End(r)
    PROVE  /\ RequestOK(r)'
           /\ \A m \in Members : ~Locks(r, m)'
           /\ \A q \in Requests \ {r} : SameRequest(q)
           /\ WritersApart'
           /\ pc' \in [Requests -> {"idle", "upload", "referral", "award", "read", "deducted",
                                    "logged", "editing", "failed", "unlogged"}]
           /\ job' \in [Requests -> Uploads \cup Redemptions \cup Edits \cup {NoJob}]
           /\ work' \in [Requests -> [Members -> Rows \cup {Unwritten}]]
  <1>1. pc'[r] = "idle" /\ \A m \in Members : work'[r][m] = Unwritten
    BY DEF End, Inv, TypeOK, Clean
  <1>2. \A q \in Requests \ {r} : SameRequest(q)
    BY DEF End, Inv, TypeOK, SameRequest
  <1>3. RequestOK(r)' /\ \A m \in Members : ~Locks(r, m)'
    BY <1>1, NothingWritten DEF Locks
  <1>4. WritersApart'
    BY <1>2, <1>3 DEF Inv, WritersApart, SameRequest, Locks
  <1>5. QED
    BY <1>2, <1>3, <1>4 DEF End, Inv, TypeOK, Clean

\* A request ends without a commit.
LEMMA EndKeeps ==
    ASSUME Inv, NEW r \in Requests, End(r), UNCHANGED tables
    PROVE  Inv'
  <1>1. TypeOK'
    BY EndDoes DEF Inv, TypeOK, tables
  <1>2. QED
    BY <1>1, EndDoes, InvKept DEF Alone

-----------------------------------------------------------------------------
(***************************************************************************)
(* Requests of one statement.                                              *)
(***************************************************************************)
\* What is locked, or sold to, exists.
LEMMA LockedExists ==
    ASSUME Inv, NEW q \in Requests, NEW m \in Members
    PROVE  /\ Locks(q, m) => Exists(m)
           /\ SellsTo(q, m) => Exists(m)
  <1>1. Locks(q, m) => Exists(m)
    BY DEF Inv, RequestOK, Follows
  <1>2. SellsTo(q, m) => Exists(m)
    BY DEF Inv, RequestOK, Uploading, SellsTo
  <1>3. QED
    BY <1>1, <1>2

\* A step of no request in progress.
LEMMA RequestsKept ==
    ASSUME Inv, UNCHANGED <<pc, job, work>>, Grown,
           \A q \in Requests, m \in Members : Locks(q, m) => member'[m] = member[m],
           \A q \in Requests, m \in Members : SellsTo(q, m) /\ Exists(m) => Exists(m)'
    PROVE  (\A q \in Requests : RequestOK(q)') /\ WritersApart'
  <1>1. ASSUME NEW q \in Requests PROVE RequestOK(q)'
    <2>1. SameRequest(q)
      BY DEF SameRequest
    <2>2. QED
      BY <2>1, RequestKept DEF Inv
  <1>2. WritersApart'
    BY DEF Inv, WritersApart, Locks
  <1>3. QED
    BY <1>1, <1>2

\* Nobody refers to a member that is not born.
LEMMA UnbornAlone ==
    ASSUME Inv, NEW m \in Members, ~Exists(m)
    PROVE  Referred(m) = {}
  BY NoMemberAssumption DEF Inv, NoneLost, Referred

\* A new member has no points, and nobody refers to it yet.
LEMMA CreateKeeps ==
    ASSUME Inv, NEW m \in Members, NEW t \in ChosenTiers, NEW x \in Members \cup {NoMember},
           Create(m, t, x)
    PROVE  Inv'
  <1> DEFINE row == [points |-> 0, spending |-> 0, tier |-> t, first |-> FALSE, referrer |-> x]
  <1>1. row \in Rows
    BY ChosenTiersAssumption DEF Rows
  <1>2. /\ member'[m] = row
        /\ \A y \in Members \ {m} : member'[y] = member[y]
        /\ earned' = earned /\ redeemed' = redeemed /\ edited' = edited
        /\ UNCHANGED <<pc, job, work>>
        /\ member[m] = Unborn
        /\ x # NoMember => Exists(x)
    BY DEF Create, Inv, TypeOK
  <1>3. TypeOK'
    BY <1>1, <1>2 DEF Create, Inv, TypeOK
  <1>4. /\ Exists(m)' /\ ~Exists(m)
        /\ \A y \in Members \ {m} : Exists(y)' = Exists(y)
    BY <1>1, <1>2, RowKinds DEF Exists
  <1>5. Grown
    BY <1>1, <1>2, RowKinds DEF Grown
  <1>6. \A q \in Requests, y \in Members : Locks(q, y) => member'[y] = member[y]
    BY <1>2, <1>4, LockedExists
  <1>7. \A q \in Requests, y \in Members : SellsTo(q, y) /\ Exists(y) => Exists(y)'
    BY <1>4
  <1>8. (\A q \in Requests : RequestOK(q)') /\ WritersApart'
    BY <1>2, <1>5, <1>6, <1>7, RequestsKept
  <1>9. NoneLost'
    <2>1. \A y \in Members : redeemed'[y] > 0 => Exists(y)'
      BY <1>2, <1>4 DEF Inv, NoneLost
    <2>2. \A y \in Members : member'[y] = Unborn => earned'[y] = 0
      BY <1>1, <1>2, RowKinds DEF Inv, NoneLost
    <2>3. \A y, z \in Members : Exists(y)' /\ member'[y].referrer = z => Exists(z)'
      <3>1. SUFFICES ASSUME NEW y \in Members, NEW z \in Members,
                            Exists(y)', member'[y].referrer = z
                     PROVE  Exists(z)'
        OBVIOUS
      <3>2. CASE y = m
        BY <1>2, <1>4, <3>1, <3>2, NoMemberAssumption
      <3>3. CASE y # m
        BY <1>2, <1>4, <3>1, <3>3 DEF Inv, NoneLost
      <3>4. QED
        BY <3>2, <3>3
    <2>4. QED
      BY <2>1, <2>2, <2>3 DEF NoneLost
  <1>10. PointsBalance'
    <2>1. \A y \in Members : Referred(y)' = Referred(y)
      BY <1>2, <1>4 DEF Referred
    <2>2. Referred(m)' = {} /\ earned[m] = 0 /\ redeemed[m] = 0
      BY <1>2, <1>4, <2>1, UnbornAlone, RowsTyped DEF Inv, NoneLost
    <2>3. SUFFICES ASSUME NEW y \in Members, Exists(y)'
                   PROVE  member'[y].points = Cardinality(Referred(y)') + earned'[y] - redeemed'[y]
      BY DEF PointsBalance
    <2>4. CASE y = m
      BY <1>2, <2>2, <2>4, FS_EmptySet
    <2>5. CASE y # m
      BY <1>2, <1>4, <2>1, <2>3, <2>5 DEF Inv, PointsBalance
    <2>6. QED
      BY <2>4, <2>5
  <1>11. \A y \in Members : Exists(y)' => RowOK(y, member[y])'
    <2>1. RowOK(m, member[m])'
      BY <1>2 DEF RowOK
    <2>2. QED
      BY <1>2, <1>4, <2>1 DEF Inv, RowOK
  <1>12. QED
    BY <1>3, <1>8, <1>9, <1>10, <1>11 DEF Inv

\* Delete removes a member whose first sale never was, so that no referrer loses
\* a point, and clears the references to it.
LEMMA DeleteKeeps ==
    ASSUME Inv, NEW m \in Members, Delete(m)
    PROVE  Inv'
  <1> DEFINE Orphan(x) == Exists(x) /\ member[x].referrer = m
  <1>1. /\ Exists(m) /\ ~Locked(m)
        /\ member[m].spending = 0 /\ redeemed[m] = 0
        /\ \A r \in Requests : ~SellsTo(r, m)
        /\ \A x \in Members : Orphan(x) => ~Locked(x)
        /\ earned' = earned /\ redeemed' = redeemed /\ edited' = edited
        /\ UNCHANGED <<pc, job, work>>
    BY DEF Delete
  <1>2. /\ member'[m] = Deleted
        /\ \A x \in Members \ {m} :
              /\ Orphan(x) => member'[x] = [member[x] EXCEPT !.referrer = NoMember]
              /\ ~Orphan(x) => member'[x] = member[x]
    BY DEF Delete
  <1>3. \A x \in Members \ {m} : Orphan(x) =>
           /\ member[x] \in Rows /\ member'[x] \in Rows
           /\ member'[x].points = member[x].points
           /\ member'[x].spending = member[x].spending
           /\ member'[x].tier = member[x].tier
           /\ member'[x].first = member[x].first
           /\ member'[x].referrer = NoMember
    <2>1. ASSUME NEW x \in Members \ {m}, Orphan(x) PROVE member[x] \in Rows
      BY <2>1, RowsTyped DEF Inv
    <2>2. QED
      BY <1>2, <2>1 DEF Rows
  <1>4. /\ ~Exists(m)'
        /\ \A x \in Members \ {m} : Exists(x)' = Exists(x)
    BY <1>2, <1>3, RowKinds DEF Exists
  <1>5. TypeOK'
    <2>1. member' \in [Members -> Rows \cup {Unborn, Deleted}]
      <3>1. \A x \in Members : member'[x] \in Rows \cup {Unborn, Deleted}
        BY <1>2, <1>3 DEF Inv, TypeOK
      <3>2. member' = [x \in Members |-> member'[x]]
        BY DEF Delete
      <3>3. QED
        BY <3>1, <3>2
    <2>2. QED
      BY <1>1, <2>1 DEF Inv, TypeOK
  <1>6. Grown
    <2>1. \A x \in Members : member[x] = Deleted => ~Exists(x)
      BY DEF Exists
    <2>2. \A x \in Members : member[x] = Deleted => member'[x] = Deleted
      BY <1>1, <1>2, <2>1
    <2>3. \A x \in Members : member[x] # Unborn => member'[x] # Unborn
      BY <1>2, <1>3, RowKinds
    <2>4. QED
      BY <1>1, <2>2, <2>3 DEF Grown
  <1>7. \A q \in Requests, x \in Members : Locks(q, x) => member'[x] = member[x]
    BY <1>1, <1>2 DEF Locked
  <1>8. \A q \in Requests, x \in Members : SellsTo(q, x) /\ Exists(x) => Exists(x)'
    BY <1>1, <1>4
  <1>9. (\A q \in Requests : RequestOK(q)') /\ WritersApart'
    BY <1>1, <1>6, <1>7, <1>8, RequestsKept
  <1>10. NoneLost'
    <2>1. \A x \in Members : redeemed'[x] > 0 => Exists(x)'
      BY <1>1, <1>4 DEF Inv, NoneLost
    <2>2. \A x \in Members : member'[x] = Unborn => earned'[x] = 0
      BY <1>1, <1>6 DEF Inv, NoneLost, Grown
    <2>3. \A x, z \in Members : Exists(x)' /\ member'[x].referrer = z => Exists(z)'
      <3>1. SUFFICES ASSUME NEW x \in Members, NEW z \in Members,
                            Exists(x)', member'[x].referrer = z
                     PROVE  Exists(z)'
        OBVIOUS
      <3>2. x # m /\ z # NoMember
        BY <1>4, <3>1, NoMemberAssumption
      <3>3. ~Orphan(x) /\ member[x].referrer = z /\ Exists(x)
        BY <1>2, <1>3, <1>4, <3>1, <3>2
      <3>4. z # m /\ Exists(z)
        BY <3>1, <3>3 DEF Inv, NoneLost
      <3>5. QED
        BY <1>4, <3>4
    <2>4. QED
      BY <2>1, <2>2, <2>3 DEF NoneLost
  <1>11. PointsBalance'
    <2>1. ~member[m].first
      <3>1. member[m] \in Rows
        BY <1>1, RowsTyped DEF Inv
      <3>2. QED
        BY <1>1, <3>1 DEF Inv, RowOK
    <2>2. \A y \in Members \ {m} : Referred(y)' = Referred(y)
      <3>1. ASSUME NEW y \in Members \ {m}, NEW x \in Members
            PROVE  x \in Referred(y)' <=> x \in Referred(y)
        <4>1. y # NoMember
          BY NoMemberAssumption
        <4>2. CASE x = m
          BY <1>4, <2>1, <4>2 DEF Referred
        <4>3. CASE x # m
          BY <1>2, <1>3, <1>4, <4>1, <4>3 DEF Referred
        <4>4. QED
          BY <4>2, <4>3
      <3>2. QED
        BY <3>1 DEF Referred
    <2>3. \A y \in Members \ {m} : Exists(y) => member'[y].points = member[y].points
      BY <1>2, <1>3
    <2>4. QED
      BY <1>1, <1>4, <2>2, <2>3 DEF Inv, PointsBalance
  <1>12. \A y \in Members : Exists(y)' => RowOK(y, member[y])'
    BY <1>1, <1>2, <1>3, <1>4 DEF Inv, RowOK
  <1>13. QED
    BY <1>5, <1>9, <1>10, <1>11, <1>12 DEF Inv

\* A change of one row that nobody has locked, which leaves the member there and
\* its referral as it was.
LEMMA RowChanged ==
    ASSUME Inv, NEW m \in Members, NEW row \in Rows, Exists(m), ~Locked(m),
           member' = [member EXCEPT ![m] = row],
           row.first = member[m].first, row.referrer = member[m].referrer
    PROVE  /\ member' \in [Members -> Rows \cup {Unborn, Deleted}]
           /\ \A x \in Members : Exists(x)' = Exists(x)
           /\ edited \subseteq edited' => Grown
           /\ \A q \in Requests, x \in Members : Locks(q, x) => member'[x] = member[x]
           /\ \A x \in Members : /\ Referred(x)' = Referred(x)
                                 /\ member'[x] = Unborn => member[x] = Unborn
                                 /\ Exists(x) => member'[x].referrer = member[x].referrer
  <1>1. /\ member'[m] = row
        /\ \A x \in Members \ {m} : member'[x] = member[x]
        /\ member' \in [Members -> Rows \cup {Unborn, Deleted}]
    BY DEF Inv, TypeOK
  <1>2. \A x \in Members : Exists(x)' = Exists(x)
    BY <1>1, RowKinds DEF Exists
  <1>3. edited \subseteq edited' => Grown
    BY <1>1, RowKinds DEF Grown, Exists
  <1>4. \A q \in Requests, x \in Members : Locks(q, x) => member'[x] = member[x]
    BY <1>1 DEF Locked
  <1>5. \A x \in Members : Referred(x)' = Referred(x)
    BY <1>1, <1>2 DEF Referred
  <1>6. QED
    BY <1>1, <1>2, <1>3, <1>4, <1>5, RowKinds

\* AwardPoints adds to the balance what it adds to the awards.
LEMMA AwardPointsKeeps ==
    ASSUME Inv, NEW m \in Members, AwardPoints(m)
    PROVE  Inv'
  <1> DEFINE row == [member[m] EXCEPT !.points = @ + 1]
  <1>1. Exists(m) /\ ~Locked(m) /\ member[m] \in Rows /\ earned[m] \in Nat
    BY RowsTyped DEF AwardPoints, Inv
  <1>2. /\ member' = [member EXCEPT ![m] = row]
        /\ earned' = [earned EXCEPT ![m] = @ + 1]
        /\ redeemed' = redeemed /\ edited' = edited /\ UNCHANGED <<pc, job, work>>
    BY DEF AwardPoints
  <1>3. /\ row \in Rows
        /\ row.first = member[m].first /\ row.referrer = member[m].referrer
        /\ row.spending = member[m].spending /\ row.tier = member[m].tier
        /\ row.points = member[m].points + 1 /\ member[m].points \in Int
    BY <1>1 DEF Rows
  <1>4. /\ member' \in [Members -> Rows \cup {Unborn, Deleted}]
        /\ \A x \in Members : Exists(x)' = Exists(x)
        /\ Grown
        /\ \A q \in Requests, x \in Members : Locks(q, x) => member'[x] = member[x]
        /\ \A x \in Members : /\ Referred(x)' = Referred(x)
                              /\ member'[x] = Unborn => member[x] = Unborn
                              /\ Exists(x) => member'[x].referrer = member[x].referrer
    <2> HIDE DEF row
    <2>1. QED
      BY <1>1, <1>2, <1>3, RowChanged
  <1>5. /\ member'[m] = row /\ \A x \in Members \ {m} : member'[x] = member[x]
        /\ earned'[m] = earned[m] + 1
        /\ \A x \in Members \ {m} : earned'[x] = earned[x]
    BY <1>2 DEF Inv, TypeOK
  <1>6. TypeOK'
    BY <1>1, <1>2, <1>4 DEF Inv, TypeOK
  <1>7. (\A q \in Requests : RequestOK(q)') /\ WritersApart'
    BY <1>2, <1>4, RequestsKept
  <1>8. NoneLost'
    <2>1. \A x \in Members : member'[x] = Unborn => earned'[x] = 0
      BY <1>1, <1>4, <1>5 DEF Inv, NoneLost, Exists
    <2>2. \A x, z \in Members : Exists(x)' /\ member'[x].referrer = z => Exists(z)'
      BY <1>4 DEF Inv, NoneLost
    <2>3. QED
      BY <1>2, <1>4, <2>1, <2>2 DEF Inv, NoneLost
  <1>9. PointsBalance'
    <2>1. SUFFICES ASSUME NEW x \in Members, Exists(x)
                   PROVE  member'[x].points = Cardinality(Referred(x)') + earned'[x] - redeemed'[x]
      BY <1>4 DEF PointsBalance
    <2>2. /\ member[x].points = Cardinality(Referred(x)) + earned[x] - redeemed[x]
          /\ Referred(x)' = Referred(x) /\ redeemed'[x] = redeemed[x]
          /\ earned[x] \in Nat /\ redeemed[x] \in Nat
      BY <1>2, <1>4, <2>1, RowsTyped DEF Inv, PointsBalance
    <2>3. Cardinality(Referred(x)) \in Nat
      BY MembersCounted DEF Referred
    <2> DEFINE c == Cardinality(Referred(x))
    <2>4. /\ c \in Nat /\ Cardinality(Referred(x)') = c
          /\ member[x].points = c + earned[x] - redeemed[x]
      BY <2>2, <2>3
    <2>5. CASE x = m
      <3>1. member'[x].points = member[x].points + 1 /\ earned'[x] = earned[x] + 1
        BY <1>3, <1>5, <2>5
      <3> HIDE DEF c
      <3>2. QED
        BY <2>2, <2>4, <3>1
    <2>6. CASE x # m
      <3>1. member'[x].points = member[x].points /\ earned'[x] = earned[x]
        BY <1>5, <2>6
      <3> HIDE DEF c
      <3>2. QED
        BY <2>2, <2>4, <3>1
    <2>7. QED
      BY <2>5, <2>6
  <1>10. \A x \in Members : Exists(x)' => RowOK(x, member[x])'
    <2>1. RowOK(m, member[m])'
      BY <1>1, <1>2, <1>3, <1>5 DEF Inv, RowOK
    <2>2. QED
      BY <1>2, <1>4, <1>5, <2>1 DEF Inv, RowOK
  <1>11. QED
    BY <1>6, <1>7, <1>8, <1>9, <1>10 DEF Inv

-----------------------------------------------------------------------------
(***************************************************************************)
(* The steps of an upload.                                                 *)
(***************************************************************************)
\* An upload begins with nothing written and nothing due.
LEMMA BeginUploadKeeps ==
    ASSUME Inv, NEW r \in Requests, NEW b \in Batches, BeginUpload(r, b)
    PROVE  Inv'
  <1>1. b \in Seq(Sales)
    <2>1. PICK n \in 1 .. MaxBatch : b \in [1 .. n -> Sales]
      BY DEF Batches
    <2>2. n \in Nat
      BY BoundsAssumption
    <2>3. QED
      BY <2>1, <2>2
  <1>2. /\ pc[r] = "idle" /\ pc'[r] = "upload"
        /\ job'[r] = [sales |-> b]
        /\ work' = work
        /\ UNCHANGED tables
        /\ \A n \in 1 .. Len(b) : Exists(b[n].member)
        /\ Alone(r)
    BY DEF BeginUpload, Inv, TypeOK, Alone, SameRequest
  <1>3. [sales |-> b] \in Uploads
    BY <1>1 DEF Uploads
  <1>4. TypeOK'
    BY <1>2, <1>3 DEF BeginUpload, Inv, TypeOK, tables
  <1>5. NoWork(r) /\ \A m \in Members : ~Locks(r, m)' /\ ~Locks(r, m)
    BY <1>2 DEF Inv, RequestOK, NoWork, Locks
  <1>6. Awarding(r)'
    <2>1. \A m \in Members : NewFirst(r, m)' = {}
      BY <1>5 DEF NewFirst
    <2>2. \A m \in Members : DuePoints(r, m)' = 0
      BY <1>2 DEF DuePoints, Due
    <2>3. QED
      BY <1>5, <2>1, <2>2, FS_EmptySet DEF Awarding
  <1>7. Uploading(r)'
    BY <1>2, <1>3, <1>6 DEF Uploading, Exists, tables
  <1>8. RequestOK(r)'
    BY <1>2, <1>5, <1>7 DEF RequestOK, Follows
  <1>9. QED
    BY <1>2, <1>4, <1>5, <1>8, InvKept

\* A statement of the request r has written one row.
Writes(r, m, row) == work' = [work EXCEPT ![r][m] = row]

\* What such a statement changes.
LEMMA WritesRow ==
    ASSUME TypeOK, NEW r \in Requests, NEW m \in Members, NEW row \in Rows, Writes(r, m, row)
    PROVE  /\ work' \in [Requests -> [Members -> Rows \cup {Unwritten}]]
           /\ work'[r][m] = row
           /\ \A x \in Members \ {m} : work'[r][x] = work[r][x]
           /\ \A q \in Requests \ {r} : work'[q] = work[q]
           /\ Locks(r, m)'
           /\ \A x \in Members \ {m} : Locks(r, x)' = Locks(r, x)
  BY RowKinds DEF TypeOK, Writes, Locks

\* Who has bought for the first time does not change with a row that has the same
\* marks as the one that the statement saw.
LEMMA SameFirst ==
    ASSUME Inv, NEW r \in Requests, NEW m \in Members, NEW row \in Rows, Exists(m),
           Writes(r, m, row), member' = member,
           row.first = Seen(r, m).first, row.referrer = Seen(r, m).referrer
    PROVE  \A y \in Members : NewFirst(r, y)' = NewFirst(r, y)
  <1>1. /\ work'[r][m] = row /\ Locks(r, m)'
        /\ \A x \in Members \ {m} : work'[r][x] = work[r][x] /\ Locks(r, x)' = Locks(r, x)
    BY WritesRow DEF Inv
  <1>2. \A y \in Members, x \in Members \ {m} : x \in NewFirst(r, y)' <=> x \in NewFirst(r, y)
    BY <1>1 DEF NewFirst
  <1>3. \A y \in Members : m \in NewFirst(r, y)' <=> m \in NewFirst(r, y)
    <2>1. CASE Locks(r, m)
      BY <1>1, <2>1, SeenRow DEF NewFirst
    <2>2. CASE ~Locks(r, m)
      BY <1>1, <2>2, SeenRow DEF NewFirst
    <2>3. QED
      BY <2>1, <2>2
  <1>4. QED
    BY <1>2, <1>3 DEF NewFirst

\* The other rows of the request follow as before.
LEMMA FollowsKept ==
    ASSUME Inv, NEW r \in Requests, NEW m \in Members, NEW row \in Rows, Exists(m),
           Writes(r, m, row), UNCHANGED tables,
           row.referrer = Seen(r, m).referrer, Seen(r, m).first => row.first, RowOK(m, row)
    PROVE  \A x \in Members : Follows(r, x)'
  <1>1. /\ work'[r][m] = row /\ Locks(r, m)'
        /\ \A x \in Members \ {m} : work'[r][x] = work[r][x] /\ Locks(r, x)' = Locks(r, x)
    BY WritesRow DEF Inv
  <1>2. member' = member /\ edited' = edited
    BY DEF tables
  <1>3. \A x \in Members \ {m} : Follows(r, x)'
    BY <1>1, <1>2 DEF Inv, RequestOK, Follows, Exists, RowOK
  <1>4. Follows(r, m)'
    BY <1>1, <1>2, SeenRow DEF Follows, Exists, RowOK
  <1>5. QED
    BY <1>3, <1>4

\* UpdateSpending adds the sale and sets the tier of the new total.
LEMMA UpdateSpendingKeeps ==
    ASSUME Inv, NEW r \in Requests, UpdateSpending(r)
    PROVE  Inv'
  <1>1. /\ pc[r] = "upload" /\ job[r].sales # <<>>
        /\ UNCHANGED tables /\ job' = job
        /\ pc' = [pc EXCEPT ![r] = "referral"]
    BY DEF UpdateSpending
  <1>2. PICK m \in Members, a \in Nat \ {0} :
           /\ m = Sale(r).member /\ a = Sale(r).amount /\ Exists(m)
    BY <1>1, SalesTyped
  <1> DEFINE row == Spent(Seen(r, m), a)
  <1>3. Writes(r, m, row) /\ ~LockedByOther(r, m)
    BY <1>2 DEF UpdateSpending, Writes
  <1>4. /\ row \in Rows
        /\ row.first = Seen(r, m).first /\ row.referrer = Seen(r, m).referrer
        /\ row.points = Seen(r, m).points
        /\ row.spending > 0 /\ RowOK(m, row)
    <2>1. Seen(r, m) \in Rows /\ calculateTier(Seen(r, m).spending + a) \in Tiers
      BY <1>2, SeenRow, TierTyped DEF Rows
    <2> DEFINE old == Seen(r, m)
               n == old.spending + a
               t == calculateTier(n)
    <2>2. row = [old EXCEPT !.spending = n, !.tier = t]
      BY DEF Spent
    <2>3. old \in Rows /\ t \in Tiers /\ a \in Nat \ {0}
      BY <1>2, <2>1
    <2>4. n \in Nat /\ n > 0
      BY <2>3 DEF Rows
    <2>5. /\ row \in Rows /\ row.spending = n /\ row.tier = t
          /\ row.first = old.first /\ row.referrer = old.referrer /\ row.points = old.points
      <3> HIDE DEF old, n, t, row
      <3>1. QED
        BY <2>2, <2>3, <2>4 DEF Rows
    <2>6. RowOK(m, row)
      BY <2>4, <2>5 DEF RowOK
    <2>7. QED
      BY <2>4, <2>5, <2>6
  <1> HIDE DEF row
  <1>5. /\ work' \in [Requests -> [Members -> Rows \cup {Unwritten}]]
        /\ work'[r][m] = row /\ Locks(r, m)'
        /\ \A x \in Members \ {m} : work'[r][x] = work[r][x] /\ Locks(r, x)' = Locks(r, x)
        /\ \A q \in Requests \ {r} : work'[q] = work[q]
    BY <1>3, <1>4, WritesRow DEF Inv
  <1>6. pc'[r] = "referral" /\ Alone(r)
    BY <1>1, <1>5 DEF Alone, SameRequest, Inv, TypeOK
  <1>7. TypeOK'
    BY <1>1, <1>5 DEF Inv, TypeOK, tables
  <1>8. member' = member /\ \A x \in Members : Exists(x)' = Exists(x)
    BY <1>1 DEF Exists, tables
  <1>9. \A y \in Members : NewFirst(r, y)' = NewFirst(r, y)
    BY <1>2, <1>3, <1>4, <1>8, SameFirst
  <1>10. Awarding(r)'
    <2>1. Awarding(r) /\ \A y \in Members : DuePoints(r, y) = 0 /\ DuePoints(r, y)' = 0
      BY <1>1, <1>6 DEF Inv, RequestOK, Uploading, DuePoints, Due
    <2>2. SUFFICES ASSUME NEW y \in Members
                   PROVE  IF Locks(r, y)'
                          THEN work'[r][y].points + 0 = member[y].points + Cardinality(NewFirst(r, y))
                          ELSE Cardinality(NewFirst(r, y)) = 0
      BY <1>8, <1>9, <2>1 DEF Awarding
    <2>3. CASE y # m
      BY <1>5, <2>1, <2>3 DEF Awarding
    <2>4. CASE y = m /\ Locks(r, m)
      BY <1>2, <1>4, <1>5, <2>1, <2>4, SeenRow DEF Awarding
    <2>5. CASE y = m /\ ~Locks(r, m)
      <3>1. row.points = member[m].points /\ row.points \in Int
        BY <1>2, <1>4, <2>5, SeenRow DEF Rows
      <3>2. Cardinality(NewFirst(r, y)) = 0
        BY <2>1, <2>5 DEF Awarding
      <3>3. QED
        BY <1>5, <2>5, <3>1, <3>2
    <2>6. QED
      BY <2>3, <2>4, <2>5
  <1>11. Uploading(r)'
    BY <1>1, <1>8, <1>10 DEF Inv, RequestOK, Uploading, Exists
  <1>12. Sale(r)' = Sale(r)
    BY <1>1 DEF Sale
  <1>13. \A x \in Members : Follows(r, x)'
    BY <1>1, <1>2, <1>3, <1>4, FollowsKept
  <1>14. Locks(r, Sale(r).member)' /\ work'[r][Sale(r)'.member].spending > 0
    BY <1>2, <1>4, <1>5, <1>12 DEF Locks
  <1>15. RequestOK(r)'
    BY <1>1, <1>6, <1>11, <1>13, <1>14 DEF RequestOK
  <1>16. \A x \in Members : Locks(r, x)' => \A q \in Requests \ {r} : ~Locks(q, x)
    BY <1>3, <1>5 DEF Inv, WritersApart, LockedByOther
  <1>17. QED
    BY <1>6, <1>7, <1>15, <1>16, InvKept

\* The request turns to the next sale.
LEMMA NextSaleDoes ==
    ASSUME Inv, NEW r \in Requests, pc[r] \in {"referral", "award"}, NextSale(r)
    PROVE  /\ pc'[r] = "upload" /\ job'[r] \in Uploads
           /\ pc' \in [Requests -> {"idle", "upload", "referral", "award", "read", "deducted",
                                    "logged", "editing", "failed", "unlogged"}]
           /\ job' \in [Requests -> Uploads \cup Redemptions \cup Edits \cup {NoJob}]
           /\ \A q \in Requests \ {r} : pc'[q] = pc[q] /\ job'[q] = job[q]
           /\ \A n \in 1 .. Len(job'[r].sales) :
                 job'[r].sales[n].member \in Members /\ Exists(job'[r].sales[n].member)
  <1>1. job[r].sales # <<>>
    BY DEF Inv, RequestOK
  <1>2. /\ job[r] \in Uploads /\ Tail(job[r].sales) \in Seq(Sales)
        /\ \A n \in 1 .. Len(Tail(job[r].sales)) :
              /\ Tail(job[r].sales)[n].member \in Members
              /\ Exists(Tail(job[r].sales)[n].member)
    BY <1>1, SalesTyped
  <1>3. pc' = [pc EXCEPT ![r] = "upload"] /\ job' = [job EXCEPT ![r].sales = Tail(@)]
    BY DEF NextSale
  <1>4. job'[r] = [job[r] EXCEPT !.sales = Tail(@)]
    BY <1>3 DEF Inv, TypeOK
  <1>5. job'[r].sales = Tail(job[r].sales) /\ job'[r] \in Uploads
    BY <1>2, <1>4 DEF Uploads
  <1>6. \A n \in 1 .. Len(job'[r].sales) :
           job'[r].sales[n].member \in Members /\ Exists(job'[r].sales[n].member)
    BY <1>2, <1>5
  <1>7. /\ pc'[r] = "upload" /\ \A q \in Requests \ {r} : pc'[q] = pc[q] /\ job'[q] = job[q]
    BY <1>3 DEF Inv, TypeOK
  <1>8. pc' \in [Requests -> {"idle", "upload", "referral", "award", "read", "deducted",
                              "logged", "editing", "failed", "unlogged"}]
    BY <1>3 DEF Inv, TypeOK
  <1>9. job' \in [Requests -> Uploads \cup Redemptions \cup Edits \cup {NoJob}]
    <2>1. \A q \in Requests : job'[q] \in Uploads \cup Redemptions \cup Edits \cup {NoJob}
      BY <1>5, <1>7 DEF Inv, TypeOK
    <2>2. job' = [q \in Requests |-> job'[q]]
      BY <1>3 DEF Inv, TypeOK
    <2>3. QED
      BY <2>1, <2>2
  <1>10. QED
    BY <1>5, <1>6, <1>7, <1>8, <1>9

\* The request has ended a sale with nothing due.
LEMMA SaleEnds ==
    ASSUME Inv, NEW r \in Requests, pc[r] \in {"referral", "award"}, NextSale(r),
           UNCHANGED tables, Awarding(r)', \A x \in Members : Follows(r, x)'
    PROVE  RequestOK(r)'
  <1>1. pc'[r] = "upload" /\ job'[r] \in Uploads
    BY NextSaleDoes
  <1>2. \A n \in 1 .. Len(job'[r].sales) : Exists(job[r].sales[n].member)'
    <2>1. \A n \in 1 .. Len(job'[r].sales) : Exists(job'[r].sales[n].member)
      BY NextSaleDoes
    <2>2. QED
      BY <2>1 DEF Exists, tables
  <1>3. Uploading(r)'
    BY <1>1, <1>2 DEF Uploading
  <1>4. QED
    BY <1>1, <1>3 DEF RequestOK

\* The member's first sale, of which the referrer is to have a point.
LEMMA MarkDueKeeps ==
    ASSUME Inv, NEW r \in Requests, MarkFirst(r), NEW m \in Members, m = Sale(r).member,
           ReferralDue(Seen(r, m))
    PROVE  Inv'
  <1> DEFINE old == work[r][m]
             row == [old EXCEPT !.first = TRUE]
             ref == old.referrer
  <1>1. /\ pc[r] = "referral" /\ job[r].sales # <<>> /\ Locks(r, m) /\ old.spending > 0
        /\ Awarding(r)
    BY DEF MarkFirst, Inv, RequestOK, Uploading
  <1>2. Exists(m) /\ Seen(r, m) = old /\ old \in Rows
    BY <1>1, LockedExists, SeenRow
  <1>3. /\ Writes(r, m, row) /\ pc' = [pc EXCEPT ![r] = "award"] /\ job' = job
        /\ UNCHANGED tables
    BY <1>2 DEF MarkFirst, Writes
  <1>4. /\ row \in Rows /\ row.first /\ row.referrer = ref /\ row.points = old.points
        /\ row.spending = old.spending /\ row.tier = old.tier
        /\ ref # NoMember /\ ~old.first /\ ref \in Members /\ ~member[m].first
        /\ RowOK(m, old)
    BY <1>2, SeenRow DEF ReferralDue, Rows
  <1>5. RowOK(m, row)
    BY <1>1, <1>4 DEF RowOK
  <1> HIDE DEF row, old, ref
  <1>6. /\ work' \in [Requests -> [Members -> Rows \cup {Unwritten}]]
        /\ work'[r][m] = row /\ Locks(r, m)'
        /\ \A x \in Members \ {m} : work'[r][x] = work[r][x] /\ Locks(r, x)' = Locks(r, x)
        /\ \A q \in Requests \ {r} : work'[q] = work[q]
    BY <1>3, <1>4, WritesRow DEF Inv
  <1>7. pc'[r] = "award" /\ Alone(r)
    BY <1>3, <1>6 DEF Alone, SameRequest, Inv, TypeOK
  <1>8. TypeOK'
    BY <1>3, <1>6 DEF Inv, TypeOK, tables
  <1>9. member' = member /\ Sale(r)' = Sale(r)
    BY <1>3 DEF Sale, tables
  <1>10. \A y \in Members : NewFirst(r, y)' = IF y = ref THEN NewFirst(r, y) \cup {m}
                                             ELSE NewFirst(r, y)
    <2>1. \A y \in Members, x \in Members \ {m} : x \in NewFirst(r, y)' <=> x \in NewFirst(r, y)
      BY <1>6, <1>9 DEF NewFirst
    <2>2. \A y \in Members : m \in NewFirst(r, y)' <=> y = ref
      BY <1>4, <1>6, <1>9 DEF NewFirst
    <2>3. \A y \in Members : m \notin NewFirst(r, y)
      BY <1>4 DEF NewFirst, old
    <2>4. QED
      BY <2>1, <2>2, <2>3 DEF NewFirst
  <1>11. Awarding(r)'
    <2>1. SUFFICES ASSUME NEW y \in Members
                   PROVE  IF Locks(r, y)'
                          THEN work'[r][y].points + DuePoints(r, y)'
                                  = member[y].points + Cardinality(NewFirst(r, y)')
                          ELSE Cardinality(NewFirst(r, y)') = DuePoints(r, y)'
      BY <1>9 DEF Awarding
    <2> DEFINE c == Cardinality(NewFirst(r, y))
    <2>2. DuePoints(r, y) = 0 /\ DuePoints(r, y)' = IF y = ref THEN 1 ELSE 0
      BY <1>1, <1>4, <1>6, <1>7, <1>9 DEF DuePoints, Due
    <2>3. c \in Nat /\ Cardinality(NewFirst(r, y)') = IF y = ref THEN c + 1 ELSE c
      <3>1. NewFirst(r, y) \in SUBSET Members /\ m \notin NewFirst(r, y)
        BY <1>4 DEF NewFirst, old
      <3>2. IsFiniteSet(NewFirst(r, y)) /\ c \in Nat
        BY <3>1, MembersCounted
      <3>3. Cardinality(NewFirst(r, y) \cup {m}) = c + 1
        BY <3>1, <3>2, FS_AddElement
      <3>4. QED
        BY <1>10, <3>2, <3>3
    <2>4. /\ Locks(r, y)' <=> Locks(r, y)
          /\ Locks(r, y) => work'[r][y].points = work[r][y].points
      BY <1>1, <1>4, <1>6 DEF old
    <2>5. IF Locks(r, y) THEN work[r][y].points + 0 = member[y].points + c ELSE c = 0
      BY <1>1, <2>2 DEF Awarding
    <2>6. Locks(r, y) => work[r][y].points \in Int /\ member[y].points \in Int
      <3>1. ASSUME Locks(r, y) PROVE work[r][y] \in Rows /\ member[y] \in Rows
        BY <3>1, LockedExists, RowsTyped DEF Inv
      <3>2. QED
        BY <3>1 DEF Rows
    <2> HIDE DEF c
    <2>7. QED
      BY <2>2, <2>3, <2>4, <2>5, <2>6
  <1>12. Uploading(r)'
    BY <1>1, <1>3, <1>9, <1>11 DEF Inv, RequestOK, Uploading, Exists
  <1>13. \A x \in Members : Follows(r, x)'
    BY <1>2, <1>3, <1>4, <1>5, FollowsKept DEF old, ref
  <1>14. /\ Locks(r, Sale(r).member)' /\ work'[r][Sale(r)'.member].spending > 0
         /\ work'[r][Sale(r)'.member].referrer # NoMember
    BY <1>1, <1>4, <1>6, <1>9 DEF Locks
  <1>15. RequestOK(r)'
    BY <1>1, <1>3, <1>7, <1>12, <1>13, <1>14 DEF RequestOK
  <1>16. \A x \in Members : Locks(r, x)' => Locks(r, x)
    BY <1>1, <1>6
  <1>17. QED
    BY <1>7, <1>8, <1>15, <1>16, InvKept DEF Inv, WritersApart

\* A sale that is not the first, or of a member without referrer, ends.
LEMMA MarkFirstKeeps ==
    ASSUME Inv, NEW r \in Requests, MarkFirst(r)
    PROVE  Inv'
  <1>1. pc[r] = "referral" /\ job[r].sales # <<>> /\ UNCHANGED tables
    BY DEF MarkFirst, Inv, RequestOK
  <1>2. PICK m \in Members : m = Sale(r).member
    BY <1>1, SalesTyped
  <1>3. CASE ReferralDue(Seen(r, m))
    BY <1>2, <1>3, MarkDueKeeps
  <1>4. CASE ~ReferralDue(Seen(r, m))
    <2>1. NextSale(r) /\ work' = work
      BY <1>2, <1>4 DEF MarkFirst
    <2>2. pc'[r] = "upload" /\ Alone(r)
      BY <1>1, <2>1, NextSaleDoes DEF Alone, SameRequest
    <2>3. TypeOK'
      BY <1>1, <2>1, NextSaleDoes DEF Inv, TypeOK, tables
    <2>4. \A x \in Members : /\ NewFirst(r, x)' = NewFirst(r, x)
                             /\ Locks(r, x)' = Locks(r, x)
                             /\ DuePoints(r, x)' = DuePoints(r, x)
      BY <1>1, <2>1, <2>2 DEF NewFirst, Locks, DuePoints, Due, tables
    <2>5. Awarding(r)'
      BY <1>1, <2>1, <2>4 DEF Inv, RequestOK, Uploading, Awarding, tables
    <2>6. \A x \in Members : Follows(r, x)'
      BY <1>1, <2>1 DEF Inv, RequestOK, Follows, Locks, Exists, RowOK, tables
    <2>7. RequestOK(r)'
      BY <1>1, <2>1, <2>5, <2>6, SaleEnds
    <2>8. QED
      BY <2>2, <2>3, <2>4, <2>7, InvKept DEF Inv, WritersApart
  <1>5. QED
    BY <1>3, <1>4

\* The referrer's point: what was due has been given.
LEMMA AwardReferrerKeeps ==
    ASSUME Inv, NEW r \in Requests, AwardReferrer(r)
    PROVE  Inv'
  <1>1. /\ pc[r] = "award" /\ job[r].sales # <<>> /\ UNCHANGED tables /\ NextSale(r)
        /\ Locks(r, Sale(r).member) /\ work[r][Sale(r).member].referrer # NoMember
        /\ Awarding(r)
    BY DEF AwardReferrer, Inv, RequestOK, Uploading
  <1>2. PICK m \in Members : m = Sale(r).member /\ Exists(m)
    BY <1>1, SalesTyped
  <1>3. Seen(r, m) = work[r][m]
    BY <1>1, <1>2, SeenRow
  <1>4. PICK ref \in Members : ref = work[r][m].referrer /\ Exists(ref)
    BY <1>1, <1>2, <1>3, SeenRow
  <1> DEFINE old == Seen(r, ref)
             row == [old EXCEPT !.points = @ + 1]
  <1>5. Writes(r, ref, row) /\ ~LockedByOther(r, ref)
    BY <1>2, <1>3, <1>4 DEF AwardReferrer, Writes
  <1>6. old \in Rows /\ RowOK(ref, old)
    BY <1>4, SeenRow
  <1>7. /\ row \in Rows /\ row.first = old.first /\ row.referrer = old.referrer
        /\ row.points = old.points + 1 /\ old.points \in Int
        /\ RowOK(ref, row)
    <2> HIDE DEF old
    <2>1. QED
      BY <1>6 DEF Rows, RowOK
  <1> HIDE DEF row
  <1>8. /\ work' \in [Requests -> [Members -> Rows \cup {Unwritten}]]
        /\ work'[r][ref] = row /\ Locks(r, ref)'
        /\ \A x \in Members \ {ref} : work'[r][x] = work[r][x] /\ Locks(r, x)' = Locks(r, x)
        /\ \A q \in Requests \ {r} : work'[q] = work[q]
    BY <1>5, <1>7, WritesRow DEF Inv
  <1>9. pc'[r] = "upload" /\ Alone(r)
    BY <1>1, <1>8, NextSaleDoes DEF Alone, SameRequest
  <1>10. TypeOK'
    BY <1>1, <1>8, NextSaleDoes DEF Inv, TypeOK, tables
  <1>11. member' = member
    BY <1>1 DEF tables
  <1>12. \A y \in Members : NewFirst(r, y)' = NewFirst(r, y)
    BY <1>4, <1>5, <1>7, <1>11, SameFirst
  <1>13. Awarding(r)'
    <2>1. SUFFICES ASSUME NEW y \in Members
                   PROVE  IF Locks(r, y)'
                          THEN work'[r][y].points + DuePoints(r, y)'
                                  = member[y].points + Cardinality(NewFirst(r, y))
                          ELSE Cardinality(NewFirst(r, y)) = DuePoints(r, y)'
      BY <1>11, <1>12 DEF Awarding
    <2> DEFINE c == Cardinality(NewFirst(r, y))
    <2>2. DuePoints(r, y)' = 0 /\ DuePoints(r, y) = IF y = ref THEN 1 ELSE 0
      BY <1>1, <1>2, <1>4, <1>9 DEF DuePoints, Due
    <2>3. c \in Nat
      BY MembersCounted DEF NewFirst
    <2>4. IF Locks(r, y) THEN work[r][y].points + DuePoints(r, y) = member[y].points + c
          ELSE c = DuePoints(r, y)
      BY <1>1 DEF Awarding
    <2>5. CASE y # ref
      BY <1>8, <2>2, <2>4, <2>5
    <2>6. CASE y = ref /\ Locks(r, ref)
      <3>1. old = work[r][y] /\ work'[r][y].points = work[r][y].points + 1
        BY <1>4, <1>7, <1>8, <2>6, SeenRow
      <3>2. work[r][y].points + 1 = member[y].points + c
        BY <2>2, <2>4, <2>6
      <3>3. member[y].points \in Int /\ work[r][y].points \in Int
        <4>1. member[y] \in Rows
          BY <1>4, <2>6, RowsTyped DEF Inv
        <4>2. QED
          BY <1>7, <3>1, <4>1 DEF Rows
      <3>4. work'[r][y].points + 0 = member[y].points + c
        <4> HIDE DEF c, old
        <4>1. QED
          BY <2>3, <3>1, <3>2, <3>3
      <3>5. QED
        BY <1>8, <2>2, <2>6, <3>4
    <2>7. CASE y = ref /\ ~Locks(r, ref)
      <3>1. old = member[y] /\ work'[r][y].points = member[y].points + 1 /\ member[y].points \in Int
        BY <1>4, <1>7, <1>8, <2>7, SeenRow
      <3>2. c = 1
        BY <2>2, <2>4, <2>7
      <3>3. work'[r][y].points + 0 = member[y].points + c
        <4> HIDE DEF c, old
        <4>1. QED
          BY <3>1, <3>2
      <3>4. QED
        BY <1>8, <2>2, <2>7, <3>3
    <2>8. QED
      BY <2>5, <2>6, <2>7
  <1>14. \A x \in Members : Follows(r, x)'
    BY <1>1, <1>4, <1>5, <1>7, FollowsKept
  <1>15. RequestOK(r)'
    BY <1>1, <1>13, <1>14, SaleEnds
  <1>16. \A x \in Members : Locks(r, x)' => \A q \in Requests \ {r} : ~Locks(q, x)
    BY <1>5, <1>8 DEF Inv, WritersApart, LockedByOther
  <1>17. QED
    BY <1>9, <1>10, <1>15, <1>16, InvKept

-----------------------------------------------------------------------------
(***************************************************************************)
(* Commits.                                                                *)
(***************************************************************************)
\* The rows that were written become the committed ones, and nobody else's
\* request is disturbed.
LEMMA CommitDoes ==
    ASSUME Inv, NEW r \in Requests, CommitRows(r), End(r), UNCHANGED <<earned, edited>>
    PROVE  /\ \A x \in Members : member'[x] = IF Locks(r, x) THEN work[r][x] ELSE member[x]
           /\ member' \in [Members -> Rows \cup {Unborn, Deleted}]
           /\ \A x \in Members : Exists(x)' <=> Exists(x)
           /\ \A q \in Requests : RequestOK(q)'
           /\ \A x \in Members : member'[x] = Unborn => earned'[x] = 0
           /\ \A x, m \in Members : Exists(x)' /\ member'[x].referrer = m => Exists(m)'
           /\ \A x \in Members : Exists(x)' => RowOK(x, member[x])'
           /\ \A m \in Members : Referred(m)' = Referred(m) \cup NewFirst(r, m)
  <1>1. \A x \in Members : member'[x] = IF Locks(r, x) THEN work[r][x] ELSE member[x]
    BY DEF CommitRows
  <1>2. \A x \in Members : Locks(r, x) => /\ Exists(x) /\ work[r][x] \in Rows
                                          /\ work[r][x].referrer = member[x].referrer
                                          /\ member[x].first => work[r][x].first
                                          /\ RowOK(x, work[r][x])
    <2>1. \A x \in Members : Follows(r, x)
      BY DEF Inv, RequestOK
    <2>2. \A x \in Members : Locks(r, x) => work[r][x] \in Rows
      BY RowsTyped DEF Inv
    <2>3. QED
      BY <2>1, <2>2 DEF Follows
  <1>3. member' \in [Members -> Rows \cup {Unborn, Deleted}]
    <2>1. \A x \in Members : member'[x] \in Rows \cup {Unborn, Deleted}
      BY <1>1, <1>2 DEF Inv, TypeOK
    <2>2. member' = [x \in Members |-> member'[x]]
      BY DEF CommitRows
    <2>3. QED
      BY <2>1, <2>2
  <1>4. \A x \in Members : Exists(x)' <=> Exists(x)
    BY <1>1, <1>2, RowKinds DEF Exists
  <1>5. Grown
    <2>1. \A x \in Members : member[x] # Unborn => member'[x] # Unborn
      BY <1>1, <1>2, RowKinds
    <2>2. \A x \in Members : member[x] = Deleted => member'[x] = Deleted
      BY <1>1, <1>2 DEF Exists
    <2>3. QED
      BY <2>1, <2>2 DEF Grown
  <1>6. \A q \in Requests : RequestOK(q)'
    <2>1. ASSUME NEW q \in Requests \ {r} PROVE RequestOK(q)'
      <3>1. SameRequest(q)
        BY EndDoes
      <3>2. \A x \in Members : Locks(q, x) => member'[x] = member[x]
        BY <1>1 DEF Inv, WritersApart
      <3>3. QED
        BY <1>4, <1>5, <3>1, <3>2, RequestKept DEF Inv
    <2>2. QED
      BY <2>1, EndDoes
  <1>7. \A x \in Members : member'[x] = Unborn => earned'[x] = 0
    BY <1>1, <1>2, RowKinds DEF Inv, NoneLost
  <1>8. \A x \in Members : Exists(x) => member'[x].referrer = member[x].referrer
    BY <1>1, <1>2
  <1>9. \A x, m \in Members : Exists(x)' /\ member'[x].referrer = m => Exists(m)'
    BY <1>4, <1>8 DEF Inv, NoneLost
  <1>10. \A x \in Members : Exists(x)' => RowOK(x, member[x])'
    <2>1. \A x \in Members : Locks(r, x) => RowOK(x, member[x])'
      BY <1>1, <1>2 DEF RowOK
    <2>2. \A x \in Members : ~Locks(r, x) /\ Exists(x) => RowOK(x, member[x])'
      BY <1>1 DEF Inv, RowOK
    <2>3. QED
      BY <1>4, <2>1, <2>2
  <1>11. \A m \in Members : Referred(m)' = Referred(m) \cup NewFirst(r, m)
    <2>1. ASSUME NEW m \in Members, NEW x \in Members
          PROVE  x \in Referred(m)' <=> x \in Referred(m) \/ x \in NewFirst(r, m)
      <3>1. CASE Locks(r, x)
        <4>1. member[x].first \in BOOLEAN /\ work[r][x].first \in BOOLEAN
          BY <1>2, <3>1, RowsTyped DEF Inv, Rows
        <4>2. QED
          BY <1>1, <1>2, <1>4, <3>1, <4>1 DEF Referred, NewFirst
      <3>2. CASE ~Locks(r, x)
        BY <1>1, <1>4, <3>2 DEF Referred, NewFirst
      <3>3. QED
        BY <3>1, <3>2
    <2>2. QED
      BY <2>1 DEF Referred, NewFirst
  <1>12. QED
    BY <1>1, <1>3, <1>4, <1>6, <1>7, <1>9, <1>10, <1>11

\* The members that the commit adds to the referred ones had not bought before.
LEMMA NewlyReferred ==
    ASSUME NEW r \in Requests, NEW m \in Members,
           Referred(m)' = Referred(m) \cup NewFirst(r, m)
    PROVE  /\ Cardinality(Referred(m)') = Cardinality(Referred(m)) + Cardinality(NewFirst(r, m))
           /\ Cardinality(Referred(m)) \in Nat /\ Cardinality(NewFirst(r, m)) \in Nat
  <1>1. Referred(m) \in SUBSET Members /\ NewFirst(r, m) \in SUBSET Members
    BY DEF Referred, NewFirst
  <1>2. Referred(m) \cap NewFirst(r, m) = {}
    BY DEF Referred, NewFirst
  <1>3. /\ IsFiniteSet(Referred(m)) /\ Cardinality(Referred(m)) \in Nat
        /\ IsFiniteSet(NewFirst(r, m)) /\ Cardinality(NewFirst(r, m)) \in Nat
    BY <1>1, MembersCounted
  <1>4. Cardinality(Referred(m) \cup NewFirst(r, m))
           = Cardinality(Referred(m)) + Cardinality(NewFirst(r, m)) - Cardinality({})
    BY <1>2, <1>3, FS_Union
  <1>5. QED
    BY <1>3, <1>4, FS_EmptySet

\* An upload commits as many points for a referrer as first sales.
LEMMA CommitUploadKeeps ==
    ASSUME Inv, NEW r \in Requests, CommitUpload(r)
    PROVE  Inv'
  <1>1. /\ pc[r] = "upload" /\ CommitRows(r) /\ End(r)
        /\ earned' = earned /\ redeemed' = redeemed /\ edited' = edited
    BY DEF CommitUpload
  <1>2. TypeOK' /\ WritersApart'
    BY <1>1, CommitDoes, EndDoes DEF Inv, TypeOK
  <1>3. NoneLost'
    BY <1>1, CommitDoes DEF Inv, NoneLost
  <1>4. PointsBalance'
    <2>1. SUFFICES ASSUME NEW m \in Members, Exists(m)
                   PROVE  member'[m].points = Cardinality(Referred(m)') + earned[m] - redeemed[m]
      BY <1>1, CommitDoes DEF PointsBalance
    <2> DEFINE c == Cardinality(Referred(m))
               d == Cardinality(NewFirst(r, m))
    <2>2. Cardinality(Referred(m)') = c + d /\ c \in Nat /\ d \in Nat
      BY <1>1, CommitDoes, NewlyReferred
    <2>3. /\ member[m].points = c + earned[m] - redeemed[m]
          /\ earned[m] \in Nat /\ redeemed[m] \in Nat
      BY <2>1, RowsTyped DEF Inv, PointsBalance
    <2>4. member'[m].points = member[m].points + d
      <3>1. /\ Awarding(r) /\ DuePoints(r, m) = 0
            /\ member'[m] = IF Locks(r, m) THEN work[r][m] ELSE member[m]
        BY <1>1, CommitDoes DEF Inv, RequestOK, Uploading, DuePoints, Due
      <3>2. member[m] \in Rows /\ (Locks(r, m) => work[r][m] \in Rows)
        BY <2>1, RowsTyped DEF Inv
      <3>3. member[m].points \in Int /\ (Locks(r, m) => work[r][m].points \in Int)
        BY <3>2 DEF Rows
      <3>4. IF Locks(r, m) THEN work[r][m].points + 0 = member[m].points + d ELSE d = 0
        BY <3>1 DEF Awarding
      <3> HIDE DEF d
      <3>5. QED
        BY <2>2, <3>1, <3>3, <3>4
    <2>5. member'[m].points = (c + d) + earned[m] - redeemed[m]
      <3> HIDE DEF c, d
      <3>1. QED
        BY <2>2, <2>3, <2>4
    <2>6. QED
      BY <2>2, <2>5
  <1>5. QED
    BY <1>1, <1>2, <1>3, <1>4, CommitDoes DEF Inv

-----------------------------------------------------------------------------
(***************************************************************************)
(* The steps of a redemption.                                              *)
(***************************************************************************)
LEMMA ReadPointsKeeps ==
    ASSUME Inv, NEW r \in Requests, NEW m \in Members, NEW p \in 1 .. MaxEarned,
           ReadPoints(r, m, p)
    PROVE  Inv'
  <1>1. [member |-> m, points |-> p] \in Redemptions
    BY BoundsAssumption DEF Redemptions
  <1>2. /\ pc[r] = "idle" /\ pc'[r] = "read" /\ job'[r] = [member |-> m, points |-> p]
        /\ work' = work /\ UNCHANGED tables /\ Exists(m)
        /\ Alone(r)
    BY DEF ReadPoints, Inv, TypeOK, Alone, SameRequest
  <1>3. TypeOK'
    BY <1>1, <1>2 DEF ReadPoints, Inv, TypeOK, tables
  <1>4. NoWork(r)' /\ \A x \in Members : ~Locks(r, x)'
    BY <1>2 DEF Inv, RequestOK, NoWork, Locks
  <1>5. member'[m] # Unborn
    BY <1>2 DEF Exists, tables
  <1>6. RequestOK(r)'
    BY <1>1, <1>2, <1>4, <1>5 DEF RequestOK, Follows
  <1>7. QED
    BY <1>2, <1>3, <1>4, <1>6, InvKept

\* The deduction is from the balance that the UPDATE finds.
LEMMA DeductPointsKeeps ==
    ASSUME Inv, NEW r \in Requests, DeductPoints(r)
    PROVE  Inv'
  <1>1. /\ pc[r] = "read" /\ job[r] \in Redemptions /\ member[job[r].member] # Unborn
        /\ NoWork(r) /\ pc' = [pc EXCEPT ![r] = "deducted"]
        /\ UNCHANGED tables /\ job' = job
    BY DEF DeductPoints, Inv, RequestOK
  <1>2. PICK m \in Members, p \in Nat \ {0} : m = job[r].member /\ p = job[r].points
    BY <1>1 DEF Redemptions
  <1> DEFINE row == [member[m] EXCEPT !.points = @ - p]
  <1>3. /\ ~LockedByOther(r, m)
        /\ Exists(m) => Writes(r, m, row)
        /\ ~Exists(m) => work' = work
    BY <1>2 DEF DeductPoints, Writes
  <1>4. ~Locks(r, m) /\ \A x \in Members : ~Locks(r, x) /\ work[r][x] = Unwritten
    BY <1>1 DEF NoWork, Locks
  <1>5. Exists(m) =>
           /\ row \in Rows /\ row.first = Seen(r, m).first
           /\ row.referrer = Seen(r, m).referrer /\ RowOK(m, row)
    <2>1. ASSUME Exists(m)
          PROVE  /\ row \in Rows /\ row.first = member[m].first
                 /\ row.referrer = member[m].referrer /\ RowOK(m, row)
      <3>1. member[m] \in Rows /\ RowOK(m, member[m])
        BY <2>1, RowsTyped DEF Inv
      <3>2. QED
        BY <1>2, <3>1 DEF Rows, RowOK
    <2>2. QED
      BY <1>4, <2>1, SeenRow
  <1> HIDE DEF row
  <1>6. /\ work' \in [Requests -> [Members -> Rows \cup {Unwritten}]]
        /\ \A q \in Requests \ {r} : work'[q] = work[q]
        /\ Exists(m) => work'[r][m] = row
        /\ ~Exists(m) => work'[r][m] = Unwritten
        /\ \A x \in Members \ {m} : work'[r][x] = Unwritten
    BY <1>3, <1>4, <1>5, WritesRow DEF Inv, TypeOK
  <1>7. pc'[r] = "deducted" /\ Alone(r)
    BY <1>1, <1>6 DEF Alone, SameRequest, Inv, TypeOK
  <1>8. TypeOK'
    BY <1>1, <1>6 DEF Inv, TypeOK, tables
  <1>9. Deducted(r)'
    BY <1>1, <1>2, <1>6 DEF Deducted, Exists, tables, row
  <1>10. \A x \in Members : Follows(r, x)'
    <2>1. CASE Exists(m)
      BY <1>1, <1>3, <1>5, <2>1, FollowsKept
    <2>2. CASE ~Exists(m)
      BY <1>6, <2>2 DEF Follows, Locks
    <2>3. QED
      BY <2>1, <2>2
  <1>11. RequestOK(r)'
    BY <1>1, <1>7, <1>9, <1>10 DEF RequestOK, tables
  <1>12. \A x \in Members : Locks(r, x)' => \A q \in Requests \ {r} : ~Locks(q, x)
    BY <1>3, <1>6 DEF Locks, LockedByOther
  <1>13. QED
    BY <1>7, <1>8, <1>11, <1>12, InvKept

LEMMA LogRedemptionKeeps ==
    ASSUME Inv, NEW r \in Requests, LogRedemption(r)
    PROVE  Inv'
  <1>1. /\ pc[r] = "deducted" /\ Exists(job[r].member) /\ pc' = [pc EXCEPT ![r] = "logged"]
        /\ UNCHANGED tables /\ job' = job /\ work' = work
        /\ job[r] \in Redemptions /\ member[job[r].member] # Unborn /\ Deducted(r)
    BY DEF LogRedemption, Inv, RequestOK
  <1>2. pc'[r] = "logged" /\ Alone(r) /\ TypeOK'
    BY <1>1 DEF Inv, TypeOK, Alone, SameRequest, tables
  <1>3. PICK m \in Members : m = job[r].member /\ Exists(m)
    BY <1>1 DEF Redemptions
  <1>4. Locks(r, m)
    <2>1. work[r][m] = [member[m] EXCEPT !.points = @ - job[r].points]
      BY <1>1, <1>3 DEF Deducted
    <2>2. member[m] \in Rows
      BY <1>3, RowsTyped DEF Inv
    <2>3. work[r][m].tier \in Tiers
      BY <2>1, <2>2 DEF Rows
    <2>4. QED
      BY <2>3 DEF Locks, Unwritten, Tiers
  <1>5. Deducted(r)'
    BY <1>1 DEF Deducted, Exists, tables
  <1>6. \A x \in Members : Follows(r, x)' /\ (Locks(r, x)' <=> Locks(r, x))
    BY <1>1 DEF Inv, RequestOK, Follows, Locks, Exists, RowOK, tables
  <1>7. Locks(r, job[r].member)'
    BY <1>1, <1>3, <1>4 DEF Locks
  <1>8. RequestOK(r)'
    BY <1>1, <1>2, <1>5, <1>6, <1>7 DEF RequestOK, tables
  <1>9. QED
    BY <1>2, <1>6, <1>8, InvKept DEF Inv, WritersApart

\* A redemption commits its deduction together with its record.
LEMMA CommitRedemptionKeeps ==
    ASSUME Inv, NEW r \in Requests, CommitRedemption(r)
    PROVE  Inv'
  <1>1. /\ pc[r] = "logged" /\ CommitRows(r) /\ End(r)
        /\ redeemed' = [redeemed EXCEPT ![job[r].member] = @ + job[r].points]
        /\ earned' = earned /\ edited' = edited
        /\ job[r] \in Redemptions /\ Deducted(r)
    BY DEF CommitRedemption, Inv, RequestOK
  <1>2. PICK m \in Members, p \in Nat \ {0} : m = job[r].member /\ p = job[r].points
    BY <1>1 DEF Redemptions
  <1>3. Locks(r, m) /\ Exists(m)
    BY <1>1, <1>2, LockedExists DEF Inv, RequestOK
  <1>4. redeemed \in [Members -> Nat]
    BY DEF Inv, TypeOK
  <1>5. /\ redeemed'[m] = redeemed[m] + p
        /\ \A x \in Members \ {m} : redeemed'[x] = redeemed[x] /\ ~Locks(r, x)
        /\ redeemed' \in [Members -> Nat]
    <2>1. redeemed' = [redeemed EXCEPT ![m] = @ + p]
      BY <1>1, <1>2
    <2>2. \A x \in Members \ {m} : ~Locks(r, x)
      BY <1>1, <1>2 DEF Deducted, Locks
    <2>3. QED
      BY <1>4, <2>1, <2>2
  <1>6. TypeOK' /\ WritersApart'
    BY <1>1, <1>5, CommitDoes, EndDoes DEF Inv, TypeOK
  <1>7. NoneLost'
    <2>1. \A x \in Members : redeemed'[x] > 0 => Exists(x)'
      BY <1>1, <1>3, <1>5, CommitDoes DEF Inv, NoneLost
    <2>2. QED
      BY <1>1, <2>1, CommitDoes DEF NoneLost
  <1>8. PointsBalance'
    <2>1. SUFFICES ASSUME NEW x \in Members, Exists(x)
                   PROVE  member'[x].points = Cardinality(Referred(x)') + earned[x] - redeemed'[x]
      BY <1>1, CommitDoes DEF PointsBalance
    <2> DEFINE c == Cardinality(Referred(x))
    <2>2. Referred(x)' = Referred(x)
      <3>1. \A y \in Members : Locks(r, y) => work[r][y].first = member[y].first
        <4>1. work[r][m] = [member[m] EXCEPT !.points = @ - p] /\ member[m] \in Rows
          BY <1>1, <1>2, <1>3, RowsTyped DEF Deducted, Inv
        <4>2. work[r][m].first = member[m].first
          BY <4>1 DEF Rows
        <4>3. QED
          BY <1>5, <4>2
      <3>2. NewFirst(r, x) = {}
        BY <3>1 DEF NewFirst
      <3>3. QED
        BY <1>1, <3>2, CommitDoes
    <2>3. /\ c \in Nat /\ earned[x] \in Nat /\ redeemed[x] \in Nat
          /\ member[x].points = c + earned[x] - redeemed[x]
      BY <2>1, RowsTyped, MembersCounted DEF Inv, PointsBalance, Referred
    <2>4. member'[x].points = c + earned[x] - redeemed'[x]
      <3>1. CASE x = m
        <4>1. work[r][m] = [member[m] EXCEPT !.points = @ - p] /\ member[m] \in Rows
          BY <1>1, <1>2, <1>3, RowsTyped DEF Deducted, Inv
        <4>2. member'[m].points = member[m].points - p
          BY <1>1, <1>3, <4>1, CommitDoes DEF Rows
        <4> HIDE DEF c
        <4>3. QED
          BY <1>2, <1>5, <2>3, <3>1, <4>2
      <3>2. CASE x # m
        <4>1. member'[x] = member[x] /\ redeemed'[x] = redeemed[x]
          BY <1>1, <1>5, <3>2, CommitDoes
        <4>2. QED
          BY <2>3, <4>1
      <3>3. QED
        BY <3>1, <3>2
    <2>5. QED
      BY <2>2, <2>4
  <1>9. QED
    BY <1>1, <1>6, <1>7, <1>8, CommitDoes DEF Inv

-----------------------------------------------------------------------------
(***************************************************************************)
(* Edits.                                                                  *)
(***************************************************************************)
LEMMA ReadMemberKeeps ==
    ASSUME Inv, NEW r \in Requests, NEW m \in Members, NEW t \in Tiers, ReadMember(r, m, t)
    PROVE  Inv'
  <1>1. [member |-> m, tier |-> t] \in Edits
    BY DEF Edits
  <1>2. /\ pc[r] = "idle" /\ pc'[r] = "editing" /\ job'[r] = [member |-> m, tier |-> t]
        /\ work' = work /\ UNCHANGED tables
        /\ Alone(r)
    BY DEF ReadMember, Inv, TypeOK, Alone, SameRequest
  <1>3. TypeOK'
    BY <1>1, <1>2 DEF ReadMember, Inv, TypeOK, tables
  <1>4. NoWork(r)' /\ \A x \in Members : ~Locks(r, x)'
    BY <1>2 DEF Inv, RequestOK, NoWork, Locks
  <1>5. RequestOK(r)'
    BY <1>1, <1>2, <1>4 DEF RequestOK, Follows
  <1>6. QED
    BY <1>2, <1>3, <1>4, <1>5, InvKept

\* The tier is written to a row that nobody else is writing, and what the points
\* are made of stays.
LEMMA WriteMemberKeeps ==
    ASSUME Inv, NEW r \in Requests, WriteMember(r)
    PROVE  Inv'
  <1>1. /\ pc[r] = "editing" /\ job[r] \in Edits /\ End(r)
        /\ earned' = earned /\ redeemed' = redeemed
    BY DEF WriteMember, Inv, RequestOK
  <1>2. PICK m \in Members, t \in Tiers : m = job[r].member /\ t = job[r].tier
    BY <1>1 DEF Edits
  <1>3. /\ ~Locked(m)
        /\ Exists(m) => member' = [member EXCEPT ![m].tier = t] /\ edited' = edited \cup {m}
        /\ ~Exists(m) => UNCHANGED <<member, edited>>
    BY <1>2 DEF WriteMember
  <1>4. CASE ~Exists(m)
    BY <1>1, <1>3, <1>4, EndKeeps DEF tables
  <1>5. CASE Exists(m)
    <2> DEFINE row == [member[m] EXCEPT !.tier = t]
    <2>1. member[m] \in Rows
      BY <1>5, RowsTyped DEF Inv
    <2>2. /\ row \in Rows /\ row.points = member[m].points /\ row.spending = member[m].spending
          /\ row.first = member[m].first /\ row.referrer = member[m].referrer
      BY <2>1 DEF Rows
    <2>3. member' = [member EXCEPT ![m] = row] /\ edited' = edited \cup {m}
      BY <1>3, <1>5
    <2> HIDE DEF row
    <2>4. /\ member' \in [Members -> Rows \cup {Unborn, Deleted}]
          /\ \A x \in Members : Exists(x)' = Exists(x)
          /\ Grown
          /\ \A q \in Requests, x \in Members : Locks(q, x) => member'[x] = member[x]
          /\ \A x \in Members : /\ Referred(x)' = Referred(x)
                                /\ member'[x] = Unborn => member[x] = Unborn
                                /\ Exists(x) => member'[x].referrer = member[x].referrer
      BY <1>3, <1>5, <2>2, <2>3, RowChanged
    <2>5. /\ member'[m] = row /\ \A x \in Members \ {m} : member'[x] = member[x]
      BY <2>3 DEF Inv, TypeOK
    <2>6. TypeOK' /\ WritersApart'
      BY <1>1, <2>3, <2>4, EndDoes DEF Inv, TypeOK
    <2>7. \A q \in Requests : RequestOK(q)'
      <3>1. ASSUME NEW q \in Requests \ {r} PROVE RequestOK(q)'
        <4>1. SameRequest(q)
          BY <1>1, EndDoes
        <4>2. \A x \in Members : SellsTo(q, x) /\ Exists(x) => Exists(x)'
          BY <2>4
        <4>3. QED
          BY <2>4, <4>1, <4>2, RequestKept DEF Inv
      <3>2. QED
        BY <1>1, <3>1, EndDoes
    <2>8. NoneLost'
      BY <1>1, <2>4 DEF Inv, NoneLost
    <2>9. PointsBalance'
      <3>1. \A x \in Members : member'[x].points = member[x].points
        BY <2>2, <2>5
      <3>2. QED
        BY <1>1, <2>4, <3>1 DEF Inv, PointsBalance
    <2>10. \A x \in Members : Exists(x)' => RowOK(x, member[x])'
      <3>1. RowOK(m, member[m])'
        BY <1>5, <2>2, <2>3, <2>5 DEF Inv, RowOK
      <3>2. \A x \in Members \ {m} : Exists(x)' => RowOK(x, member[x])'
        BY <2>3, <2>4, <2>5 DEF Inv, RowOK
      <3>3. QED
        BY <3>1, <3>2
    <2>11. QED
      BY <2>6, <2>7, <2>8, <2>9, <2>10 DEF Inv
  <1>6. QED
    BY <1>4, <1>5

-----------------------------------------------------------------------------
\* No member, no request: nothing to account for.
LEMMA InitInv == Init => Inv
  <1> SUFFICES ASSUME Init PROVE Inv
    OBVIOUS
  <1>1. TypeOK
    BY DEF Init, TypeOK, Clean
  <1>2. \A m \in Members : ~Exists(m)
    BY DEF Init, Exists
  <1>3. \A r \in Requests : RequestOK(r)
    BY DEF Init, RequestOK, NoWork, Follows, Locks, Clean
  <1>4. WritersApart /\ NoneLost
    BY <1>2 DEF Init, WritersApart, NoneLost, Locks, Clean
  <1>5. QED
    BY <1>1, <1>2, <1>3, <1>4 DEF Inv, PointsBalance

LEMMA StutterKeeps ==
    ASSUME Inv, UNCHANGED vars
    PROVE  Inv'
  <1>1. UNCHANGED tables /\ pc' = pc /\ job' = job /\ work' = work
    BY DEF vars, tables
  <1>2. TypeOK' /\ Grown /\ \A m \in Members : Exists(m)' = Exists(m)
    BY <1>1 DEF Inv, TypeOK, Grown, Exists, tables
  <1>3. (\A q \in Requests : RequestOK(q)') /\ WritersApart'
    BY <1>1, <1>2, RequestsKept DEF tables
  <1>4. NoneLost' /\ PointsBalance' /\ \A m \in Members : Exists(m)' => RowOK(m, member[m])'
    BY <1>1 DEF Inv, NoneLost, PointsBalance, Referred, Exists, RowOK, tables
  <1>5. QED
    BY <1>2, <1>3, <1>4 DEF Inv

\* Every step keeps the invariant.
LEMMA NextInv ==
    ASSUME Inv, [Next]_vars
    PROVE  Inv'
  <1>1. ASSUME NEW m \in Members, NEW t \in ChosenTiers, NEW x \in Members \cup {NoMember},
               Create(m, t, x)
        PROVE  Inv'
    BY <1>1, CreateKeeps
  <1>2. ASSUME NEW m \in Members, Delete(m) \/ AwardPoints(m) PROVE Inv'
    BY <1>2, DeleteKeeps, AwardPointsKeeps
  <1>3. ASSUME NEW r \in Requests, NEW b \in Batches, BeginUpload(r, b) PROVE Inv'
    BY <1>3, BeginUploadKeeps
  <1>4. ASSUME NEW r \in Requests, Upload(r) PROVE Inv'
    BY <1>4, UpdateSpendingKeeps, MarkFirstKeeps, AwardReferrerKeeps, CommitUploadKeeps DEF Upload
  <1>5. ASSUME NEW r \in Requests, UploadBreaks(r) \/ LogFails(r) PROVE Inv'
    BY <1>5, BreakKeeps DEF UploadBreaks, LogFails
  <1>6. ASSUME NEW r \in Requests, NEW m \in Members, NEW p \in 1 .. MaxEarned,
               ReadPoints(r, m, p)
        PROVE  Inv'
    BY <1>6, ReadPointsKeeps
  <1>7. ASSUME NEW r \in Requests, RedeemPoints(r) PROVE Inv'
    BY <1>5, <1>7, DeductPointsKeeps, LogRedemptionKeeps, CommitRedemptionKeeps DEF RedeemPoints
  <1>8. ASSUME NEW r \in Requests, NEW m \in Members, KeepTier(r, m) PROVE Inv'
    <2>1. member[m].tier \in Tiers
      <3>1. member[m] \in Rows
        BY <1>8, RowsTyped DEF KeepTier, Inv
      <3>2. QED
        BY <3>1 DEF Rows
    <2>2. QED
      BY <1>8, <2>1, ReadMemberKeeps DEF KeepTier
  <1>9. ASSUME NEW r \in Requests, NEW m \in Members, NEW t \in ChosenTiers, SetTier(r, m, t)
        PROVE  Inv'
    BY <1>9, ChosenTiersAssumption, ReadMemberKeeps DEF SetTier
  <1>10. ASSUME NEW r \in Requests, WriteMember(r) PROVE Inv'
    BY <1>10, WriteMemberKeeps
  <1>11. ASSUME NEW r \in Requests, EndFailed(r) \/ Abort(r) PROVE Inv'
    BY <1>11, EndKeeps DEF EndFailed, Abort
  <1>12. QED
    BY <1>1, <1>2, <1>3, <1>4, <1>5, <1>6, <1>7, <1>8, <1>9, <1>10, <1>11, StutterKeeps DEF Next

\* Type correctness: whatever uploads, redemptions and edits overlap, fail or are
\* lost, the rows keep the shape that the table of members demands.
THEOREM TypeCorrect == Spec => []TypeOK
  <1>1. Inv => TypeOK
    BY DEF Inv
  <1>2. QED
    BY <1>1, InitInv, NextInv, PTL DEF Spec

\* The balance of a member is what its referrals and awards have brought, each
\* referred member once, less the redemptions on record, however uploads,
\* repeated sales, failed statements and redemptions interleave
\* (AwardReferralPoints, RedeemPoints, AwardPoints).
THEOREM PointsAreBalanced == Spec => []PointsBalance
  <1>1. Inv => PointsBalance
    BY DEF Inv
  <1>2. QED
    BY <1>1, InitInv, NextInv, PTL DEF Spec

\* A member that no owner has edited is in the tier of its total spending, to
\* which several uploads may add at once (UpdateSpending).
THEOREM TiersFollow == Spec => []TierFollowsSpending
  <1>1. Inv => TierFollowsSpending
    BY DEF Inv, TierFollowsSpending, RowOK
  <1>2. QED
    BY <1>1, InitInv, NextInv, PTL DEF Spec

\* A member that has bought or redeemed is never deleted, and no member refers
\* to a deleted one (Delete against uploads in progress).
THEOREM NoOrphans == Spec => []NothingOrphaned
  <1>1. Inv => NothingOrphaned
    <2> SUFFICES ASSUME Inv PROVE NothingOrphaned
      OBVIOUS
    <2>2. \A x \in Members : Exists(x) => member[x].referrer \in Members \cup {NoMember}
      <3>1. \A x \in Members : Exists(x) => member[x] \in Rows
        BY RowsTyped DEF Inv
      <3>2. QED
        BY <3>1 DEF Rows
    <2>3. QED
      BY <2>2, LockedExists DEF Inv, NothingOrphaned, NoneLost
  <1>2. QED
    BY <1>1, InitInv, NextInv, PTL DEF Spec
=============================================================================
