------------------------------ MODULE Loyalty ------------------------------
(***************************************************************************)
(* Members, their points, spending and tier (member_service.go), changed   *)
(* by sync uploads, redemptions, awards and owners' edits at once.  Each   *)
(* request is one PostgreSQL transaction at READ COMMITTED; a member row   *)
(* that it has updated stays locked to the end of the transaction.  A      *)
(* transaction of one statement is one step, guarded by the row's lock.    *)
(*                                                                         *)
(* Points are counted in hundreds: a referral earns 1, RedeemPoints takes  *)
(* whole units, AwardPoints gives 1 at a time.  Spending is counted in     *)
(* units of Rp 500.000, the lowest of the thresholds; "tier" stands for    *)
(* tier and discount_percent, which are always written together.           *)
(***************************************************************************)
EXTENDS Integers, Sequences, FiniteSets

CONSTANTS
    Requests,      \* slots for requests in progress
    Members,       \* member ids, each a fresh UUID
    NoMember,      \* referred_by_member_id IS NULL
    Amounts,       \* what a sale may cost
    ChosenTiers,   \* the tiers that owners give to members by hand
    MaxBatch,      \* bound on the sales of one upload
    MaxSpending,   \* bound: a member that has spent so much buys no more
    MaxEarned      \* bound on the points a cashier awards a member, and on
                   \* those that one redemption asks for

Tiers == {"bronze", "silver", "gold", "platinum"}

ASSUME NoMemberAssumption == NoMember \notin Members
\* There are finitely many UUIDs.
ASSUME MembersAssumption == IsFiniteSet(Members)
ASSUME AmountsAssumption == Amounts \subseteq Nat \ {0}
ASSUME ChosenTiersAssumption == ChosenTiers \subseteq Tiers
ASSUME BoundsAssumption == {MaxBatch, MaxSpending, MaxEarned} \subseteq Nat

VARIABLES
    member,     \* member[m]: the committed row
    earned,     \* earned[m]: points that AwardPoints has given and committed
    redeemed,   \* redeemed[m]: sum of the committed point_redemptions
    edited,     \* the members whose row an owner's edit has written
    pc, job,    \* how far a request has come, and what it is about
    work        \* work[r][m]: the version of row m that r has written

tables == <<member, earned, redeemed, edited>>
vars == <<member, earned, redeemed, edited, pc, job, work>>

\* Mutant of calculateTier: the table forgets a tier, and its default is a word
\* that the table of members does not accept.
TierOrBasic(spending) ==
    IF spending >= 10 THEN "platinum" ELSE IF spending >= 4 THEN "gold" ELSE "basic"

calculateTier(spending) ==
    CASE spending >= 10 -> "platinum"
      [] spending >= 4 /\ spending < 10 -> "gold"
      [] spending >= 1 /\ spending < 4 -> "silver"
      [] OTHER -> "bronze"

Rows == [points: Int, spending: Nat, tier: Tiers, first: BOOLEAN,
         referrer: Members \cup {NoMember}]
Unborn == [tier |-> "unborn"]
Deleted == [tier |-> "deleted"]
Unwritten == [tier |-> "unwritten"]
Exists(m) == member[m] \notin {Unborn, Deleted}

Sales == [member: Members, amount: Amounts]
Batches == UNION {[1 .. n -> Sales] : n \in 1 .. MaxBatch}
Uploads == [sales: Seq(Sales)]
Redemptions == [member: Members, points: Nat \ {0}]
Edits == [member: Members, tier: Tiers]
NoJob == [none |-> TRUE]

TypeOK ==
    /\ member \in [Members -> Rows \cup {Unborn, Deleted}]
    /\ earned \in [Members -> Nat]
    /\ redeemed \in [Members -> Nat]
    /\ edited \subseteq Members
    /\ pc \in [Requests -> {"idle", "upload", "referral", "award", "read", "deducted",
                            "logged", "editing", "failed", "unlogged"}]
    /\ job \in [Requests -> Uploads \cup Redemptions \cup Edits \cup {NoJob}]
    /\ work \in [Requests -> [Members -> Rows \cup {Unwritten}]]

Clean == [m \in Members |-> Unwritten]

Init ==
    /\ member = [m \in Members |-> Unborn]
    /\ earned = [m \in Members |-> 0]
    /\ redeemed = [m \in Members |-> 0]
    /\ edited = {}
    /\ pc = [r \in Requests |-> "idle"]
    /\ job = [r \in Requests |-> NoJob]
    /\ work = [r \in Requests |-> Clean]

-----------------------------------------------------------------------------
Locks(r, m) == work[r][m] # Unwritten
LockedByOther(r, m) == \E q \in Requests \ {r} : Locks(q, m)
Locked(m) == \E r \in Requests : Locks(r, m)

\* Row m as a statement of request r sees it.
Seen(r, m) == IF Locks(r, m) THEN work[r][m] ELSE member[m]

\* An upload inserts its sales first, and with them takes a lock on the key of
\* each of their members, with which only a DELETE of the member conflicts.
SellsTo(r, m) ==
    /\ pc[r] \in {"upload", "referral", "award"}
    /\ \E n \in 1 .. Len(job[r].sales) : job[r].sales[n].member = m

End(r) ==
    /\ pc' = [pc EXCEPT ![r] = "idle"]
    /\ job' = [job EXCEPT ![r] = NoJob]
    /\ work' = [work EXCEPT ![r] = Clean]

\* A statement fails, or loses a deadlock: the transaction is aborted and its
\* locks are gone, while the handler goes on to its answer.
Break(r, outcome) ==
    /\ pc' = [pc EXCEPT ![r] = outcome]
    /\ work' = [work EXCEPT ![r] = Clean]
    /\ UNCHANGED <<tables, job>>

CommitRows(r) ==
    member' = [m \in Members |-> IF Locks(r, m) THEN work[r][m] ELSE member[m]]

-----------------------------------------------------------------------------
(***************************************************************************)
(* Requests of one statement.                                              *)
(***************************************************************************)
\* MemberService.Create, with a tier of the owner's choice.
Create(m, tier, referrer) ==
    /\ member[m] = Unborn
    /\ referrer # NoMember => Exists(referrer)
    /\ member' = [member EXCEPT ![m] = [points |-> 0, spending |-> 0, tier |-> tier,
                                        first |-> FALSE, referrer |-> referrer]]
    /\ UNCHANGED <<earned, redeemed, edited, pc, job, work>>

\* Mutant of Delete: sales are counted before those in progress are waited for.
DeleteWithoutWaiting(m) ==
    /\ Exists(m)
    /\ member[m].spending = 0
    /\ redeemed[m] = 0
    /\ member' = [x \in Members |->
                     IF x = m THEN Deleted
                     ELSE IF Exists(x) /\ member[x].referrer = m
                          THEN [member[x] EXCEPT !.referrer = NoMember]
                          ELSE member[x]]
    /\ UNCHANGED <<earned, redeemed, edited, pc, job, work>>

\* MemberService.Delete: the foreign keys of sales and redemptions refuse it,
\* that of referred_by_member_id is ON DELETE SET NULL.
Delete(m) ==
    /\ Exists(m)
    /\ ~Locked(m)
    /\ member[m].spending = 0
    /\ redeemed[m] = 0
    /\ \A r \in Requests : ~SellsTo(r, m)
    /\ \A x \in Members : Exists(x) /\ member[x].referrer = m => ~Locked(x)
    /\ member' = [x \in Members |->
                     IF x = m THEN Deleted
                     ELSE IF Exists(x) /\ member[x].referrer = m
                          THEN [member[x] EXCEPT !.referrer = NoMember]
                          ELSE member[x]]
    /\ UNCHANGED <<earned, redeemed, edited, pc, job, work>>

AwardPoints(m) ==
    /\ Exists(m)
    /\ ~Locked(m)
    /\ earned[m] < MaxEarned
    /\ member' = [member EXCEPT ![m].points = @ + 1]
    /\ earned' = [earned EXCEPT ![m] = @ + 1]
    /\ UNCHANGED <<redeemed, edited, pc, job, work>>

-----------------------------------------------------------------------------
(***************************************************************************)
(* SyncService.Upload, as far as members go: UpdateSpending and then       *)
(* AwardReferralPoints for each sale of the batch.                         *)
(***************************************************************************)
BeginUpload(r, batch) ==
    /\ pc[r] = "idle"
    /\ \A n \in 1 .. Len(batch) :
          /\ Exists(batch[n].member)
          /\ member[batch[n].member].spending < MaxSpending
    /\ pc' = [pc EXCEPT ![r] = "upload"]
    /\ job' = [job EXCEPT ![r] = [sales |-> batch]]
    /\ UNCHANGED <<tables, work>>

Sale(r) == Head(job[r].sales)

\* Mutant of Spent: the tier is that of the spending before the sale.
SpentLate(row, amount) ==
    [row EXCEPT !.spending = @ + amount, !.tier = calculateTier(row.spending)]

Spent(row, amount) ==
    [row EXCEPT !.spending = @ + amount, !.tier = calculateTier(row.spending + amount)]

UpdateSpending(r) ==
    LET m == Sale(r).member
    IN  /\ pc[r] = "upload"
        /\ job[r].sales # <<>>
        /\ ~LockedByOther(r, m)
        /\ work' = [work EXCEPT ![r][m] = Spent(Seen(r, m), Sale(r).amount)]
        /\ pc' = [pc EXCEPT ![r] = "referral"]
        /\ UNCHANGED <<tables, job>>

\* Mutant of ReferralDue: has_first_transaction is not looked at.
ReferralDueAlways(row) == row.referrer # NoMember

ReferralDue(row) == row.referrer # NoMember /\ ~row.first

NextSale(r) ==
    /\ pc' = [pc EXCEPT ![r] = "upload"]
    /\ job' = [job EXCEPT ![r].sales = Tail(@)]

\* AwardReferralPoints reads the row that UpdateSpending has just locked.
MarkFirst(r) ==
    LET m == Sale(r).member
    IN  /\ pc[r] = "referral"
        /\ IF ReferralDue(Seen(r, m))
           THEN /\ work' = [work EXCEPT ![r][m] = [Seen(r, m) EXCEPT !.first = TRUE]]
                /\ pc' = [pc EXCEPT ![r] = "award"]
                /\ UNCHANGED job
           ELSE NextSale(r) /\ UNCHANGED work
        /\ UNCHANGED tables

AwardReferrer(r) ==
    LET m == Seen(r, Sale(r).member).referrer
    IN  /\ pc[r] = "award"
        /\ ~LockedByOther(r, m)
        /\ work' = [work EXCEPT ![r][m] = [Seen(r, m) EXCEPT !.points = @ + 1]]
        /\ NextSale(r)
        /\ UNCHANGED tables

\* An error in UpdateSpending or AwardReferralPoints is logged, no more.
UploadBreaks(r) ==
    /\ pc[r] \in {"upload", "referral", "award"}
    /\ job[r].sales # <<>>
    /\ Break(r, "failed")

CommitUpload(r) ==
    /\ pc[r] = "upload"
    /\ job[r].sales = <<>>
    /\ CommitRows(r)
    /\ End(r)
    /\ UNCHANGED <<earned, redeemed, edited>>

-----------------------------------------------------------------------------
(***************************************************************************)
(* RedeemPoints: the balance is read without a lock, the deduction is      *)
(* relative to what the UPDATE finds.                                      *)
(***************************************************************************)
ReadPoints(r, m, p) ==
    /\ pc[r] = "idle"
    /\ Exists(m)
    /\ p <= member[m].points
    /\ pc' = [pc EXCEPT ![r] = "read"]
    /\ job' = [job EXCEPT ![r] = [member |-> m, points |-> p]]
    /\ UNCHANGED <<tables, work>>

\* The UPDATE of a member that is gone touches no row and is no error.
DeductPoints(r) ==
    LET m == job[r].member
    IN  /\ pc[r] = "read"
        /\ ~LockedByOther(r, m)
        /\ work' = IF Exists(m)
                   THEN [work EXCEPT ![r][m] =
                            [member[m] EXCEPT !.points = @ - job[r].points]]
                   ELSE work
        /\ pc' = [pc EXCEPT ![r] = "deducted"]
        /\ UNCHANGED <<tables, job>>

LogRedemption(r) ==
    /\ pc[r] = "deducted"
    /\ Exists(job[r].member)
    /\ pc' = [pc EXCEPT ![r] = "logged"]
    /\ UNCHANGED <<tables, job, work>>

\* The INSERT fails, always so if the member is gone.  The discount is granted
\* all the same: the handler answers 200.
LogFails(r) ==
    /\ pc[r] = "deducted"
    /\ Break(r, "unlogged")

CommitRedemption(r) ==
    /\ pc[r] = "logged"
    /\ CommitRows(r)
    /\ redeemed' = [redeemed EXCEPT ![job[r].member] = @ + job[r].points]
    /\ End(r)
    /\ UNCHANGED <<earned, edited>>

-----------------------------------------------------------------------------
(***************************************************************************)
(* MemberService.Update: a read, and an UPDATE that writes back name,      *)
(* phone, email, tier and discount as they were read or asked for.         *)
(***************************************************************************)
ReadMember(r, m, tier) ==
    /\ pc[r] = "idle"
    /\ Exists(m)
    /\ pc' = [pc EXCEPT ![r] = "editing"]
    /\ job' = [job EXCEPT ![r] = [member |-> m, tier |-> tier]]
    /\ UNCHANGED <<tables, work>>

KeepTier(r, m) == Exists(m) /\ ReadMember(r, m, member[m].tier)
SetTier(r, m, tier) == ReadMember(r, m, tier)

WriteMember(r) ==
    LET m == job[r].member
    IN  /\ pc[r] = "editing"
        /\ ~Locked(m)
        /\ IF Exists(m)
           THEN /\ member' = [member EXCEPT ![m].tier = job[r].tier]
                /\ edited' = edited \cup {m}
           ELSE UNCHANGED <<member, edited>>
        /\ End(r)
        /\ UNCHANGED <<earned, redeemed>>

-----------------------------------------------------------------------------
\* The commit of an aborted transaction rolls it back.
EndFailed(r) ==
    /\ pc[r] \in {"failed", "unlogged"}
    /\ End(r)
    /\ UNCHANGED tables

\* The client goes away, the server dies, or the commit fails.
Abort(r) ==
    /\ pc[r] \notin {"idle", "failed", "unlogged"}
    /\ End(r)
    /\ UNCHANGED tables

Upload(r) == UpdateSpending(r) \/ MarkFirst(r) \/ AwardReferrer(r) \/ CommitUpload(r)
RedeemPoints(r) == DeductPoints(r) \/ LogRedemption(r) \/ LogFails(r) \/ CommitRedemption(r)

Next ==
    \/ \E m \in Members :
          \/ \E t \in ChosenTiers, x \in Members \cup {NoMember} : Create(m, t, x)
          \/ Delete(m)
          \/ AwardPoints(m)
    \/ \E r \in Requests :
          \/ \E b \in Batches : BeginUpload(r, b)
          \/ Upload(r)
          \/ UploadBreaks(r)
          \/ \E m \in Members, p \in 1 .. MaxEarned : ReadPoints(r, m, p)
          \/ RedeemPoints(r)
          \/ \E m \in Members : KeepTier(r, m) \/ \E t \in ChosenTiers : SetTier(r, m, t)
          \/ WriteMember(r)
          \/ EndFailed(r)
          \/ Abort(r)

Spec == Init /\ [][Next]_vars

-----------------------------------------------------------------------------
(***************************************************************************)
(* Properties                                                              *)
(***************************************************************************)
Referred(m) == {x \in Members : Exists(x) /\ member[x].referrer = m /\ member[x].first}

\* The balance of a member is what its referrals and awards have brought, each
\* referred member once, less the redemptions on record: no interleaving of
\* uploads, repeated sales, failed statements or redemptions awards a referral
\* twice, loses points, or keeps a deduction apart from its record
\* (AwardReferralPoints, RedeemPoints, AwardPoints).
PointsBalance ==
    \A m \in Members :
        Exists(m) =>
            member[m].points = Cardinality(Referred(m)) + earned[m] - redeemed[m]

\* A member that has bought and that no owner has edited is in the tier of its
\* total spending, although several uploads may add to it at once
\* (UpdateSpending).
TierFollowsSpending ==
    \A m \in Members \ edited :
        Exists(m) /\ member[m].spending > 0
            => member[m].tier = calculateTier(member[m].spending)

\* A member that has bought, or that has redeemed points, is never deleted, and
\* no member refers to a deleted one (Delete against uploads in progress).
NothingOrphaned ==
    /\ \A m \in Members : redeemed[m] > 0 => Exists(m)
    /\ \A r \in Requests, m \in Members : SellsTo(r, m) \/ Locks(r, m) => Exists(m)
    /\ \A x \in Members :
          Exists(x) /\ member[x].referrer # NoMember => Exists(member[x].referrer)

-----------------------------------------------------------------------------
(***************************************************************************)
(* What member_service.go says and does not do.                            *)
(***************************************************************************)
\* Line 341 answers "insufficient points" to a redemption beyond the balance.
\* So no balance becomes negative.
NoOverdraft == \A m \in Members : Exists(m) => member[m].points >= 0
=============================================================================
