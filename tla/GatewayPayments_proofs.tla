----------------------- MODULE GatewayPayments_proofs -----------------------
(***************************************************************************)
(* What holds of GatewayPayments for any number of requests, items, terms  *)
(* and charges and any set of status words.                                *)
(***************************************************************************)
EXTENDS GatewayPayments, TLAPS

\* A request that has begun knows what it asks for; one that holds a row lock
\* has written a row, which is PENDING as long as Xendit has not answered.
RequestsWellFormed ==
    \A r \in Requests :
        /\ pc[r] # "idle" => req[r] \in RequestData
        /\ pc[r] \in Locking => work[r] \in Rows
        /\ pc[r] = "calling" => work[r].status = "PENDING"
        /\ pc[r] = "called" => req[r].ref \in Charges

\* Xendit sends webhooks of charges it created, and reports as paid only those
\* that were paid.
HooksHonest ==
    \A h \in hooks :
        /\ charge[h.charge] # NotCreated
        /\ h.notice \in PaidNotices => charge[h.charge].state = "paid"

TypeInv == TypeOK /\ RequestsWellFormed /\ HooksHonest

-----------------------------------------------------------------------------
LEMMA MapInStatuses ==
    ASSUME NEW n
    PROVE  /\ mapXenditStatus(n) \in Statuses
           /\ mapXenditStatus(n) = "PAID" => n \in PaidNotices
  BY DEF mapXenditStatus, Statuses, PaidNotices, ClosingNotices

LEMMA UpsertedRowInRows ==
    ASSUME NEW old \in Rows \cup {NoRow}, NEW t \in Terms
    PROVE  UpsertedRow(old, t) \in Rows
  <1>1. CASE old = NoRow
    BY <1>1 DEF UpsertedRow, NewRow, Rows, Statuses
  <1>2. CASE old \in Rows /\ old # NoRow
    BY <1>2 DEF UpsertedRow, Rows, Statuses
  <1>3. QED
    BY <1>1, <1>2

\* The one row a webhook writes, and what it writes there.
LEMMA AppliedRow ==
    ASSUME TypeInv, NEW h \in hooks, WebhookApplied(h)
    PROVE  /\ ItemOf(h) \in Items
           /\ row[ItemOf(h)] \in Rows
           /\ \E new \in Rows :
                 /\ row' = [row EXCEPT ![ItemOf(h)] = new]
                 /\ new.status = mapXenditStatus(h.notice)
                 /\ new.paidAt <=> row[ItemOf(h)].paidAt \/ new.status = "PAID"
  <1> DEFINE i == ItemOf(h)
             s == mapXenditStatus(h.notice)
             paid == row[i].paidAt \/ s = "PAID"
             new == [row[i] EXCEPT !.status = s, !.paidAt = paid]
  <1>1. i \in Items
    BY DEF ItemOf, TypeInv, TypeOK, HooksHonest, Hooks, ChargeData
  <1>2. row[i] \in Rows
    BY <1>1 DEF WebhookApplied, TypeInv, TypeOK
  <1>3. s \in Statuses
    BY MapInStatuses
  <1>4. paid \in BOOLEAN
    OBVIOUS
  <1>5. row' = [row EXCEPT ![i] = new]
    BY <1>1, <1>2 DEF WebhookApplied, TypeInv, TypeOK, Rows
  <1> HIDE DEF s, paid, i
  <1>6. new \in Rows /\ new.status = s /\ new.paidAt = paid
    BY <1>2, <1>3, <1>4 DEF Rows
  <1>7. QED
    BY <1>1, <1>2, <1>5, <1>6 DEF i, s, paid

LEMMA InitTypeInv == Init => TypeInv
  BY DEF Init, TypeInv, TypeOK, RequestsWellFormed, HooksHonest, Locking

LEMMA StepTypeInv == TypeInv /\ [Next]_vars => TypeInv'
  <1> SUFFICES ASSUME TypeInv, [Next]_vars
               PROVE  TypeInv'
    OBVIOUS
  <1> USE DEF TypeInv
  <1> USE DEF configVars, requestVars, xenditVars
  <1>1. ASSUME NEW b \in BOOLEAN, UpsertConfig(b) \/ SetEnabled(b)
        PROVE  TypeInv'
    BY <1>1 DEF UpsertConfig, SetEnabled, TypeOK, RequestsWellFormed, HooksHonest
  <1>2. ASSUME NEW i \in Items, UploadTransaction(i)
        PROVE  TypeInv'
    BY <1>2 DEF UploadTransaction, TypeOK, RequestsWellFormed, HooksHonest
  <1>3. ASSUME NEW r \in Requests, NEW i \in Items, NEW t \in Terms, BeginCreate(r, i, t)
        PROVE  TypeInv'
    BY <1>3 DEF BeginCreate, TypeOK, RequestsWellFormed, HooksHonest, RequestData, Locking
  <1>4. ASSUME NEW r \in Requests, Upsert(r)
        PROVE  TypeInv'
    BY <1>4, UpsertedRowInRows
    DEF Upsert, TypeOK, RequestsWellFormed, HooksHonest, RequestData, Locking
  <1>5. ASSUME NEW r \in Requests, NEW c \in Charges, CallSucceeds(r, c)
        PROVE  TypeInv'
    BY <1>5 DEF CallSucceeds, Create, ReceiveCharge, TypeOK, RequestsWellFormed,
                HooksHonest, RequestData, ChargeData, NotCreated, Locking, Hooks
  <1>6. ASSUME NEW r \in Requests, NEW c \in Charges, CallReplayed(r, c)
        PROVE  TypeInv'
    BY <1>6 DEF CallReplayed, ReceiveCharge, TypeOK, RequestsWellFormed,
                HooksHonest, RequestData, Locking
  <1>7. ASSUME NEW r \in Requests, NEW c \in Charges, CallTimesOut(r, c)
        PROVE  TypeInv'
    BY <1>7 DEF CallTimesOut, Create, TypeOK, RequestsWellFormed,
                HooksHonest, RequestData, ChargeData, NotCreated, Locking, Hooks
  <1>8. ASSUME NEW r \in Requests, CallFails(r)
        PROVE  TypeInv'
    BY <1>8 DEF CallFails, TypeOK, RequestsWellFormed, HooksHonest, Locking
  <1>9. ASSUME NEW r \in Requests, MarkActive(r)
        PROVE  TypeInv'
    <2>1. work[r] \in Rows /\ req[r].ref \in Charges
      BY <1>9 DEF MarkActive, RequestsWellFormed, Locking
    <2>2. work' = [work EXCEPT ![r] = [work[r] EXCEPT !.status = "ACTIVE", !.ref = req[r].ref]]
      BY <1>9, <2>1 DEF MarkActive, TypeOK, Rows
    <2>3. [work[r] EXCEPT !.status = "ACTIVE", !.ref = req[r].ref] \in Rows
      BY <2>1 DEF Rows, Statuses
    <2>4. QED
      BY <1>9, <2>2, <2>3
      DEF MarkActive, TypeOK, RequestsWellFormed, HooksHonest, Locking
  <1>10. ASSUME NEW r \in Requests, Respond(r)
         PROVE  TypeInv'
    BY <1>10 DEF Respond, TypeOK, RequestsWellFormed, HooksHonest, Locking, Rows
  <1>11. ASSUME NEW r \in Requests, Commit(r)
         PROVE  TypeInv'
    BY <1>11 DEF Commit, EndRequest, TypeOK, RequestsWellFormed, HooksHonest, Locking, RequestData
  <1>12. ASSUME NEW r \in Requests, Abort(r)
         PROVE  TypeInv'
    BY <1>12 DEF Abort, EndRequest, TypeOK, RequestsWellFormed, HooksHonest, Locking
  <1>13. ASSUME NEW c \in Charges, NEW n \in Notices, Pay(c, n)
         PROVE  TypeInv'
    BY <1>13 DEF Pay, Notify, TypeOK, RequestsWellFormed, HooksHonest, Hooks, ChargeData, NotCreated
  <1>14. ASSUME NEW c \in Charges, NEW n \in Notices, Close(c, n)
         PROVE  TypeInv'
    BY <1>14 DEF Close, Notify, TypeOK, RequestsWellFormed, HooksHonest, Hooks, ChargeData,
                 NotCreated, PaidNotices, ClosingNotices
  <1>15. ASSUME NEW c \in Charges, NEW n \in Notices, Report(c, n)
         PROVE  TypeInv'
    BY <1>15 DEF Report, Notify, TypeOK, RequestsWellFormed, HooksHonest, Hooks, ChargeData,
                 NotCreated
  <1>16. ASSUME NEW h \in hooks, Deliver(h)
         PROVE  TypeInv'
    <2>1. CASE WebhookApplied(h)
      <3>1. PICK new \in Rows : row' = [row EXCEPT ![ItemOf(h)] = new]
        BY <2>1, <1>16, AppliedRow
      <3>2. TypeOK'
        BY <2>1, <3>1 DEF WebhookApplied, Acknowledged, AnswerLost, TypeOK
      <3>3. QED
        BY <2>1, <3>2
        DEF WebhookApplied, Acknowledged, AnswerLost, RequestsWellFormed, HooksHonest
    <2>2. CASE WebhookIgnored(h)
      BY <2>2, <1>16 DEF WebhookIgnored, NoteLoss, Acknowledged, AnswerLost, TypeOK,
                         RequestsWellFormed, HooksHonest, Hooks
    <2>3. CASE WebhookFails(h)
      BY <2>3, <1>16 DEF WebhookFails, NoteLoss, Acknowledged, TypeOK,
                         RequestsWellFormed, HooksHonest, Hooks
    <2>4. QED
      BY <1>16, <2>1, <2>2, <2>3 DEF Deliver
  <1>17. CASE UNCHANGED vars
    BY <1>17 DEF vars, TypeOK, RequestsWellFormed, HooksHonest
  <1>18. QED
    BY <1>1, <1>2, <1>3, <1>4, <1>5, <1>6, <1>7, <1>8, <1>9, <1>10, <1>11, <1>12, <1>13,
       <1>14, <1>15, <1>16, <1>17
    DEF Next, CallReturns

\* Type correctness: whatever webhooks arrive and whichever requests abort, the
\* rows keep the shape that the CHECK constraints of the table demand.
THEOREM TypeCorrect == Spec => []TypeOK
  <1>1. Spec => []TypeInv
    BY InitTypeInv, StepTypeInv, PTL DEF Spec
  <1>2. QED
    BY <1>1, PTL DEF TypeInv

LEMMA TypeInvInvariant == Spec => []TypeInv
  BY InitTypeInv, StepTypeInv, PTL DEF Spec

-----------------------------------------------------------------------------
LEMMA InitSingleFlight == Init => SingleFlight
  BY DEF Init, SingleFlight, Holds, Locking

\* Only the upsert lets a request in, and it waits until no other is inside.
LEMMA StepSingleFlight == TypeInv /\ SingleFlight /\ [Next]_vars => SingleFlight'
  <1> SUFFICES ASSUME TypeInv, SingleFlight, [Next]_vars
               PROVE  SingleFlight'
    OBVIOUS
  <1> USE DEF SingleFlight, Holds, Locking, configVars, requestVars, xenditVars, TypeInv, TypeOK
  <1>1. ASSUME NEW r \in Requests, Upsert(r)
        PROVE  SingleFlight'
    BY <1>1 DEF Upsert, Locked
  <1>2. ASSUME NEW r \in Requests, NEW i \in Items, NEW t \in Terms, BeginCreate(r, i, t)
        PROVE  SingleFlight'
    BY <1>2 DEF BeginCreate
  <1>3. ASSUME NEW r \in Requests, CallReturns(r) \/ MarkActive(r) \/ Respond(r)
        PROVE  SingleFlight'
    <2>1. \A q \in Requests : pc'[q] \in Locking => pc[q] \in Locking
      BY <1>3 DEF CallReturns, CallSucceeds, CallReplayed, CallTimesOut, CallFails,
                  ReceiveCharge, MarkActive, Respond
    <2>2. \A q \in Requests : pc[q] \in Locking => req'[q].item = req[q].item
      BY <1>3 DEF CallReturns, CallSucceeds, CallReplayed, CallTimesOut, CallFails,
                  ReceiveCharge, MarkActive, Respond, RequestsWellFormed, RequestData
    <2>3. QED
      BY <2>1, <2>2
  <1>4. ASSUME NEW r \in Requests, Commit(r) \/ Abort(r)
        PROVE  SingleFlight'
    BY <1>4 DEF Commit, Abort, EndRequest
  <1>5. CASE UNCHANGED <<pc, req>>
    BY <1>5
  <1>6. QED
    BY <1>1, <1>2, <1>3, <1>4, <1>5
    DEF Next, vars, UpsertConfig, SetEnabled, UploadTransaction, Pay, Close, Report,
        Deliver, WebhookApplied, WebhookIgnored, WebhookFails

\* At most one request per item is between its upsert and its commit, so Xendit
\* is never called twice at a time for one external_id.
THEOREM SingleFlightHolds == Spec => []SingleFlight
  BY TypeInvInvariant, InitSingleFlight, StepSingleFlight, PTL DEF Spec

-----------------------------------------------------------------------------
\* What a request will commit is the PAID or CANCELLED row as it is, or an
\* open row in place of no row, an open one, or one that may be retried.
WorkFollowsRow ==
    \A r \in Requests :
        pc[r] \in Locking =>
            IF row[req[r].item].status \in {"PAID", "CANCELLED"}
            THEN work[r] = row[req[r].item]
            ELSE work[r].status \in {"PENDING", "ACTIVE"}

LEMMA InitWorkFollowsRow == Init => WorkFollowsRow
  BY DEF Init, WorkFollowsRow, Locking

\* A committed row changes only by the commit of the one request that holds it
\* or, when nobody holds it, by a webhook.
LEMMA StepWorkFollowsRow ==
    TypeInv /\ SingleFlight /\ WorkFollowsRow /\ [Next]_vars => WorkFollowsRow'
  <1> SUFFICES ASSUME TypeInv, SingleFlight, WorkFollowsRow, [Next]_vars
               PROVE  WorkFollowsRow'
    OBVIOUS
  <1> USE DEF WorkFollowsRow, Locking, configVars, requestVars, xenditVars, TypeInv, TypeOK
  <1>1. ASSUME NEW r \in Requests, Upsert(r)
        PROVE  WorkFollowsRow'
    <2> DEFINE old == row[req[r].item]
    <2>1. old \in Rows \cup {NoRow} /\ req[r] \in RequestData
      BY <1>1 DEF Upsert, RequestsWellFormed, RequestData
    <2>2. IF old.status \in {"PAID", "CANCELLED"}
          THEN UpsertedRow(old, req[r].terms) = old
          ELSE UpsertedRow(old, req[r].terms).status \in {"PENDING", "ACTIVE"}
      <3>1. CASE old = NoRow
        BY <3>1 DEF UpsertedRow, NewRow, NoRow
      <3>2. CASE old # NoRow
        <4>1. old \in Rows /\ old.status \in Statuses
          BY <3>2, <2>1 DEF Rows
        <4>2. CASE old.status \in {"EXPIRED", "FAILED"}
          BY <4>1, <4>2, <3>2 DEF UpsertedRow, Rows
        <4>3. CASE old.status \notin {"EXPIRED", "FAILED"}
          BY <4>1, <4>3, <3>2 DEF UpsertedRow, Statuses
        <4>4. QED
          BY <4>2, <4>3
      <3>3. QED
        BY <3>1, <3>2
    <2> HIDE DEF old
    <2>3. QED
      BY <1>1, <2>1, <2>2 DEF Upsert, old
  <1>2. ASSUME NEW r \in Requests, NEW i \in Items, NEW t \in Terms, BeginCreate(r, i, t)
        PROVE  WorkFollowsRow'
    BY <1>2 DEF BeginCreate
  <1>3. ASSUME NEW r \in Requests, CallReturns(r) \/ Respond(r)
        PROVE  WorkFollowsRow'
    <2>1. \A q \in Requests : pc'[q] \in Locking => pc[q] \in Locking
      BY <1>3 DEF CallReturns, CallSucceeds, CallReplayed, CallTimesOut, CallFails,
                  ReceiveCharge, Respond
    <2>2. \A q \in Requests : pc[q] \in Locking => req'[q].item = req[q].item
      BY <1>3 DEF CallReturns, CallSucceeds, CallReplayed, CallTimesOut, CallFails,
                  ReceiveCharge, Respond, RequestsWellFormed, RequestData
    <2>3. UNCHANGED <<row, work>>
      BY <1>3 DEF CallReturns, CallSucceeds, CallReplayed, CallTimesOut, CallFails, Respond
    <2>4. QED
      BY <2>1, <2>2, <2>3
  <1>4. ASSUME NEW r \in Requests, MarkActive(r)
        PROVE  WorkFollowsRow'
    <2>1. work[r] \in Rows /\ work[r].status = "PENDING" /\ work'[r].status = "ACTIVE"
      BY <1>4 DEF MarkActive, RequestsWellFormed, Rows
    <2>2. row[req[r].item].status \notin {"PAID", "CANCELLED"}
      BY <1>4, <2>1 DEF MarkActive
    <2>3. QED
      BY <1>4, <2>1, <2>2 DEF MarkActive
  <1>5. ASSUME NEW r \in Requests, Commit(r)
        PROVE  WorkFollowsRow'
    <2>1. \A q \in Requests \ {r} : pc[q] \in Locking => req[q].item # req[r].item
      BY <1>5 DEF Commit, SingleFlight, Holds, RequestsWellFormed, RequestData
    <2>2. \A q \in Requests \ {r} : pc[q] \in Locking => row'[req[q].item] = row[req[q].item]
      BY <1>5, <2>1 DEF Commit, RequestsWellFormed, RequestData
    <2>3. QED
      BY <1>5, <2>2 DEF Commit, EndRequest
  <1>6. ASSUME NEW r \in Requests, Abort(r)
        PROVE  WorkFollowsRow'
    BY <1>6 DEF Abort, EndRequest
  <1>7. ASSUME NEW h \in hooks, WebhookApplied(h)
        PROVE  WorkFollowsRow'
    <2>1. \A q \in Requests : pc[q] \in Locking => req[q].item # ItemOf(h)
      BY <1>7 DEF WebhookApplied, Locked, Holds
    <2>2. \A q \in Requests : pc[q] \in Locking => row'[req[q].item] = row[req[q].item]
      BY <1>7, <2>1, AppliedRow DEF RequestsWellFormed, RequestData
    <2>3. QED
      BY <1>7, <2>2 DEF WebhookApplied
  <1>8. CASE UNCHANGED <<row, work, pc, req>>
    BY <1>8
  <1>9. QED
    BY <1>1, <1>2, <1>3, <1>4, <1>5, <1>6, <1>7, <1>8
    DEF Next, vars, UpsertConfig, SetEnabled, UploadTransaction, Pay, Close, Report,
        Deliver, WebhookIgnored, WebhookFails

SafetyInv == TypeInv /\ SingleFlight /\ WorkFollowsRow

LEMMA SafetyInvInvariant == Spec => []SafetyInv
  BY InitTypeInv, StepTypeInv, InitSingleFlight, StepSingleFlight,
     InitWorkFollowsRow, StepWorkFollowsRow, PTL DEF Spec, SafetyInv

-----------------------------------------------------------------------------
\* Xendit never forgets a charge nor takes a payment back.
LEMMA ChargesLast ==
    ASSUME TypeInv, [Next]_vars, NEW c \in Charges, charge[c] # NotCreated
    PROVE  /\ charge'[c] # NotCreated
           /\ charge'[c].item = charge[c].item
           /\ charge[c].state = "paid" => charge'[c].state = "paid"
  <1> USE DEF configVars, requestVars, xenditVars, TypeInv, TypeOK
  <1>1. ASSUME NEW d \in Charges, NEW i, NEW t, Create(d, i, t)
        PROVE  charge'[c] = charge[c]
    BY <1>1 DEF Create
  <1>2. ASSUME NEW d \in Charges, NEW n \in Notices, Pay(d, n) \/ Close(d, n)
        PROVE  /\ charge'[c] # NotCreated
               /\ charge'[c].item = charge[c].item
               /\ charge[c].state = "paid" => charge'[c].state = "paid"
    BY <1>2 DEF Pay, Close, ChargeData, NotCreated
  <1>3. CASE UNCHANGED charge
    BY <1>3
  <1>4. QED
    BY <1>1, <1>2, <1>3
    DEF Next, vars, UpsertConfig, SetEnabled, UploadTransaction, BeginCreate, Upsert,
        CallReturns, CallSucceeds, CallReplayed, CallTimesOut, CallFails, MarkActive,
        Respond, Commit, Abort, Report, Deliver, WebhookApplied, WebhookIgnored,
        WebhookFails

LEMMA MoneyLasts ==
    ASSUME TypeInv, [Next]_vars, NEW i \in Items, PaidAtXendit(i)
    PROVE  PaidAtXendit(i)'
  <1>1. PICK c \in Charges : charge[c].state = "paid" /\ charge[c].item = i
    BY DEF PaidAtXendit
  <1>2. charge[c] # NotCreated
    BY <1>1 DEF NotCreated
  <1>3. QED
    BY <1>1, <1>2, ChargesLast DEF PaidAtXendit

\* How one committed row may change.
OpenRow(x) == x \in Rows /\ x.status \in {"PENDING", "ACTIVE"}
LegalChange(i, old, new) ==
    \/ new = old
    \/ OpenRow(new) /\ (old = NoRow \/ old.status \in {"PENDING", "ACTIVE", "EXPIRED", "FAILED"})
    \/ OpenRow(old) /\ new \in Rows /\ (new.status = "PAID" => PaidAtXendit(i))

\* Rows are written one at a time, by a commit or by a webhook, and never in
\* the step in which Xendit creates or settles a charge.
LEMMA RowStep ==
    ASSUME SafetyInv, [Next]_vars
    PROVE  \/ UNCHANGED row
           \/ /\ UNCHANGED charge
              /\ \E i \in Items, new \in Rows :
                    /\ row' = [row EXCEPT ![i] = new]
                    /\ LegalChange(i, row[i], new)
  <1> USE DEF SafetyInv, configVars, requestVars, xenditVars
  <1>1. ASSUME NEW r \in Requests, Commit(r)
        PROVE  /\ UNCHANGED charge
               /\ \E i \in Items, new \in Rows :
                     /\ row' = [row EXCEPT ![i] = new]
                     /\ LegalChange(i, row[i], new)
    <2> DEFINE i == req[r].item
    <2>1. i \in Items /\ work[r] \in Rows
      BY <1>1 DEF Commit, TypeInv, RequestsWellFormed, Locking, RequestData
    <2>2. row[i] \in Rows \cup {NoRow}
      BY <2>1 DEF TypeInv, TypeOK
    <2>3. IF row[i].status \in {"PAID", "CANCELLED"}
          THEN work[r] = row[i]
          ELSE work[r].status \in {"PENDING", "ACTIVE"}
      BY <1>1 DEF Commit, WorkFollowsRow, Locking
    <2>4. row[i] \in Rows => row[i].status \in Statuses
      BY DEF Rows
    <2>5. LegalChange(i, row[i], work[r])
      BY <2>1, <2>2, <2>3, <2>4 DEF LegalChange, OpenRow, Statuses
    <2>6. row' = [row EXCEPT ![i] = work[r]] /\ UNCHANGED charge
      BY <1>1 DEF Commit
    <2>7. QED
      BY <2>1, <2>5, <2>6
  <1>2. ASSUME NEW h \in hooks, WebhookApplied(h)
        PROVE  /\ UNCHANGED charge
               /\ \E i \in Items, new \in Rows :
                     /\ row' = [row EXCEPT ![i] = new]
                     /\ LegalChange(i, row[i], new)
    <2> DEFINE i == ItemOf(h)
    <2>1. i \in Items /\ row[i] \in Rows
      BY <1>2, AppliedRow
    <2>2. PICK new \in Rows :
             /\ row' = [row EXCEPT ![i] = new]
             /\ new.status = mapXenditStatus(h.notice)
      BY <1>2, AppliedRow
    <2>3. new.status = "PAID" => PaidAtXendit(i)
      BY <2>2, MapInStatuses DEF PaidAtXendit, ItemOf, TypeInv, TypeOK, HooksHonest, Hooks
    <2>4. OpenRow(row[i])
      BY <1>2, <2>1 DEF WebhookApplied, Updatable, OpenRow, Rows, Statuses
    <2>5. LegalChange(i, row[i], new)
      BY <2>2, <2>3, <2>4 DEF LegalChange
    <2>6. QED
      BY <1>2, <2>1, <2>2, <2>5 DEF WebhookApplied
  <1>3. CASE UNCHANGED row
    BY <1>3
  <1>4. QED
    BY <1>1, <1>2, <1>3
    DEF Next, vars, UpsertConfig, SetEnabled, UploadTransaction, BeginCreate, Upsert,
        CallReturns, CallSucceeds, CallReplayed, CallTimesOut, CallFails, MarkActive,
        Respond, Abort, Pay, Close, Report, Deliver, WebhookIgnored, WebhookFails

LEMMA InitPaidIsBacked == Init => PaidIsBacked
  BY DEF Init, PaidIsBacked, Paid

LEMMA StepPaidIsBacked == SafetyInv /\ PaidIsBacked /\ [Next]_vars => PaidIsBacked'
  <1> SUFFICES ASSUME SafetyInv, PaidIsBacked, [Next]_vars,
                      NEW j \in Items, Paid(j)'
               PROVE  PaidAtXendit(j)'
    BY DEF PaidIsBacked
  <1>1. PaidAtXendit(j)
    <2>1. CASE UNCHANGED row
      BY <2>1 DEF PaidIsBacked, Paid
    <2>2. CASE ~UNCHANGED row
      <3>1. PICK i \in Items, new \in Rows :
               /\ row' = [row EXCEPT ![i] = new]
               /\ LegalChange(i, row[i], new)
        BY <2>2, RowStep
      <3>2. CASE j = i
        <4>1. new.status = "PAID"
          BY <3>1, <3>2 DEF Paid, SafetyInv, TypeInv, TypeOK
        <4>2. CASE new = row[i]
          BY <4>1, <4>2, <3>2 DEF PaidIsBacked, Paid, NoRow
        <4>3. QED
          BY <3>1, <3>2, <4>1, <4>2 DEF LegalChange, OpenRow
      <3>3. CASE j # i
        BY <3>1, <3>3 DEF PaidIsBacked, Paid
      <3>4. QED
        BY <3>2, <3>3
    <2>3. QED
      BY <2>1, <2>2
  <1>2. QED
    BY <1>1, MoneyLasts DEF SafetyInv

\* An item is PAID only if a customer has paid a charge of it, whatever words
\* Xendit uses and however requests and webhooks interleave.
THEOREM PaidIsBackedHolds == Spec => []PaidIsBacked
  BY SafetyInvInvariant, InitPaidIsBacked, StepPaidIsBacked, PTL DEF Spec

-----------------------------------------------------------------------------
LEMMA InitLedger == Init => Ledger!Init
  BY DEF Init, Ledger!Init, ledgerBar, moneyBar, PaidAtXendit, NotCreated

\* A step that changes rows opens, reopens or settles one item in the ledger;
\* one that changes charges brings in money for one item, or for none.
LEMMA StepLedger ==
    SafetyInv /\ [Next]_vars => [Ledger!Next]_<<ledgerBar, moneyBar>>
  <1> SUFFICES ASSUME SafetyInv, [Next]_vars
               PROVE  [Ledger!Next]_<<ledgerBar, moneyBar>>
    OBVIOUS
  <1>1. CASE ~UNCHANGED row
    <2>1. PICK i \in Items, new \in Rows :
             /\ row' = [row EXCEPT ![i] = new]
             /\ LegalChange(i, row[i], new)
      BY <1>1, RowStep
    <2>2. moneyBar' = moneyBar
      BY <1>1, RowStep DEF moneyBar, PaidAtXendit
    <2>3. row'[i] = new /\ row[i] \in Rows \cup {NoRow}
      BY <2>1 DEF SafetyInv, TypeInv, TypeOK
    <2>4. new # NoRow
      BY DEF Rows, NoRow, Statuses
    <2> DEFINE b == IF new.status \in Final THEN new.status ELSE "open"
    <2>5. ledgerBar' = [ledgerBar EXCEPT ![i] = b]
      BY <2>1, <2>4 DEF ledgerBar, SafetyInv, TypeInv, TypeOK
    <2>6. CASE new = row[i]
      BY <1>1, <2>1, <2>6 DEF SafetyInv, TypeInv, TypeOK
    <2>7. CASE OpenRow(new) /\ (row[i] = NoRow \/ row[i].status \in {"EXPIRED", "FAILED"})
      <3>1. ledgerBar[i] \in {"none", "EXPIRED", "FAILED"}
        BY <2>7 DEF ledgerBar, Final
      <3>2. b = "open"
        BY <2>7 DEF OpenRow, Final
      <3>3. Ledger!Open(i)
        BY <2>2, <2>5, <3>1, <3>2 DEF Ledger!Open, Ledger!Reopenable
      <3>4. QED
        BY <3>3 DEF Ledger!Next
    <2>8. CASE OpenRow(row[i])
      <3>1. ledgerBar[i] = "open"
        BY <2>8 DEF ledgerBar, Final, OpenRow, NoRow, Rows
      <3>2. CASE new.status \in Final
        <4>1. new.status = "PAID" => i \in moneyBar
          BY <2>1, <2>8, <3>2 DEF LegalChange, OpenRow, moneyBar, Final
        <4>2. Ledger!Settle(i, b)
          BY <2>2, <2>5, <3>1, <3>2, <4>1 DEF Ledger!Settle
        <4>3. QED
          BY <3>2, <4>2 DEF Ledger!Next, Ledger!Settled, Final
      <3>3. CASE new.status \notin Final
        BY <2>2, <2>5, <3>1, <3>3 DEF ledgerBar
      <3>4. QED
        BY <3>2, <3>3
    <2>9. QED
      <3>1. row[i] \in Rows /\ row[i].status \in {"PENDING", "ACTIVE"} => OpenRow(row[i])
        BY DEF OpenRow
      <3>2. QED
        BY <2>1, <2>3, <2>6, <2>7, <2>8, <3>1 DEF LegalChange
  <1>2. CASE UNCHANGED row
    <2>1. UNCHANGED ledgerBar
      BY <1>2 DEF ledgerBar
    <2>2. ASSUME NEW c \in Charges, NEW n \in Notices, Pay(c, n)
          PROVE  [Ledger!Next]_<<ledgerBar, moneyBar>>
      <3> DEFINE i == charge[c].item
      <3>1. i \in Items /\ charge[c] \in ChargeData
        BY <2>2 DEF Pay, SafetyInv, TypeInv, TypeOK, ChargeData, NotCreated
      <3>2. charge' = [charge EXCEPT ![c] = [charge[c] EXCEPT !.state = "paid"]]
        BY <2>2 DEF Pay
      <3>3. /\ charge'[c].state = "paid"
            /\ charge'[c].item = i
            /\ \A d \in Charges \ {c} : charge'[d] = charge[d]
        BY <3>1, <3>2 DEF SafetyInv, TypeInv, TypeOK, ChargeData
      <3>4. charge[c].state # "paid"
        BY <2>2 DEF Pay
      <3>5. \A j \in Items : PaidAtXendit(j)' <=> PaidAtXendit(j) \/ j = i
        BY <3>3, <3>4 DEF PaidAtXendit
      <3>6. moneyBar' = moneyBar \cup {i}
        BY <3>1, <3>5 DEF moneyBar
      <3>7. Ledger!Receive(i)
        BY <2>1, <3>6 DEF Ledger!Receive
      <3>8. QED
        BY <3>1, <3>7 DEF Ledger!Next
    <2>3. ASSUME ~ \E c \in Charges, n \in Notices : Pay(c, n)
          PROVE  UNCHANGED moneyBar
      <3>1. \A c \in Charges : charge'[c].state = "paid" =>
                               charge[c].state = "paid" /\ charge'[c].item = charge[c].item
        <4> USE DEF configVars, requestVars, xenditVars, SafetyInv, TypeInv, TypeOK
        <4>1. ASSUME NEW d \in Charges, NEW i, NEW t, Create(d, i, t), NEW c \in Charges
              PROVE  charge'[c].state = "paid" => charge'[c] = charge[c]
          BY <4>1 DEF Create
        <4>2. ASSUME NEW d \in Charges, NEW n \in Notices, Close(d, n), NEW c \in Charges
              PROVE  charge'[c].state = "paid" => charge'[c] = charge[c]
          BY <4>2 DEF Close, ChargeData, NotCreated
        <4>3. CASE UNCHANGED charge
          BY <4>3
        <4>4. QED
          BY <2>3, <4>1, <4>2, <4>3
          DEF Next, vars, UpsertConfig, SetEnabled, UploadTransaction, BeginCreate, Upsert,
              CallReturns, CallSucceeds, CallReplayed, CallTimesOut, CallFails, MarkActive,
              Respond, Commit, Abort, Report, Deliver, WebhookApplied, WebhookIgnored,
              WebhookFails
      <3>2. \A j \in Items : PaidAtXendit(j)' => PaidAtXendit(j)
        BY <3>1 DEF PaidAtXendit
      <3>3. QED
        BY <3>2, MoneyLasts DEF moneyBar, SafetyInv
    <2>4. QED
      BY <2>1, <2>2, <2>3
  <1>3. QED
    BY <1>1, <1>2

\* The gateway implements the ledger: what is committed is opened once, settled
\* at most once and reopened only after EXPIRED or FAILED, although requests,
\* webhooks, roll-backs and late duplicates interleave in any way.
THEOREM ImplementsLedger == Spec => LedgerSpec
  BY SafetyInvInvariant, InitLedger, StepLedger, PTL
  DEF Spec, LedgerSpec, Ledger!Spec

-----------------------------------------------------------------------------
\* A recorded payment stays recorded.
LEMMA PaidLasts ==
    ASSUME SafetyInv, [Next]_vars, NEW j \in Items, Paid(j)
    PROVE  Paid(j)'
  <1>1. CASE UNCHANGED row
    BY <1>1 DEF Paid
  <1>2. CASE ~UNCHANGED row
    <2>1. PICK i \in Items, new \in Rows :
             /\ row' = [row EXCEPT ![i] = new]
             /\ LegalChange(i, row[i], new)
      BY <1>2, RowStep
    <2>2. CASE i # j
      BY <2>1, <2>2 DEF Paid, SafetyInv, TypeInv, TypeOK
    <2>3. CASE i = j
      <3>1. new = row[j]
        BY <2>1, <2>3 DEF LegalChange, OpenRow, Paid
      <3>2. QED
        BY <2>1, <2>3, <3>1 DEF Paid, SafetyInv, TypeInv, TypeOK
    <2>4. QED
      BY <2>2, <2>3
  <1>3. QED
    BY <1>1, <1>2

LEMMA InitPaymentAccounted == Init => PaymentAccounted
  BY DEF Init, PaymentAccounted, NotCreated

\* A reason once noted is never withdrawn.
LEMMA LossLasts ==
    ASSUME SafetyInv, [Next]_vars, NEW c \in Charges, lost[c] # "no"
    PROVE  lost'[c] # "no"
  <1>1. ASSUME NEW h \in hooks, NEW why, NoteLoss(h, why)
        PROVE  lost'[c] # "no"
    <2>1. CASE lost[h.charge] = "no"
      <3>1. h.charge # c
        BY <2>1
      <3>2. QED
        BY <1>1, <3>1 DEF NoteLoss, SafetyInv, TypeInv, TypeOK
    <2>2. CASE lost[h.charge] # "no"
      BY <1>1, <2>2 DEF NoteLoss
    <2>3. QED
      BY <2>1, <2>2
  <1>2. CASE UNCHANGED lost
    BY <1>2
  <1>3. QED
    BY <1>1, <1>2
    DEF Next, vars, UpsertConfig, SetEnabled, UploadTransaction, BeginCreate, Upsert,
        CallReturns, CallSucceeds, CallReplayed, CallTimesOut, CallFails, MarkActive,
        Respond, Commit, Abort, Pay, Close, Report, Deliver, WebhookApplied,
        WebhookIgnored, WebhookFails

LEMMA StepPaymentAccounted ==
    SafetyInv /\ PaymentAccounted /\ [Next]_vars => PaymentAccounted'
  <1> SUFFICES ASSUME SafetyInv, PaymentAccounted, [Next]_vars,
                      NEW c \in Charges, charge'[c].state = "paid"
               PROVE  \/ Recorded(c)'
                      \/ \E n \in PaidNotices : [charge |-> c, notice |-> n] \in hooks'
                      \/ lost'[c] # "no"
    BY DEF PaymentAccounted, PaidNotices
  <1>1. ASSUME NEW n \in Notices, Pay(c, n)
        PROVE  \E m \in PaidNotices : [charge |-> c, notice |-> m] \in hooks'
    BY <1>1 DEF Pay, Notify
  <1>2. CASE charge[c].state = "paid" /\ Recorded(c)
    <2>1. charge[c] # NotCreated /\ charge[c].item \in Items
      BY <1>2 DEF Recorded, SafetyInv, TypeInv, TypeOK, ChargeData
    <2>2. Paid(charge[c].item)'
      <3>1. \A j \in Items : Paid(j) => Paid(j)'
        BY PaidLasts
      <3>2. charge'[c].item = charge[c].item
        BY <2>1, ChargesLast DEF SafetyInv
      <3>3. Paid(charge[c].item)
        BY <1>2 DEF Recorded
      <3>4. row'[charge'[c].item] # NoRow /\ row'[charge'[c].item].status = "PAID"
        BY <2>1, <3>1, <3>2, <3>3 DEF Paid
      <3>5. QED
        BY <3>4 DEF Paid
    <2>3. QED
      BY <2>1, <2>2, ChargesLast DEF Recorded, SafetyInv
  <1>3. CASE lost[c] # "no"
    BY <1>3, LossLasts
  <1>4. ASSUME NEW n \in PaidNotices, [charge |-> c, notice |-> n] \in hooks,
               charge[c].state = "paid", ~Recorded(c), lost[c] = "no"
        PROVE  \/ Recorded(c)'
               \/ [charge |-> c, notice |-> n] \in hooks'
               \/ lost'[c] # "no"
    <2> DEFINE g == [charge |-> c, notice |-> n]
    <2>1. CASE \E h \in hooks : WebhookApplied(h)
      <3>1. PICK h \in hooks : WebhookApplied(h)
        BY <2>1
      <3>2. CASE h = g
        <4>1. PICK new \in Rows :
                 /\ row' = [row EXCEPT ![ItemOf(h)] = new]
                 /\ new.status = mapXenditStatus(n)
          BY <3>1, <3>2, AppliedRow DEF SafetyInv
        <4>2. mapXenditStatus(n) = "PAID"
          BY DEF mapXenditStatus
        <4>3. ItemOf(h) = charge[c].item /\ ItemOf(h) \in Items
          BY <3>1, <3>2, AppliedRow DEF ItemOf, SafetyInv
        <4>4. row'[charge[c].item] # NoRow /\ row'[charge[c].item].status = "PAID"
          BY <4>1, <4>2, <4>3 DEF SafetyInv, TypeInv, TypeOK, NoRow, Rows
        <4>5. charge' = charge /\ charge[c] # NotCreated
          BY <3>1, <1>4 DEF WebhookApplied, xenditVars, NotCreated
        <4>6. QED
          BY <4>4, <4>5 DEF Recorded, Paid
      <3>3. CASE h # g
        BY <1>4, <3>1, <3>3 DEF WebhookApplied, Acknowledged, AnswerLost
      <3>4. QED
        BY <3>2, <3>3
    <2>2. CASE \E h \in hooks : WebhookIgnored(h) \/ WebhookFails(h)
      <3>1. PICK h \in hooks : WebhookIgnored(h) \/ WebhookFails(h)
        BY <2>2
      <3>2. CASE h # g
        BY <1>4, <3>1, <3>2 DEF WebhookIgnored, WebhookFails, Acknowledged, AnswerLost
      <3>3. CASE h = g /\ g \notin hooks'
        <4>1. row[ItemOf(h)].status # "PAID"
          BY <1>4, <3>3 DEF Recorded, Paid, ItemOf, NotCreated, NoRow
        <4>2. PICK why \in {"failure", "unseen", "absent", "final"} : NoteLoss(h, why)
          BY <1>4, <3>1, <3>3 DEF WebhookIgnored, WebhookFails, AnswerLost
        <4>3. lost' = [lost EXCEPT ![c] = why]
          BY <1>4, <3>3, <4>1, <4>2 DEF NoteLoss
        <4>4. QED
          BY <4>3 DEF SafetyInv, TypeInv, TypeOK
      <3>4. QED
        BY <3>2, <3>3
    <2>3. CASE hooks \subseteq hooks'
      BY <1>4, <2>3
    <2>4. QED
      BY <2>1, <2>2, <2>3
      DEF Next, vars, UpsertConfig, SetEnabled, UploadTransaction, BeginCreate, Upsert,
          CallReturns, CallSucceeds, CallReplayed, CallTimesOut, CallFails, MarkActive,
          Respond, Commit, Abort, Pay, Close, Report, Notify, Deliver
  <1>5. CASE charge[c].state # "paid"
    <2> USE DEF configVars, requestVars, xenditVars, SafetyInv, TypeInv, TypeOK
    <2>1. ASSUME NEW d \in Charges, NEW i, NEW t, Create(d, i, t)
          PROVE  FALSE
      BY <1>5, <2>1 DEF Create
    <2>2. ASSUME NEW d \in Charges, NEW n \in Notices, Close(d, n) \/ (d # c /\ Pay(d, n))
          PROVE  FALSE
      BY <1>5, <2>2 DEF Close, Pay, ChargeData, NotCreated
    <2>3. CASE UNCHANGED charge
      BY <1>5, <2>3
    <2>4. QED
      BY <1>1, <2>1, <2>2, <2>3
      DEF Next, vars, UpsertConfig, SetEnabled, UploadTransaction, BeginCreate, Upsert,
          CallReturns, CallSucceeds, CallReplayed, CallTimesOut, CallFails, MarkActive,
          Respond, Commit, Abort, Report, Deliver, WebhookApplied, WebhookIgnored,
          WebhookFails
  <1>6. QED
    BY <1>2, <1>3, <1>4, <1>5 DEF PaymentAccounted

\* No payment disappears: it is recorded, its webhook is still to come, or that
\* webhook was acknowledged in vain for a reason that the model names.
THEOREM PaymentAccountedHolds == Spec => []PaymentAccounted
  BY SafetyInvInvariant, InitPaymentAccounted, StepPaymentAccounted, PTL DEF Spec

-----------------------------------------------------------------------------
LEMMA InitPaidAt == Init => PaidAtIffPaid
  BY DEF Init, PaidAtIffPaid

\* Only a webhook makes a row PAID, in the statement that sets paid_at, and no
\* statement takes a row out of PAID.
LEMMA StepPaidAt == TypeInv /\ PaidAtIffPaid /\ [Next]_vars => PaidAtIffPaid'
  <1> SUFFICES ASSUME TypeInv, PaidAtIffPaid, [Next]_vars
               PROVE  PaidAtIffPaid'
    OBVIOUS
  <1> USE DEF configVars, requestVars, xenditVars
  <1> DEFINE Good(v) == v.paidAt <=> v.status = "PAID"
  <1>1. /\ \A i \in Items : row[i] # NoRow => Good(row[i])
        /\ \A r \in Requests : work[r] # NoRow => Good(work[r])
    BY DEF PaidAtIffPaid
  <1>2. NoRow \notin Rows
    BY DEF NoRow, Rows, Statuses
  <1>3. ASSUME NEW r \in Requests, Upsert(r)
        PROVE  PaidAtIffPaid'
    <2> DEFINE old == row[req[r].item]
               new == UpsertedRow(old, req[r].terms)
    <2>1. old \in Rows \cup {NoRow} /\ (old # NoRow => Good(old))
      BY <1>1, <1>3 DEF Upsert, TypeInv, TypeOK, RequestsWellFormed, RequestData
    <2>2. Good(new)
      <3>1. CASE old = NoRow
        BY <3>1 DEF UpsertedRow, NewRow
      <3>2. CASE old # NoRow
        <4>1. old \in Rows /\ Good(old)
          BY <2>1, <3>2
        <4> HIDE DEF old
        <4>2. QED
          BY <3>2, <4>1 DEF UpsertedRow, Rows
      <3>3. QED
        BY <3>1, <3>2
    <2>3. row' = row /\ work' = [work EXCEPT ![r] = new]
      BY <1>3 DEF Upsert
    <2> HIDE DEF old, new
    <2>4. QED
      BY <1>1, <2>2, <2>3 DEF PaidAtIffPaid, TypeInv, TypeOK
  <1>4. ASSUME NEW r \in Requests, MarkActive(r)
        PROVE  PaidAtIffPaid'
    <2>1. work[r] \in Rows /\ work[r].status = "PENDING" /\ Good(work[r])
      BY <1>1, <1>2, <1>4 DEF MarkActive, TypeInv, RequestsWellFormed, Locking
    <2>2. /\ work'[r] = [work[r] EXCEPT !.status = "ACTIVE", !.ref = req[r].ref]
          /\ \A q \in Requests \ {r} : work'[q] = work[q]
          /\ row' = row
      BY <1>4 DEF MarkActive, TypeInv, TypeOK
    <2>3. Good(work'[r])
      BY <2>1, <2>2 DEF Rows
    <2>4. QED
      BY <1>1, <2>2, <2>3 DEF PaidAtIffPaid
  <1>5. ASSUME NEW r \in Requests, Commit(r)
        PROVE  PaidAtIffPaid'
    <2>1. work[r] \in Rows /\ Good(work[r])
      BY <1>1, <1>2, <1>5 DEF Commit, TypeInv, RequestsWellFormed, Locking
    <2>2. /\ row' = [row EXCEPT ![req[r].item] = work[r]]
          /\ work' = [work EXCEPT ![r] = NoRow]
      BY <1>5 DEF Commit, EndRequest
    <2>3. QED
      BY <1>1, <2>1, <2>2 DEF PaidAtIffPaid, TypeInv, TypeOK
  <1>6. ASSUME NEW r \in Requests, Abort(r)
        PROVE  PaidAtIffPaid'
    <2>1. row' = row /\ work' = [work EXCEPT ![r] = NoRow]
      BY <1>6 DEF Abort, EndRequest
    <2>2. QED
      BY <1>1, <2>1 DEF PaidAtIffPaid, TypeInv, TypeOK
  <1>7. ASSUME NEW h \in hooks, WebhookApplied(h)
        PROVE  PaidAtIffPaid'
    <2>1. /\ row[ItemOf(h)] \in Rows /\ ItemOf(h) \in Items
          /\ work' = work
          /\ ~row[ItemOf(h)].paidAt
      BY <1>1, <1>2, <1>7, AppliedRow DEF WebhookApplied, Updatable, Rows
    <2>2. PICK new \in Rows : /\ row' = [row EXCEPT ![ItemOf(h)] = new]
                              /\ new.paidAt <=> row[ItemOf(h)].paidAt \/ new.status = "PAID"
      BY <1>7, AppliedRow
    <2>3. Good(new)
      BY <2>1, <2>2
    <2>4. QED
      BY <1>1, <2>1, <2>2, <2>3 DEF PaidAtIffPaid, TypeInv, TypeOK
  <1>8. CASE UNCHANGED <<row, work>>
    BY <1>8 DEF PaidAtIffPaid
  <1>9. QED
    BY <1>3, <1>4, <1>5, <1>6, <1>7, <1>8
    DEF Next, vars, UpsertConfig, SetEnabled, UploadTransaction, BeginCreate, CallReturns,
        CallSucceeds, CallReplayed, CallTimesOut, CallFails, Respond, Pay, Close, Report,
        Deliver, WebhookIgnored, WebhookFails

\* paid_at is set exactly on the rows that are PAID, committed or not, although
\* the upsert, the activation and the webhook each write some of the columns
\* and the webhook only COALESCEs paid_at.
THEOREM PaidAtIffPaidHolds == Spec => []PaidAtIffPaid
  BY TypeInvInvariant, InitPaidAt, StepPaidAt, PTL DEF Spec
=============================================================================
