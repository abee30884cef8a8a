-------------------------- MODULE GatewayPayments --------------------------
(***************************************************************************)
(* Gateway payments (internal/service/gateway_service.go): concurrent      *)
(* CreateGatewayPayment requests, each inside the one database transaction *)
(* that middleware.TenantIsolation opens around it, against webhooks that  *)
(* Xendit sends at any time, in any order and possibly twice, and that     *)
(* ProcessWebhook stores in a transaction of its own.                      *)
(*                                                                         *)
(* The database is PostgreSQL at READ COMMITTED: row holds the committed   *)
(* rows of transaction_gateway_payments, work[r] the version request r has *)
(* written and not committed, and a row that a request has written stays   *)
(* locked until that request commits or rolls back.  "terms" stands for    *)
(* the fields a request names and the charge at Xendit is made of: amount, *)
(* gateway_type and transaction_id.                                        *)
(***************************************************************************)
CONSTANTS
    Requests,    \* slots for POST /pos/payments requests in progress
    Items,       \* payment items; each has the one external_id "lpos-<item>"
    Terms,       \* what a request may ask to be paid
    Charges,     \* invoices and QR codes Xendit can create (bounds the calls)
    Notices,     \* the status words Xendit uses in its webhooks
    NoCharge     \* gateway_ref_id IS NULL

PaidNotices == {"COMPLETED", "PAID", "SUCCEEDED"}
ClosingNotices == {"EXPIRED", "FAILED", "CANCELLED"}

ASSUME NoChargeAssumption == NoCharge \notin Charges
ASSUME NoticesAssumption == Notices \subseteq STRING

VARIABLES
    cfg,         \* payment_gateway_configs of the tenant: none, disabled, enabled
    uploaded,    \* the items whose transaction has been synchronised
    row,         \* row[i]: the committed row of item i
    work,        \* work[r]: the row as request r sees it in its transaction
    pc,          \* how far request r has come
    req,         \* what request r asks for, and the charge Xendit gave it
    charge,      \* Xendit's charges
    shown,       \* the charges whose link or QR code a response has carried
    hooks,       \* webhooks Xendit has still to deliver
    lost         \* why the PAID webhook of a charge was acknowledged in vain

configVars == <<cfg, uploaded>>
requestVars == <<work, pc, req>>
xenditVars == <<charge, shown>>
vars == <<cfg, uploaded, row, work, pc, req, charge, shown, hooks, lost>>

Statuses == {"PENDING", "ACTIVE", "PAID", "EXPIRED", "FAILED", "CANCELLED"}
Final == {"PAID", "EXPIRED", "FAILED", "CANCELLED"}

Rows == [status: Statuses, ref: Charges \cup {NoCharge}, terms: Terms, paidAt: BOOLEAN]
NoRow == [status |-> "none"]
RequestData == [item: Items, terms: Terms, ref: Charges \cup {NoCharge}]
NoRequest == [item |-> "none"]
ChargeData == [item: Items, terms: Terms, state: {"open", "paid", "closed"}]
NotCreated == [state |-> "none"]
Hooks == [charge: Charges, notice: Notices]

(***************************************************************************)
(* A request holds the lock on its row from the upsert to the end of its   *)
(* transaction.                                                            *)
(***************************************************************************)
Locking == {"calling", "called", "answer", "done"}
Holds(r, i) == pc[r] \in Locking /\ req[r].item = i
Locked(i) == \E r \in Requests : Holds(r, i)

\* Mutants of mapXenditStatus: an unknown word is taken as it is, or as paid.
MapPassesUnknown(notice) == IF notice \in PaidNotices THEN "PAID" ELSE notice
MapPaysUnknown(notice) ==
    IF notice \in ClosingNotices \cup {"PENDING", "ACTIVE"} THEN notice ELSE "PAID"

mapXenditStatus(notice) ==
    IF notice \in PaidNotices THEN "PAID"
    ELSE IF notice \in ClosingNotices \cup {"PENDING", "ACTIVE"} THEN notice
    ELSE "PENDING"

TypeOK ==
    /\ cfg \in {"none", "disabled", "enabled"}
    /\ uploaded \subseteq Items
    /\ row \in [Items -> Rows \cup {NoRow}]
    /\ work \in [Requests -> Rows \cup {NoRow}]
    /\ pc \in [Requests -> {"idle", "checked"} \cup Locking]
    /\ req \in [Requests -> RequestData \cup {NoRequest}]
    /\ charge \in [Charges -> ChargeData \cup {NotCreated}]
    /\ shown \subseteq Charges
    /\ hooks \subseteq Hooks
    /\ lost \in [Charges -> {"no", "failure", "unseen", "absent", "final"}]

Init ==
    /\ cfg = "none"
    /\ uploaded = {}
    /\ row = [i \in Items |-> NoRow]
    /\ work = [r \in Requests |-> NoRow]
    /\ pc = [r \in Requests |-> "idle"]
    /\ req = [r \in Requests |-> NoRequest]
    /\ charge = [c \in Charges |-> NotCreated]
    /\ shown = {}
    /\ hooks = {}
    /\ lost = [c \in Charges |-> "no"]

-----------------------------------------------------------------------------
(***************************************************************************)
(* Owner and cashier requests that change what a payment request reads.    *)
(***************************************************************************)
UpsertConfig(enabled) ==
    /\ cfg' = IF enabled THEN "enabled" ELSE "disabled"
    /\ UNCHANGED <<uploaded, row, requestVars, xenditVars, hooks, lost>>

SetEnabled(enabled) ==
    /\ cfg # "none"
    /\ cfg' = IF enabled THEN "enabled" ELSE "disabled"
    /\ UNCHANGED <<uploaded, row, requestVars, xenditVars, hooks, lost>>

\* The sync upload that stores the transaction of item i commits.
UploadTransaction(i) ==
    /\ uploaded' = uploaded \cup {i}
    /\ UNCHANGED <<cfg, row, requestVars, xenditVars, hooks, lost>>

-----------------------------------------------------------------------------
(***************************************************************************)
(* CreateGatewayPayment.  The checks that end in 400 or 404 change nothing *)
(* and are the states in which BeginCreate is disabled.                    *)
(***************************************************************************)
BeginCreate(r, i, t) ==
    /\ pc[r] = "idle"
    /\ cfg = "enabled"
    /\ i \in uploaded
    /\ pc' = [pc EXCEPT ![r] = "checked"]
    /\ req' = [req EXCEPT ![r] = [item |-> i, terms |-> t, ref |-> NoCharge]]
    /\ UNCHANGED <<configVars, row, work, xenditVars, hooks, lost>>

NewRow(t) == [status |-> "PENDING", ref |-> NoCharge, terms |-> t, paidAt |-> FALSE]

\* Mutant of UpsertedRow: a PAID or CANCELLED row is reset as well.
ResetsEveryFinalRow(old, t) ==
    IF old = NoRow THEN NewRow(t)
    ELSE IF old.status \in Final THEN [old EXCEPT !.status = "PENDING", !.ref = NoCharge]
    ELSE old

\* INSERT ... ON CONFLICT (external_id) DO UPDATE: a new row, or the committed
\* one, which an EXPIRED or FAILED attempt leaves PENDING without a reference.
UpsertedRow(old, t) ==
    IF old = NoRow THEN NewRow(t)
    ELSE IF old.status \in {"EXPIRED", "FAILED"}
         THEN [old EXCEPT !.status = "PENDING", !.ref = NoCharge]
         ELSE old

\* Mutant of Upsert: a plain SELECT and INSERT, which waits for nobody.
UpsertWithoutWaiting(r) ==
    LET new == UpsertedRow(row[req[r].item], req[r].terms)
    IN  /\ pc[r] = "checked"
        /\ work' = [work EXCEPT ![r] = new]
        /\ pc' = [pc EXCEPT ![r] = IF new.status = "PENDING" THEN "calling" ELSE "answer"]
        /\ UNCHANGED <<configVars, row, req, xenditVars, hooks, lost>>

\* The upsert waits for the transaction that holds the row, or that is
\* inserting it, and then works on what that transaction left committed.
Upsert(r) ==
    LET i == req[r].item
        new == UpsertedRow(row[i], req[r].terms)
    IN  /\ pc[r] = "checked"
        /\ ~Locked(i)
        /\ work' = [work EXCEPT ![r] = new]
        /\ pc' = [pc EXCEPT ![r] = IF new.status = "PENDING" THEN "calling" ELSE "answer"]
        /\ UNCHANGED <<configVars, row, req, xenditVars, hooks, lost>>

ReceiveCharge(r, c) ==
    /\ pc' = [pc EXCEPT ![r] = "called"]
    /\ req' = [req EXCEPT ![r].ref = c]

Create(c, i, t) ==
    /\ charge[c] = NotCreated
    /\ charge' = [charge EXCEPT ![c] = [item |-> i, terms |-> t, state |-> "open"]]

\* Xendit creates an invoice or a QR code for the terms of this request.
CallSucceeds(r, c) ==
    /\ pc[r] = "calling"
    /\ Create(c, req[r].item, req[r].terms)
    /\ ReceiveCharge(r, c)
    /\ UNCHANGED <<configVars, row, work, shown, hooks, lost>>

\* Xendit recognises the Idempotency-Key, which is the external_id, and
\* answers with the charge it created for an earlier call of the same content.
CallReplayed(r, c) ==
    /\ pc[r] = "calling"
    /\ charge[c] # NotCreated
    /\ charge[c].item = req[r].item
    /\ charge[c].terms = req[r].terms
    /\ ReceiveCharge(r, c)
    /\ UNCHANGED <<configVars, row, work, xenditVars, hooks, lost>>

\* No key, no callback URL, or an error answer: the handler writes a 500 and
\* the middleware goes on to commit the row as it is.
CallFails(r) ==
    /\ pc[r] = "calling"
    /\ pc' = [pc EXCEPT ![r] = "done"]
    /\ UNCHANGED <<configVars, row, work, req, xenditVars, hooks, lost>>

\* The HTTP client gives up after Xendit has created the charge.
CallTimesOut(r, c) ==
    /\ pc[r] = "calling"
    /\ Create(c, req[r].item, req[r].terms)
    /\ pc' = [pc EXCEPT ![r] = "done"]
    /\ UNCHANGED <<configVars, row, work, req, shown, hooks, lost>>

MarkActive(r) ==
    /\ pc[r] = "called"
    /\ work[r].status = "PENDING"
    /\ work' = [work EXCEPT ![r].status = "ACTIVE", ![r].ref = req[r].ref]
    /\ pc' = [pc EXCEPT ![r] = "answer"]
    /\ UNCHANGED <<configVars, row, req, xenditVars, hooks, lost>>

\* The handler writes its response before the middleware commits.
Respond(r) ==
    /\ pc[r] = "answer"
    /\ shown' = shown \cup ({work[r].ref} \ {NoCharge})
    /\ pc' = [pc EXCEPT ![r] = "done"]
    /\ UNCHANGED <<configVars, row, work, req, charge, hooks, lost>>

EndRequest(r) ==
    /\ pc' = [pc EXCEPT ![r] = "idle"]
    /\ work' = [work EXCEPT ![r] = NoRow]
    /\ req' = [req EXCEPT ![r] = NoRequest]

\* Mutant of Commit: a request that changed nothing leaves its transaction open.
CommitIfChanged(r) ==
    /\ pc[r] = "done"
    /\ work[r] # row[req[r].item]
    /\ row' = [row EXCEPT ![req[r].item] = work[r]]
    /\ EndRequest(r)
    /\ UNCHANGED <<configVars, xenditVars, hooks, lost>>

Commit(r) ==
    /\ pc[r] = "done"
    /\ row' = [row EXCEPT ![req[r].item] = work[r]]
    /\ EndRequest(r)
    /\ UNCHANGED <<configVars, xenditVars, hooks, lost>>

\* The client goes away (the request's context ends), a statement or the
\* commit fails, the handler panics or the server dies: the transaction is
\* rolled back, whatever the response said.
Abort(r) ==
    /\ pc[r] # "idle"
    /\ EndRequest(r)
    /\ UNCHANGED <<configVars, row, xenditVars, hooks, lost>>

-----------------------------------------------------------------------------
(***************************************************************************)
(* Xendit: a charge that a customer has been shown may be paid, any open   *)
(* charge may be closed, and an open one may be reported on.  Each of      *)
(* these sends a webhook.                                                  *)
(***************************************************************************)
Notify(c, n) == hooks' = hooks \cup {[charge |-> c, notice |-> n]}

Pay(c, n) ==
    /\ charge[c].state = "open"
    /\ c \in shown
    /\ n \in PaidNotices
    /\ charge' = [charge EXCEPT ![c].state = "paid"]
    /\ Notify(c, n)
    /\ UNCHANGED <<configVars, row, requestVars, shown, lost>>

Close(c, n) ==
    /\ charge[c].state = "open"
    /\ n \in ClosingNotices
    /\ charge' = [charge EXCEPT ![c].state = "closed"]
    /\ Notify(c, n)
    /\ UNCHANGED <<configVars, row, requestVars, shown, lost>>

Report(c, n) ==
    /\ charge[c].state = "open"
    /\ n \notin PaidNotices \cup ClosingNotices
    /\ Notify(c, n)
    /\ UNCHANGED <<configVars, row, requestVars, xenditVars, lost>>

-----------------------------------------------------------------------------
(***************************************************************************)
(* ProcessWebhook.  The payload's external_id names the item, never the    *)
(* charge.  Every outcome is answered 200; Xendit delivers the webhook     *)
(* again only if that answer is lost on the way.                           *)
(***************************************************************************)
ItemOf(h) == charge[h.charge].item
Acknowledged(h) == hooks' = hooks \ {h}
AnswerLost == UNCHANGED hooks

\* Mutants of Updatable: a status is missing from the list of final ones.
UpdatableWhenPaid(s) == s \notin {"EXPIRED", "FAILED", "CANCELLED"}
UpdatableWhenExpired(s) == s \notin {"PAID", "FAILED", "CANCELLED"}

\* WHERE gateway_status NOT IN ('PAID', 'EXPIRED', 'FAILED', 'CANCELLED')
Updatable(s) == s \notin {"PAID", "EXPIRED", "FAILED", "CANCELLED"}

\* The UPDATE finds the row in a status that may still change; a request that
\* holds it makes the UPDATE wait.
WebhookApplied(h) ==
    LET i == ItemOf(h)
        s == mapXenditStatus(h.notice)
    IN  /\ row[i] # NoRow
        /\ Updatable(row[i].status)
        /\ ~Locked(i)
        /\ row' = [row EXCEPT ![i].status = s, ![i].paidAt = @ \/ s = "PAID"]
        /\ Acknowledged(h) \/ AnswerLost
        /\ UNCHANGED <<configVars, requestVars, xenditVars, lost>>

\* A PAID webhook is lost when it is acknowledged and the row is not PAID.
NoteLoss(h, why) ==
    lost' = IF /\ h.notice \in PaidNotices
               /\ row[ItemOf(h)].status # "PAID"
               /\ lost[h.charge] = "no"
            THEN [lost EXCEPT ![h.charge] = why]
            ELSE lost

\* The UPDATE sees no committed row, or a final one: it changes no row, and
\* does not wait for a request that is about to commit another version.
WebhookIgnored(h) ==
    LET i == ItemOf(h)
    IN  /\ row[i] = NoRow \/ ~Updatable(row[i].status)
        /\ \/ /\ Acknowledged(h)
              /\ NoteLoss(h, IF Locked(i) THEN "unseen"
                             ELSE IF row[i] = NoRow THEN "absent" ELSE "final")
           \/ AnswerLost /\ UNCHANGED lost
        /\ UNCHANGED <<configVars, row, requestVars, xenditVars>>

\* No connection, no transaction, a failed statement or a failed commit.
WebhookFails(h) ==
    /\ Acknowledged(h)
    /\ NoteLoss(h, "failure")
    /\ UNCHANGED <<configVars, row, requestVars, xenditVars>>

Deliver(h) == WebhookApplied(h) \/ WebhookIgnored(h) \/ WebhookFails(h)
-----------------------------------------------------------------------------
CallReturns(r) ==
    \/ \E c \in Charges : CallSucceeds(r, c) \/ CallReplayed(r, c) \/ CallTimesOut(r, c)
    \/ CallFails(r)

Next ==
    \/ \E b \in BOOLEAN : UpsertConfig(b) \/ SetEnabled(b)
    \/ \E i \in Items : UploadTransaction(i)
    \/ \E r \in Requests :
          \/ \E i \in Items, t \in Terms : BeginCreate(r, i, t)
          \/ Upsert(r)
          \/ CallReturns(r)
          \/ MarkActive(r)
          \/ Respond(r)
          \/ Commit(r)
          \/ Abort(r)
    \/ \E c \in Charges, n \in Notices : Pay(c, n) \/ Close(c, n) \/ Report(c, n)
    \/ \E h \in hooks : Deliver(h)

Spec == Init /\ [][Next]_vars

(***************************************************************************)
(* The server keeps running its handlers, the HTTP client's timeout ends   *)
(* every call, PostgreSQL queues the waiters of a row lock, and Xendit     *)
(* keeps delivering a webhook until it is answered.  Nothing makes a       *)
(* customer pay, a cashier ask, or Xendit close a charge.                  *)
(***************************************************************************)
Fairness ==
    /\ \A r \in Requests :
          /\ SF_vars(Upsert(r))
          /\ WF_vars(CallReturns(r))
          /\ WF_vars(MarkActive(r) \/ Respond(r) \/ Commit(r))
    /\ \A h \in Hooks : SF_vars(h \in hooks /\ (WebhookApplied(h) \/ WebhookIgnored(h)))

FairSpec == Spec /\ Fairness

-----------------------------------------------------------------------------
(***************************************************************************)
(* Properties                                                              *)
(***************************************************************************)
Paid(i) == row[i] # NoRow /\ row[i].status = "PAID"
Recorded(c) == charge[c] # NotCreated /\ Paid(charge[c].item)
PaidAtXendit(i) == \E c \in Charges : charge[c].state = "paid" /\ charge[c].item = i

\* No webhook, known or unknown, and no retry ever makes an item PAID for which
\* no customer has paid (ProcessWebhook, mapXenditStatus).
PaidIsBacked == \A i \in Items : Paid(i) => PaidAtXendit(i)

\* No payment disappears: a paid charge is recorded on its row, or its webhook
\* is still to come, or that webhook was acknowledged in vain for one of the
\* reasons of lost; in particular the commit of a request that was under way
\* never overwrites a recorded payment (CreateGatewayPayment against
\* ProcessWebhook).
PaymentAccounted ==
    \A c \in Charges :
        charge[c].state = "paid" =>
            \/ Recorded(c)
            \/ \E n \in PaidNotices : [charge |-> c, notice |-> n] \in hooks
            \/ lost[c] # "no"

\* paid_at is set exactly on the rows that are PAID, committed or not, although
\* the upsert, the activation and the webhook each write some of the columns
\* and the webhook only COALESCEs paid_at.
PaidAtIffPaid ==
    /\ \A i \in Items : row[i] # NoRow => (row[i].paidAt <=> row[i].status = "PAID")
    /\ \A r \in Requests : work[r] # NoRow => (work[r].paidAt <=> work[r].status = "PAID")

\* Of the requests for one item, at most one is between its upsert and its
\* commit, so at most one is calling Xendit (external_id UNIQUE).
SingleFlight ==
    \A i \in Items, q, r \in Requests : Holds(q, i) /\ Holds(r, i) => q = r

\* The committed rows, as the books of PaymentLedger.
ledgerBar ==
    [i \in Items |-> IF row[i] = NoRow THEN "none"
                     ELSE IF row[i].status \in Final THEN row[i].status
                     ELSE "open"]
moneyBar == {i \in Items : PaidAtXendit(i)}
Ledger == INSTANCE PaymentLedger WITH ledger <- ledgerBar, money <- moneyBar

\* What is committed follows the abstract ledger: a settled item stays settled
\* unless a retry reopens an EXPIRED or FAILED one, and only money settles an
\* item as PAID.
LedgerSpec == Ledger!Spec

\* A request that waits for the row lock or for Xendit comes to its end.
RequestEnds == \A r \in Requests : pc[r] # "idle" ~> pc[r] = "idle"

\* A payment the customer made is recorded in the end, or its webhook is
\* acknowledged in vain: it never stays undelivered behind a request.
PaymentSettles ==
    \A c \in Charges :
        charge[c].state = "paid" ~>
            \/ Recorded(c)
            \/ lost[c] # "no"

-----------------------------------------------------------------------------
(***************************************************************************)
(* What comments of gateway_service.go say and the code does not do.       *)
(***************************************************************************)
\* Lines 553-554: when ProcessWebhook gets no connection it returns nil because
\* the notification "will retry via Xendit".  So no payment is lost to a failure.
FailedWebhookIsRetried == \A c \in Charges : lost[c] # "failure"
=============================================================================
