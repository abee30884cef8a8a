--------------------------- MODULE PaymentLedger ---------------------------
(***************************************************************************)
(* What the gateway component promises about one payment item, with no     *)
(* database, no requests and no messages: an item is opened once, is       *)
(* settled at most once, may be reopened only after it EXPIRED or FAILED,  *)
(* and is settled as PAID only if the customer's money reached the         *)
(* gateway.  GatewayPayments is shown to implement this module.            *)
(***************************************************************************)
CONSTANT Items       \* payment items, one external_id each

VARIABLES ledger,    \* ledger[i]: what the books say about item i
          money      \* the items whose payment the gateway has received

Settled == {"PAID", "EXPIRED", "FAILED", "CANCELLED"}
Reopenable == {"EXPIRED", "FAILED"}

LedgerTypeOK ==
    /\ ledger \in [Items -> {"none", "open"} \cup Settled]
    /\ money \subseteq Items

Init ==
    /\ ledger = [i \in Items |-> "none"]
    /\ money = {}

\* A payment is started, or started again after an attempt that came to nothing.
Open(i) ==
    /\ ledger[i] \in {"none"} \cup Reopenable
    /\ ledger' = [ledger EXCEPT ![i] = "open"]
    /\ UNCHANGED money

\* The customer pays at the gateway; the books do not know it yet.
Receive(i) ==
    /\ money' = money \cup {i}
    /\ UNCHANGED ledger

Settle(i, s) ==
    /\ ledger[i] = "open"
    /\ s = "PAID" => i \in money
    /\ ledger' = [ledger EXCEPT ![i] = s]
    /\ UNCHANGED money

Next == \E i \in Items :
    \/ Open(i)
    \/ Receive(i)
    \/ \E s \in Settled : Settle(i, s)

Spec == Init /\ [][Next]_<<ledger, money>>
=============================================================================
