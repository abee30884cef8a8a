# Formal models of the laundry POS service

This directory holds TLA+ models of the Go service in `src/` (REST API, PostgreSQL,
the Xendit payment gateway), the TLC configurations that check them on small
instances, and TLAPS proofs of the main results for every instance.

## 1. Inventory

### How the service works

Every `/admin`, `/owner` and `/pos` request passes `middleware.TenantIsolation`
(`internal/middleware/tenant.go`): it takes a connection, opens **one transaction**,
runs the handler inside it, and commits after the handler has written its response.
A failed commit is only logged. The isolation level is PostgreSQL's default, READ
COMMITTED; three consequences shape most of the hard behaviour:

* a plain `SELECT` sees what is committed when it runs and locks nothing, so a check
  made on it may be stale when the `UPDATE` that follows runs;
* an `UPDATE`, or an `INSERT` that meets a unique key, waits for the transaction that
  holds the row and then works on what that transaction left;
* any SQL error aborts the whole transaction. Code that logs an error and continues
  does not keep what it did before: the later commit is a rollback, although the
  client has been told 200.

The Xendit webhook, everything under `/auth` (registration, login, refresh, password
reset), the scheduler and the goroutines that requests leave behind run outside this
middleware, on pool connections of their own.

### Components

| component | state | operations | what makes it correct |
|---|---|---|---|
| Gateway payments (`gateway_service.go`) | configuration; one payment row per item | UpsertConfig, SetEnabled, CreateGatewayPayment, ProcessWebhook | PAID only with the customer's money; no payment lost; one request per item at the gateway; requests end |
| Orders (`order_service.go`) | order, its history | Create, CreateFromTransaction, UpdateStatus | one order per sale; status moves along `validTransitions`; history explains the row |
| Inventory (`inventory_service.go`) | supplies, movements, mappings | DeductStockForOrder, RecordMovement, CRUD | stock is the sum of the movements; a deduction is all or nothing |
| Members (`member_service.go`) | points, spending, tier, referrer | Create, Update, Delete, UpdateSpending, AwardReferralPoints, RedeemPoints, AwardPoints | points balance; a referral is awarded once; tier follows spending |
| Sync (`sync_service.go`) | sales, sync sessions | Upload, Download | what is acknowledged is stored; re-uploads change nothing |
| Shifts (`shift_service.go`) | shift, its sales | OpenShift, CloseShift, GetShiftSummary | one open shift per cashier; the closing sum covers its sales |
| Billing (`billing_service.go`) | plan, monthly usage | IncrementUsage, CheckTransactionLimit, CheckOutletLimit, AssignFreePlan | usage never passes the plan's limit |
| Configuration (`config_service.go`) | versions, store settings | PushConfig, UpdateStoreSettings, BroadcastConfig | versions without gaps or twins; a device holds what it reports; a broadcast commits all that it answers or nothing |
| Records (`service_template_service.go`, `payment_method_service.go`, `outlet_service.go`, `user_service.go`, `tenant_service.go`, `feature_flag_service.go`, `delivery_service.go`) | one table each, with prices, overrides and pickups | CRUD by read, change, write back; pricing; fees | unique keys; edits touch what they were asked to; no override without a flag; a plan's outlets |
| Accounts (`auth_service.go`) | tenants, users, tokens, sessions | Register, Login, RefreshToken, RequestPasswordReset, ResetPassword | a registration is whole; a reset token works again, or beside another, only when resets overlap or a statement fails (a token that works once is not what the code gives, see Divergences) |
| Rate limiting (`middleware/ratelimit.go`) | recent attempts, or a Redis counter, per client | Allow, cleanup | a bound per window; counters end |
| Scheduler, notifications (`scheduler.go`, `notification_service.go`) | settings, last summary, logs | checkAndSendSummaries, NotifyOrderStatus, SendLowStockAlert | one summary a day; the log tells the truth |
| Expenses, reports, owner dashboard (`expense_service.go`, `owner_dashboard_service.go`) | expenses | CRUD, PnL, cash flow, tax, summaries | figures of one report agree; periods abut |
| Analytics, audit, monitoring, staff | none of their own | queries and log inserts | |

### Interactions

* A sync upload stores sales, links them to open shifts, creates their orders, adds to
  members' spending and points, deducts stock and counts usage, all in the transaction
  of its request.
* `UpdateStatus` to `done` deducts the stock of the order's sale.
* A gateway payment refers to an uploaded sale; Xendit is called from inside the
  request's transaction, and reports through webhooks that the service takes at any
  time.
* Configuration versions snapshot the catalogue; devices download what is newer than
  what they hold.
* An upload starts a goroutine that looks for low stock and tells the owner; the
  scheduler does the same with each daily summary.
* Billing limits stand before uploads and before an owner's new outlet; a registration
  is followed by the assignment of the free plan.

### Hard behaviours

The list that the properties are written against is `hazards` in `PROJECT.json`, the 40
that matter most. In
short: checks made on unlocked reads; webhooks that arrive before the row they are
for is committed, twice or out of order; webhooks acknowledged although nothing was
stored; calls to the gateway that time out after they took effect; errors that are
logged and passed over in an aborted transaction; lock orders that differ between
requests; answers given before the commit.

## 2. Plan

The models, runs and proofs of the plan are done, in the order of their importance: every
invariant and action property that a run checks is also a theorem. Left to the model
checker is liveness (section 6).

| # | module | what it composes or refines | runs | proved |
|---|---|---|---|---|
| 1 | `GatewayPayments` | requests, database row, Xendit, webhooks; implements `PaymentLedger` | `gateway_*` | type, `SingleFlight`, `PaidIsBacked`, `PaidAtIffPaid`, `PaymentAccounted`, refinement |
| 2 | `OrderLifecycle` | orders with the deduction of stock | `order_*` | type, `HistoryExplainsOrder`, `StepsFromHistory`, `OneOrderPerTransaction`, `StockMatchesOrders` |
| 3 | `Loyalty` | members with uploads, redemptions, edits, deletions | `loyalty_*` | type, `PointsBalance`, `TierFollowsSpending`, `NothingOrphaned` |
| 4 | `SalesSync` | uploads with shifts and monthly usage | `sales_safety` | type, `OneOpenShift`, `SalesCounted`, `OvershootBounded`, `ShiftsBacked` |
| 5 | `ConfigVersions` | pushes, broadcasts, store settings, downloads | `config_safety` | type, `VersionsGapless`, `AllOrNothing`, `CatalogueOfVersions`, `DeviceIsConsistent` |
| 6 | `RateLimiter` | both limiters, in memory and in Redis | `administration_safety` | type, `MemoryBound`, `RedisWindows` |
| 7 | `Records`, `Accounts` | everything owners and administrators keep; registration and sessions | `administration_safety` | type, `RecordsConsistent`, `EditsChangeWhatTheyName`, `AccountsConsistent` |
| 8 | `Inventory`, `Summaries`, `Books` | stock and alerts; daily summaries and messages; reports | `operations_safety` | type, `StockAccounted`, `AlertedWasLow`, `MessagesRemembered`, `SummaryUnlessDisturbed`, `FiguresAgree` |

`PaymentLedger` is the abstract specification of the gateway.

Two requests in progress are enough everywhere: every hazard listed is a race of two,
and the theorems do not depend on the number.

## 3. The models

All modules represent the database the same way. Committed tables are functions
(`row`, `order`, `member`, `sale`). What a request has written in its open transaction
is in `work[r]`, and its presence there *is* the row lock. `pc[r]` says how far the
handler has come, `job[r]` or `req[r]` what it has read into Go variables. A statement
that has to wait is an action that is not enabled. A failed statement takes the request
to a state in which `work[r]` is already empty and only the end of the request is left:
PostgreSQL has aborted the transaction while the handler goes on to an answer.
`Commit` makes `work[r]` visible in one step; `Abort` (the client gone, a failed commit,
a panic, the death of the server) drops it at any point.

### `GatewayPayments`, `PaymentLedger`

| code | model |
|---|---|
| `payment_gateway_configs`, `transactions` | `cfg`, `uploaded` |
| `transaction_gateway_payments` | `row[i]`; amount, type and transaction are `terms` |
| `CreateGatewayPayment`: checks / upsert / Xendit / activation / answer | `BeginCreate`, `Upsert`, `CallSucceeds`, `CallReplayed`, `CallFails`, `CallTimesOut`, `MarkActive`, `Respond` |
| the middleware's commit | `Commit`, `Abort` |
| `ProcessWebhook` | `WebhookApplied`, `WebhookIgnored`, `WebhookFails`, each possibly with its answer lost, so that the webhook comes again |
| Xendit and the customer (external) | `Pay`, `Close`, `Report` |

`PaymentLedger` says what a tenant may rely on: an item is open or settled; a settled
one stays as it is, except that an expired or failed one may be reopened; only money
settles an item as PAID. `LedgerSpec` is that specification under the mapping that
reads each committed row as a line of the books.

The re-read of the row when the activation updates nothing (`gateway_service.go:342-352`)
has no action: the request has held the row since its upsert, so that the UPDATE always
finds it PENDING. Malformed and unauthenticated webhooks change nothing. A webhook that
the rate limiter refuses is answered 429 and comes again: it stays in `hooks`.

### `OrderLifecycle`

| code | model |
|---|---|
| `orders`, `order_status_logs` | `order`, `log` |
| `supplies.current_stock`, `stock_movements` | `stock` (relative to its start), `moves` |
| `Create`, `CreateFromTransaction` | `Create`, `CreateFromTransaction` |
| `UpdateStatus`: SELECT and validation / UPDATE and log | `ReadOrder`, `WriteStatus` |
| `DeductStockForOrder` | `Deduct` per mapped supply, `DeductionFails`, `DeadlockVictim` |

`Recipe` stands for the join of a sale's items with `service_supply_mappings`; a
quantity is one unit. Movements made by hand and the rounding of quantities are in
`Inventory`.

### `Loyalty`

| code | model |
|---|---|
| `members` | `member`; points in hundreds, spending in units of Rp 500.000 |
| `point_redemptions` | `redeemed`, summed per member |
| upload: `UpdateSpending`, `AwardReferralPoints` | `UpdateSpending`, `MarkFirst`, `AwardReferrer` for each sale in turn |
| `RedeemPoints` | `ReadPoints`, `DeductPoints`, `LogRedemption` or `LogFails` |
| `Update`, `Create`, `Delete`, `AwardPoints` | `KeepTier`/`SetTier` and `WriteMember`, and an action each |

`earned` and `edited` only remember what happened, for the properties.

### `SalesSync`

| code | model |
|---|---|
| `transactions`, `shift_transactions`, `shifts`, `tenant_usage` | `sale`, `linked`, `shift`, `usage` |
| `SyncHandler.Upload` | `BeginUpload`, `InsertSale` per sale, `LinkShifts` or `LinkFails`, `ChooseMonth`, `IncrementUsage` |
| `OpenShift` | `BeginOpen`, then `InsertShift` or `DuplicateShift` |
| `CloseShift` | `BeginClose`, `SumCash`, `WriteClose` |
| the clock | `NextMonth` |

The repeated upload of a stored sale writes its status and counts again, as the upsert
does. The sales of one upload name one shift or none; every sale is cash of amount 1.

### `ConfigVersions`

| code | model |
|---|---|
| `config_versions` | `config[t]`, a set of rows, and `work[r][t]`, those of an open transaction; `UNIQUE (tenant_id, version)` is in `Insert` and `InsertFails` |
| the catalogue that a snapshot holds | `edition`, the number of committed changes (`Edit`) |
| `PushConfig`, `BroadcastConfig` | `StartPush`, then `ReadServices`, `ReadFlags`, `Number`, `Insert` for each tenant of the list in turn; `StatementFails`, `InsertFails` or `DeadlockVictim` abort the transaction |
| `UpdateStoreSettings` | `StartSettings`, `Number`, `Insert` |
| `SyncService.Download` | `StartDownload`, `DownloadConfig`, `DownloadRest` |

`INSERT ... SELECT MAX(version) + 1` is two actions: the `SELECT` sees what is committed
when the statement begins, the key is checked, and waited for, after that. The list of
tenants is taken as it comes (`config_service.go:218`): it may be empty, and it may name a
tenant twice, whose second push then sees, and numbers on from, the uncommitted row of the
first (`Seen`).

### `Records`

Seven tables are read and written in one shape: a request `Begin`s with what it is about
(`job`), and goes through the statements of its service method: `ReadRow` and `MergeRow`
for an update, `SetActive` for a deletion, `CheckKey` and `InsertRow` for a creation,
`CountRows` and `ReadPage` for a listing, or `PageCutOff`, where the loop over the rows ends early. Each service method is an operator of its own
name (`UpdateTemplate`, `DeleteZone`, ...) that says which of these it is made of. What is particular
has actions of its own: `SetTenantPrice`, `SetQuickAdd`, `CheckOutletLimit`,
`DeleteOverrides`, `DeleteFlagRow`, `SetTenantFlag`, `GetZoneFee`, `InsertPickup`. A row
is a key, one column of data and a flag.

### `Accounts`

| code | model |
|---|---|
| `Register`, statement by statement | `Register`, `CheckSlug`, `CheckEmail`, `InsertTenant`, `InsertUser`, `Furnish`, `CommitRegistration`, `AssignFreePlan` |
| `RequestPasswordReset` | `RequestPasswordReset`, `Invalidate` or `InvalidateFails`, `StoreToken` |
| `ResetPassword` | `ResetPassword`, `SetPassword`, `MarkUsed` or `MarkFails` |
| `Login`, `RefreshToken` | one action each, as each makes one query |
| errors and crashes | `Fail` |

### `RateLimiter`

`AllowMemory` and `Cleanup` are one step each, under the mutex of the code; `Incr` and
`Expire` are the two commands to Redis, whose key `rl:<address>` both limiters share.
Each limiter chooses its backend on its own when the process starts. `IncrFails` is an INCR
without an answer, which Redis may have executed all the same; one that the client library
sends again is `IncrFails` and then `Incr`.
`passed` and `counted` only remember what was let through, for the properties; a request
let through because Redis did not answer is in neither.

### `Inventory`

| code | model |
|---|---|
| `supplies`, `stock_movements`, `service_supply_mappings` | `supply`, `ledger` (what the movements add up to), `mapping` |
| `RecordMovement` | `RecordMovement`, `MakeMovement` |
| `autoDeductStockForTransactions`, `DeductStockForOrder` | `DeductSale`, `ReadMappings` per item, `MakeMovement` per mapping |
| an error in these loops | `MovementFails`, `MovementDeadlock` |
| the alert's goroutine, `sendLowStockAlert` of the scheduler | `StartAlert`, `DailyAlert`, `SendLowStockAlert` |

Stock is counted in hundredths and quantities in half hundredths, so that both roundings
of the columns happen. `held[c][s]` is the version of a supply that request `c` has
written, with the movements it has inserted; `written` says that there is one, and is the
row lock.

### `Summaries`

| code | model |
|---|---|
| `time.Ticker`, the loop of `Start` | `Tick` with a channel of one, `Minute`, `RestartServer` |
| `checkAndSendSummaries` | `CheckAndSendSummaries`, `SettingsUnread` |
| `BuildAndSendDailySummary` | `QueryStats`, `SendSummary`, `MarkSent`, `SummaryFails` |
| `NotifyOrderStatus`, `sendAndLog` | `NotifyOrderStatus`, `SendNotice` or `NoticeFails`, `LogNotice` |

A summary ends within the minute after the one in which it was begun (its context has
30 seconds, a call to Fonnte 10). `disturbed` remembers the days on which something
failed or was changed. A tenant without a phone or a token is one whose summary is not
enabled. Fonnte takes a message when it answers with a status below 400
(`notification_service.go:319`): `taken` says no more than that, since the body of the
answer, in which a refusal may be, is not read.

### `Books`

Sales and expenses are posted by one statement each; a report is made statement by
statement (`PnLStep`, `CashFlowStep`, `TaxStep`, `SummaryStep`, `RangeStep`), each of
which sees what is committed by then. A report whose last loop over rows was cut off is
`"short"`. `stirred` says that something was posted meanwhile.

### Compositions

`MC_Administration` puts `Records`, `Accounts` and `RateLimiter` side by side, and
`MC_Operations` `Inventory`, `Summaries` and `Books`. A variable `desk` chooses, in the
first state, which of them a behaviour is about. Nothing is lost by that: the
modules of one composition share no variable, no lock and no key, so that a step of one
neither enables nor disables a step of another, and their interleavings
would only multiply the states. Where two of them write one table, each keeps rows of its
own: a registration (`Accounts`) inserts a tenant, a user, an outlet, payment methods and
prices, as administrators do (`Records`), but all of a tenant that nobody else knows of
before its commit, and its slug and address race only those of other registrations in the
model. What the modules have in common otherwise (the sales, the stock) reaches each as
data that may change at any time.

## 4. What the runs show

| run | question | bounds |
|---|---|---|
| `gateway_safety` | can an item be PAID without money, or money vanish without a known reason? do two requests ever call Xendit for one item at once? does the database implement the ledger? | 2 requests, 1 item, 2 terms, 2 charges, one status word of each class |
| `gateway_liveness` | does every request end, and every payment settle? | as above, 1 term, 2 words, no symmetry |
| `gateway_FailedWebhookIsRetried` | divergence, see below | as `gateway_safety` |
| `order_safety` | do stale steps, failed deductions and deadlocks leave history, row and stock in agreement? is there one order per sale? | 2 requests, 2 orders, 2 sales, 2 supplies used in opposite orders (one twice), 5 history entries |
| `order_liveness` | do requests that wait in a circle end? | the same, 4 history entries |
| `order_TransitionsAllowed` | divergence | 1 order |
| `loyalty_safety` | do points, spending, tier and references stay in agreement? | 2 requests, 2 members, uploads of up to 2 sales, sales that change the tier each time |
| `loyalty_NoOverdraft` | divergence | the same |
| `sales_safety` | one open shift? no sale uncounted? the limit passed by how much? shifts backed by sales? | 2 requests, 2 sales, 1 cashier, 2 shifts, limit 1, 2 months, uploads of up to 2 sales |
| `config_safety` | versions without gaps or twins? may an old catalogue come after a new one, and when? is a broadcast all or nothing? does a device hold what it reports? | 2 requests; broadcasts of nobody, of the first of 2 tenants, of both in either order, and of the first twice; 1 device, 3 versions of one tenant and 1 of the other, 1 change of the catalogue |
| `administration_safety`, records | unique keys, edits that keep what they were not asked to change, listings, overrides, outlets within the plan, fees | 2 requests at a time, 3 in a behaviour, 4 ids, 2 keys, 2 outlets in the plan |
| the same, accounts | whole registrations; when may two reset tokens of one user be good, and when does one set two passwords? | 2 visitors, 4 visits, 3 slugs, 2 addresses, 2 faults |
| the same, limiters | the bound per window in memory and in Redis, counters that end | 2 limiters (limits 1 and 2), each on either backend, 1 client, window 2, 5 instants, counters up to 3, 2 outages |
| `operations_safety`, stock | does the ledger explain the stock? are sales deducted whole? are alerts true? | 2 requests at a time and in a behaviour, 2 other entries, 2 supplies, 1 service, quantities 1 and 2 half hundredths, 2 items |
| the same, daily summaries and messages | one summary a day? none lost for no reason? does the log tell the truth? | 3 days of 2 minutes, 1 mishap, 1 edit, 1 order |
| the same, reports | do the figures of a report agree? do periods abut? | 3 days around a Sunday and the first of a month, 2 sales, 1 expense, 2 outlets, 3 postings |

Why the bounds are enough. A payment item is independent of the others, so one is
enough; two charges let a retry have a second invoice while the first is still being
paid. Two orders with crossed supplies are the smallest deadlock, and a history of five
lets an order be done, overwritten by a stale step, and done again. Two members make a
referral, and uploads of two sales make the second sale of a referred member. A limit of 1 is passed by the first upload that is
late; a second month shows an upload that was checked in one and counted in the other;
two shifts of one cashier show re-linking and the double opening. In `sales_safety` a
device reports sales as completed only: a voided sale lowers a closing sum, which
the property bounds from above.

Symmetry is used in the runs without temporal properties, over sets whose members no
definition tells apart; sales are symmetric in `sales_safety` because one cashier made
them all, and `LedgerSpec` has no liveness part.

Three versions let a settings edit start from the first, a push come second and the edit
third; one tenant with a single version is enough to be the other half of a crossed
broadcast. Three requests on a table are two that race and one that saw what they left.
Two faults are a lost mark and a lost invalidation; five instants are two windows and their
boundary. Two half hundredths are the smallest quantities of which one is rounded and the
other not; a stock of 2 against a threshold of 1 is low after one deduction and negative
after two. Days of two minutes have a summary that is begun before and marked after
midnight, and three of them a day that is undisturbed between two others. A third summary
of one day needs longer days and two edits of the time; there is room for it in the
theorems, which have any number of each. With a sale of 6 units
the tax of one outlet is rounded down to 0 while that of two is 1.

`CHECK_DEADLOCK FALSE` is set for all modules but `GatewayPayments`: orders
end in final statuses and histories are full; members' ids, spending and points are used
up; shifts are used up and the last month's limit is reached; the others stop where the
bounds on their requests, versions, minutes or postings are reached. `GatewayPayments` can
always go on, and is checked for deadlock.

Where a run checks several invariants of one module as one property, the property is the
conjunction of named parts:

| property | parts |
|---|---|
| `CatalogueOfVersions` | `OlderOnlyByOverlap`, `SettingsCarryTheirBase` |
| `DeviceIsConsistent` | `DeviceHoldsItsVersion`, `FreshNotOlderThanConfig` |
| `RecordsConsistent` | `KeysUnique`, `PageCoversCount`, `OverridesHaveFlags`, `OutletOvershootBounded`, `PickupFeeWasListed` |
| `EditsChangeWhatTheyName` | `UnaskedColumnsKept`, `PricesChangeTogether` |
| `AccountsConsistent` | `TenantsComplete`, `OnlyOverlappingTokensLive`, `ResetAgainOnlyByOverlap` |
| `RedisWindows` | `RedisBound`, `OpenCountersExpire` |
| `StockAccounted` | `LedgerExplainsStock`, `SalesDeductWhole` |
| `MessagesRemembered` | `SecondOnlyUnmarked`, `LoggedSentWasTaken` |
| `FiguresAgree` | `BreakdownComplete`, `TaxDriftBounded`, `TodayWithinWeekAndMonth`, `PeriodsAbut` |

### Divergences

* `FailedWebhookIsRetried`: the comment at `gateway_service.go:554` expects Xendit to
  retry a webhook that found no connection. The answer is 200, so it does not.
* `TransitionsAllowed`: `UpdateStatus` checks a status it read without a lock and
  updates by id; of two concurrent steps the second starts from a status that does not
  allow it (`order_service.go:29`, `:373`).
* `NoOverdraft`: two redemptions pass one balance check (`member_service.go:340`).

Seen while modelling, with no run of their own:

A reset token does not work once. `ResetPassword` finds it unused without a lock
(`auth_service.go:311`), sets the password in a later statement (`:335`) and marks it used
after that (`:340`). Two resets that overlap with one token both set the password, although
a used token is to be refused ("token tidak valid atau sudah digunakan", `:317`); and one
that is past its check succeeds after a newer request has invalidated its token ("Invalidate
any existing tokens for this user", `:289`). Neither needs anything to fail. `Accounts` has
both, and `AccountsConsistent` says only what is left of the promise: `shared` remembers that
resets with one token overlapped, `unmarked` that a mark failed, and without one of these a
token sets one password (`ResetAgainOnlyByOverlap`).

No loop over rows looks at `rows.Err()` (`outlet_service.go:46-59` and the other listings,
`expense_service.go:301-312`, `:444-457`). A read that is cut off midway, by the loss of the
connection for one, is answered 200 with fewer rows: `PageCutOff` and the stage `"short"` of
a report. `PageCoversCount`, `BreakdownComplete` and `TaxDriftBounded` are about reads that
came to their end.

A PAID webhook that arrives while the
request that created its charge has not committed yet is acknowledged and recorded
nowhere (`lost` has the value `"unseen"`, and `PaymentAccounted` counts it as a reason);
a PENDING row left by a failed call keeps the terms of the first attempt while the next
call asks Xendit for those of the second; a redemption whose log entry fails is answered
with a discount and rolled back, deduction included (`member_service.go:360` calls this
"Non-fatal"); a shift that is closed twice keeps the later request's sum, which may be
the older one; a sale uploaded again in a later shift is linked to both. Of two pushes
that number the same version one fails on the unique key, although the comment at
`config_service.go:114-115` has the version incremented atomically "to prevent race
conditions": no twin version is made, which is `VersionsGapless`, and the owner has to try again.
A broadcast one of whose pushes failed answers with the versions made before it, none of
which is committed. A summary marked after midnight passes for that of the new day. The
policies of the finance tables (`migrations/00023_finance_module.sql:15`) read a setting
that nothing sets. `RedisBound` is twice the limit, since the windows of the counter do
not slide.

Smaller hazards that no property is about, so that they are not in `hazards`:
* the reset of a payment for a retry keeps the old QR code (`gateway_service.go:229`);
* times in an order's history are taken before the `UPDATE` waits
  (`order_service.go:344`), so that a history sorted by them may differ from the order
  of commits, which is the one that is modelled;
* points are divided by 100 and the remainder is lost (`member_service.go:345`), and an
  owner's edit may write back a tier that a sale has changed since (`:176`);
* a customer is told of a step before it is committed (`notification_service.go:247`);
* a tenant whose free plan could not be assigned has no subscription, and has the limits
  of the free plan all the same (`billing_service.go:81`);
* the comparison with the previous month ends a second early
  (`owner_dashboard_service.go:85`), and a failed query of expenses is shown as none
  (`:146`).

## 5. Fairness

Liveness is checked for `GatewayPayments` and `OrderLifecycle` under `FairSpec`:

* weak fairness of a handler's own next step: goroutines are scheduled, and the HTTP
  client of the gateway has a timeout (`NewGatewayService`), so that a call returns;
* strong fairness of a statement that waits for a row: PostgreSQL queues the waiters of
  a lock, and nobody overtakes for ever;
* weak fairness of the deadlock victim: PostgreSQL looks for deadlocks after
  `deadlock_timeout`;
* strong fairness of a webhook being processed while it is waiting: Xendit repeats it
  until it is answered. `WebhookFails` has no fairness: failures are possible, never
  necessary.

No customer, cashier, owner or device is obliged to do anything, and nothing has to fail.

## 6. What is proved

`GatewayPayments_proofs` proves, for any sets of requests, items, terms, charges and
status words, from `NoChargeAssumption` and `NoticesAssumption` alone:

* `TypeCorrect`, `SingleFlightHolds`, `PaidIsBackedHolds`, `PaidAtIffPaidHolds`,
  `PaymentAccountedHolds`;
* `ImplementsLedger`: `Spec => Ledger!Spec`.

The argument. None of these properties is inductive alone. `TypeInv` adds to the types
that a request that has begun knows its item, that one that holds a lock has written a
row, PENDING until Xendit answers (`RequestsWellFormed`), and that webhooks are of
charges that exist and tell the truth about payment (`HooksHonest`). `SingleFlight`
follows because the upsert waits for the lock. `WorkFollowsRow` is the heart of it:
while a request holds the row, the committed row is what its upsert saw, so that the
version it commits is one that the ledger allows as a successor; it needs
`SingleFlight` (no other request commits in between) and the webhook's wait for the
lock (no webhook does). Their conjunction `SafetyInv` is inductive, and the ledger steps,
`PaidIsBacked` and `PaymentAccounted` follow from it action by action.

`Administration_proofs` proves of `RateLimiter`, for any limiters, limits, clients and windows and with no
bound on time, from `MaxAssumption` and `WindowAssumption`:

* `LimiterTypeCorrect`, `MemoryBoundHolds` and `RedisWindowsHold`.

`MemoryBound` speaks of what has passed in the window, the code looks at what it still
keeps. The link is `Covered`: the attempts kept of a client are finite, no more than the
limit, and include all that passed in the window. It is inductive because the cutoff
only moves forward, so that what a cleanup or an attempt drops is outside of every later
window. The bound then follows from the size of a subset of a finite set.

`RedisWindows` speaks of windows and the code counts in periods of a counter. `PeriodsOK`
says of a running counter that there is a time at which it began, since which it has
counted no more than the limit, as it had before in the window that ended there, and a
window after which it ends at the earliest; a window of the property meets at most one
such beginning. Without a counter the last period is over. It needs that attempts are not
in the future (`PastOnly`), and that a counter whose expiry is still to be set has none
(`OpeningsOK`).

`Administration_proofs` proves of `Accounts`, for any visitors, slugs and addresses, from
`FirstAssumption` and `VisitBoundsAssumption`:

* `AccountsTypeCorrect` and `AccountsStayConsistent`.

`AccountsInv` adds that the tokens are numbered without a gap and are of users that there
are (`TokensCounted`), so that a token made now comes after all that a request has seen;
that a token has set no password as long as it is good, one at most unless resets with it
overlapped or its mark failed, and that a reset in progress with a token that is neither
`shared` nor `unmarked` is the only one;
that a registration has written exactly what comes before its next statement, and the
address that it has taken is free until it commits (`Fits`, `UsersApart`: the unique
index); and that a request for a reset has used up the tokens that it saw before it stores
one of its own, which is why two tokens are only good together when the requests
overlapped. That a token works once is not proved, because it is not so (section 4).

`Administration_proofs` proves of `Records`, for any requests, keys and rows, from
`IdsAssumption`, `KeysAssumption`, `RequestsAssumption`, `OutletsAssumption` and
`RecordBoundsAssumption`:

* `RecordsTypeCorrect`, `RecordsStayConsistent`, `EditsKeepTheRest`;

and from the three invariants, since a step of one of the modules is a stutter of the
others, `AdministrationTypeCorrect` of the composition that the run checks.

The tables promise one thing each, and `RecordsInv` says what open transactions must not
do for these to stay true at a commit. What a request has written over a row has the key
of that row (`WriteFits`), and what it has read and is to write back has it too, although
the rest may be stale (`JobFits`): a key is only ever taken by an insertion. Two rows with
one key are neither committed and written nor written by two requests (`KeysApart`: the
unique index, not the check before it). No override is written while its flag is going
(`GoneAlone`: the foreign key and the wait for it); at the commit of the deletion the
overrides are gone as well. The bound on outlets is inductive in the form of `RoomLeft`:
once the plan is used up, the outlets that count and the requests that have found room are
within the bound together, and no request joins these; before that, one outlet more than
the plan and fewer requests than there are is within it. That an edit writes back what it
read is in `AsAsked`, and that a row is only changed by its holder in `WritersApart`.

`ConfigVersions_proofs` proves, for any requests, tenants,
devices and broadcasts and without a use of the bounds, from `DevicesAssumption` and
`BroadcastsAssumption`, which says only that a broadcast is a list of tenants: it may be
empty and may name a tenant more than once:

* `TypeCorrect`, `VersionsHaveNoGap`, `BroadcastIsAllOrNothing`;
* `CatalogueOfVersionsHolds`, `DeviceIsConsistentHolds`.

`IInv` adds to `VersionsGapless` what the open transactions do. The committed rows of a
tenant, and these with the rows that a request has written for it, are numbered from one
without a gap, and only one request at a time has rows of a tenant that are not committed
(`RowsChain`); what a request has written is exactly what it is going to answer
(`JobFits`); and the number that it is to insert is not above the next one and not of its own rows (`NumberFits`),
so that an `INSERT` that passes the unique key has the next one. That a second writer
cannot come is what that key gives: any two would have the same number, and one `INSERT`
waits for the other. A tenant that is named twice makes its request the second writer of
its own rows, which is the case in which it must see them to go on from.

`CInv` rests on `IInv`. Every version committed later is above all that are there
(`JoiningIsAbove`), and rows are never changed (`RowStays`), so that what was true of the
versions up to the newest one that a request has read stays true of its draft
(`DraftStays`) and of the rows it has written until it commits (`DraftFits`, `FoundFits`
in `RequestFits`). A download that has read a version finds it still there, and no other
download of the device comes between (`OneDownload`).

`OrderLifecycle_proofs` proves, for any users, orders, sales, supplies and recipes, from
`OrdersAssumption`, `NoTransactionAssumption` and `RecipeAssumption`:

* `TypeCorrect`, `HistoryExplains`, `StepsLeaveHistory`, `OneOrder`, `StockFollowsOrders`.

`Inv` adds to the history what a request is about: one that has read an order holds a
status that is in its history, although it may be stale, and histories only grow; one that
has written holds the row that its step makes (`RequestOK`), and is alone in that
(`WritersApart`, the row lock). The stock is not the sum of committed deductions at any
step of the code, because a deduction is a loop; what is preserved is that taken and still
to be taken together are what the sale uses, supply by supply (`Deducting`). When the
request commits, both sides of `MovesMatch` grow by that. `OneOrder` needs `OneOrderInv`:
what an open transaction has inserted for a sale is about the committed order of that
sale, if there is one, since the second `INSERT` waits for the first or fails.

`Loyalty_proofs` proves, for any requests and members, from `NoMemberAssumption`,
`MembersAssumption`, `AmountsAssumption`, `ChosenTiersAssumption` and `BoundsAssumption`:

* `TypeCorrect`, `PointsAreBalanced`, `TiersFollow`, `NoOrphans`.

`PointsBalance` counts the referred members that have bought, which the upload of a first
sale changes in three statements and for several members before it commits. `Awarding`
says where in between a request is: the points that it has written for a member, with the
one that is due next, exceed the committed ones by the number of members whose first sale
it has found. `Deducted` says the same of a redemption. Commits then preserve the balance
because no other request has written the rows (`WritersApart`), and because what a request
has written is a later version of the row that is committed now and not of an older one
(`Follows`).

`SalesSync_proofs` proves, for any requests, sales, cashiers, shifts, months and limits,
from `RequestsAssumption`, `StatusesAssumption`, `LimitAssumption`, `NoShiftAssumption` and
`BoundsAssumption`:

* `TypeCorrect`, `SalesAreCounted`, `ShiftsAreBacked`, `OneShiftOpens`,
  `OvershootIsBounded`.

`Inv` says of each request what it has locked, linked and counted (`RequestOK`): an upload
counts at least the sales that it has locked, and a shift is closed with a sum over links
that are committed and never taken back. `ShiftsInv` strengthens `OneOpenShift`: a request
that has inserted an open shift of a cashier is the only one, and none is committed, which
the unique index gives and the count before it does not. `LimitInv` is what makes the
bound inductive: of a month that has reached its limit, what it holds and what the
requests may bring that have passed the check already are within the bound; after that no
request joins them, and before it the number of requests is enough.

`Operations_proofs` proves of `Inventory`, for any supplies and services and finitely many
requests, from `ClerksAssumption`, `QuantitiesAssumption`, `StockAssumption` and
`TaskBoundsAssumption`:

* `InventoryTypeCorrect`, `StockIsAccounted`, `AlertsAreTrue`.

Both the committed stock and each version that a request has written are near the ledger
they belong to (`Near`), by what one rounding of the stock and one of the movement can
differ (`RoundingBounded`); a commit then puts one such pair in the place of another, and
only one request has a version of a supply, which is why the pair is not stale. That a
sale is deducted whole is `Owing`: what was taken and what is in the movements still to be
made add up to what the mappings asked for, supply by supply, until the request is broken,
after which it commits nothing. Alerts are true because the goroutine reads committed rows
(`LowStock` is among the supplies that were low).

`Operations_proofs` proves of `Summaries`, for any owners and orders, any length of a day
and any number of days, mishaps and edits, from the assumptions of that module:

* `SummariesTypeCorrect`, `MessagesAreRemembered`, `SummaryComes`.

`SummariesInv` follows a tick from the channel on. Summaries under way were begun by
earlier ticks, within the minute (`TicksPast`); the mark in the settings is the latest that
a summary that was taken has made (`MarksLatest`). `Serving` is the heart of it: once the minute
of a summary has come, on a day that nothing has disturbed, its tick is in the channel, or
the summary is under way, or the day has been served; a mark that keeps a summary from
being begun is itself one that serves the day. `SecondOnlyUnmarked` becomes inductive when
it is said of summaries under way too (`Seconds`).
Attempting it showed that `SecondOnlyUnmarked` was too strong as first written: a third
summary of a day, marked after midnight, replaces the mark of the first, and the second,
begun after that, does not find it. The days of the run are too short for this, the model
checker confirmed it with days of three minutes, and the property now names the case.

`Operations_proofs` proves of `Books`, for any amounts and finitely many sales, expenses
and outlets, from `RowsAssumption`, `SpanAssumption` and `MonthAssumption`:

* `BooksTypeCorrect`, `FiguresDoAgree`;

and from the three invariants `OperationsTypeCorrect` of the composition.

`ReadNow` is what makes the agreement inductive: as long as nothing was posted since a
report was begun, each figure that it has read is what the same statement would read now.
The rest is arithmetic of finite sums: a sum over the days of two periods is the sum of
both (`PeriodsAdd`), the sum of the outlets' sums is that of the whole (`SumByGroup`), and
rounding each of them down loses less than one of each (`FloorsOfSum`). `TodayCounts`
needs no such condition, since its three figures come from one statement. `PPN` is the
exact floor, which the `float64` of the code also gives for amounts below 10^14.

`FiniteSums_proofs` holds the lemmas on sums over a finite set that the stock and the
usage and the reports need: a sum does not depend on the order, changes by what one place
changes, is monotone, and is the sum of its groups' sums. They are proved by the least counterexample among the subsets of a set, ordered
by strict inclusion, because the induction theorems of the library take an operator.

About the assumptions on constants that the proofs use. Finitely many orders, members and
rows stand for identifiers of 128 bits; a plan without a limit (`max_outlets` 0,
`billing_service.go:190`) needs no bound, so that `MaxOutlets` is positive; finitely many requests for the 50 connections of
the pool (`cmd/server/main.go:52`), without one of which a request does not begin. The
mark `"-"` of a sale that is not stored is a value of the model and no status of the code.

Only model-checked: liveness and anything under fairness (`gateway_liveness`,
`order_liveness`), which is out of reach of this prover, as is ENABLED. No property needs
recursion over data.

## 7. What is not modelled

* Reads that change nothing: look-ups, analytics, monitoring, exports, the streams of
  the dashboard. Lists are modelled where they count and read in two statements, with a page that
  all rows fit on.
* Logs that nothing reads back into a decision: audit, staff activity, sync sessions.
* Inserts and upserts of one row that decide nothing: categories of supplies and
  expenses, recurring expenses, goals.
* `RequestPickup` (`order_handler.go`) has a handler and no route;
  `ProcessDueRecurring` has no caller.
* Amounts, names, texts: amounts are small numbers, or `terms`, or nothing where
  only equality matters. Histories are in the order of commits, not of timestamps.
* The connection pool: a request that has begun has its connection.
* The role that the service has in the database. The models take it that a query sees
  the rows of the tenant that it names.
* Tenants are independent of one another, so that each module models one, except for
  `ConfigVersions`, `Accounts` and `Records`, where a broadcast, slugs and the
  administrator's tables concern several.
