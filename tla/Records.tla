------------------------------- MODULE Records -------------------------------
(***************************************************************************)
(* The records that owners and administrators keep: service categories and *)
(* templates, outlets, payment methods, delivery zones, users, tenants and *)
(* feature flags, with the prices and quick-add marks of a tenant, its     *)
(* flag overrides and the pickup requests that take their fee from a zone. *)
(*                                                                         *)
(* Each request is one transaction at READ COMMITTED (TenantIsolation).  A *)
(* request that has written a row holds it until it ends, and a statement  *)
(* that needs the row waits: a disabled action is a statement that waits.  *)
(* Most edits are a SELECT of the whole row, a merge of the fields given,  *)
(* and an UPDATE of all its columns.                                       *)
(***************************************************************************)
EXTENDS Integers, Sequences, FiniteSets, TLC

CONSTANTS
    Requests,      \* slots for requests in progress
    Ids,           \* ids of rows, the same ones for every table
    Keys,          \* what slugs, e-mail addresses and flag keys are taken from
    Scopes,        \* the groups of tables that a behaviour may be about
    MaxOutlets,    \* outlets that the tenant's plan allows
    MaxEdits       \* bound on the requests of a behaviour

ASSUME IdsAssumption == Ids \subseteq Nat /\ 1 \in Ids /\ IsFiniteSet(Ids)
ASSUME KeysAssumption == Keys # {}
ASSUME RequestsAssumption == IsFiniteSet(Requests) /\ Requests # {}
ASSUME OutletsAssumption == MaxOutlets \in Nat \ {0}    \* 0 stands for no limit in the code
ASSUME RecordBoundsAssumption == MaxEdits \in Nat

VARIABLES
    scope,      \* the tables that the requests of this behaviour are about
    row,        \* row[t][i]: the committed row i of table t, or Absent
    work,       \* work[r][t][i]: what r has written there, or Unwritten
    pc, job,    \* how far a request has come, and what it is about
    edits,      \* requests begun
    exempt,     \* outlets that were not put in use by an owner's Create
    listed      \* listed[z]: the fees that zone z has had while in use

recordVars == <<scope, row, work, pc, job, edits, exempt, listed>>

\* The tables whose key is UNIQUE, and those whose rows are listed by pages.
Keyed == {"user", "tenant", "flag"}
Paged == {"category", "template", "outlet", "method", "user", "tenant"}
Tables == Keyed \cup Paged \cup {"zone", "price", "override", "pickup"}

\* A row.  "key" is its unique key, or the zone of a pickup request; "data" a
\* column that requests may set, among them the base price of a template, the
\* price of a tenant, the fee of a zone and of a pickup; "active" is is_active,
\* default_enabled of a flag, enabled of an override, is_quick_add of a price
\* and "not completed" of a pickup.
NoKey == 0
Rows == [key: {NoKey} \cup Keys \cup Ids, data: 0 .. 1, active: BOOLEAN]
Absent == [key |-> NoKey, data |-> 2, active |-> FALSE]
Gone == [key |-> NoKey, data |-> 3, active |-> FALSE]         \* its id is not used again
Unwritten == [key |-> NoKey, data |-> 4, active |-> FALSE]
Exists(x) == x \notin {Absent, Gone}

\* What an update may ask for: the columns that it gives.
Asks == [data: 0 .. 1] \cup [active: BOOLEAN]

NoJob == [op |-> "none", table |-> "none", ids |-> <<>>, key |-> NoKey,
          ask |-> [data |-> 0], read |-> Absent, total |-> 0, page |-> {}]

RecordsTypeOK ==
    /\ scope \in Scopes
    /\ row \in [Tables -> [Ids -> Rows \cup {Absent, Gone}]]
    /\ work \in [Requests -> [Tables -> [Ids -> Rows \cup {Absent, Gone, Unwritten}]]]
    /\ \A r \in Requests :
          /\ pc[r] \in {"idle", "read", "merge", "delete", "check", "insert", "count", "page",
                        "upsert", "overrides", "flag", "fee", "done", "failed"}
          /\ job[r].ids \in Seq(Ids) /\ job[r].ask \in Asks /\ job[r].read \in Rows \cup {Absent, Gone}
          /\ pc[r] = "merge" => job[r].read \in Rows
    /\ edits \in 0 .. MaxEdits
    /\ exempt \subseteq Ids
    /\ listed \in [Ids -> SUBSET (0 .. 1)]

\* Every table but the prices, the overrides and the pickups starts with row 1.
Seeded(t) == t \in Keyed \cup Paged \cup {"zone"}
NoWork == [t \in Tables |-> [i \in Ids |-> Unwritten]]

RecordsInit ==
    /\ scope \in Scopes
    /\ row = [t \in Tables |-> [i \in Ids |->
                 IF i = 1 /\ Seeded(t)
                 THEN [key |-> IF t \in Keyed THEN CHOOSE k \in Keys : TRUE ELSE NoKey,
                       data |-> 0, active |-> TRUE]
                 ELSE Absent]]
    /\ work = [r \in Requests |-> NoWork]
    /\ pc = [r \in Requests |-> "idle"]
    /\ job = [r \in Requests |-> NoJob]
    /\ edits = 0
    /\ exempt = {}
    /\ listed = [z \in Ids |-> IF z = 1 THEN {0} ELSE {}]

-----------------------------------------------------------------------------
\* The row of a table as a statement of r sees it.
Seen(r, t, i) == IF work[r][t][i] = Unwritten THEN row[t][i] ELSE work[r][t][i]

\* Another request has written the row and not ended yet.
Held(r, t, i) == \E q \in Requests \ {r} : work[q][t][i] # Unwritten

Id(r) == Head(job[r].ids)
Table(r) == job[r].table

\* An id that no row has, committed or not.
Unused(t) == {i \in Ids : row[t][i] = Absent /\ \A q \in Requests : work[q][t][i] = Unwritten}
Fresh(t) == CHOOSE i \in Unused(t) : \A j \in Unused(t) : i <= j

Begin(r, at, j) ==
    /\ pc[r] = "idle"
    /\ edits < MaxEdits
    /\ j.table \in scope
    /\ edits' = edits + 1
    /\ pc' = [pc EXCEPT ![r] = at]
    /\ job' = [job EXCEPT ![r] = j]
    /\ UNCHANGED <<scope, row, work, exempt, listed>>

Go(r, to, j) ==
    /\ pc' = [pc EXCEPT ![r] = to]
    /\ job' = [job EXCEPT ![r] = j]
    /\ UNCHANGED <<scope, row, work, edits, exempt, listed>>

Write(r, to, t, i, x) ==
    /\ work' = [work EXCEPT ![r][t][i] = x]
    /\ pc' = [pc EXCEPT ![r] = to]
    /\ UNCHANGED <<scope, row, job, edits, exempt, listed>>

\* A statement fails: the transaction is aborted and what it wrote is gone.
Break(r) ==
    /\ pc' = [pc EXCEPT ![r] = "failed"]
    /\ work' = [work EXCEPT ![r] = NoWork]
    /\ UNCHANGED <<scope, row, job, edits, exempt, listed>>

-----------------------------------------------------------------------------
(***************************************************************************)
(* What the operations are made of.                                        *)
(***************************************************************************)
JobOn(op, t, i) == [NoJob EXCEPT !.op = op, !.table = t, !.ids = <<i>>]

Updating(r, t, i, ask) == Begin(r, "read", [JobOn("update", t, i) EXCEPT !.ask = ask])
Deleting(r, t, i) == Begin(r, "delete", [JobOn("delete", t, i) EXCEPT !.ask = [active |-> FALSE]])
Creating(r, t) == Begin(r, "insert", [NoJob EXCEPT !.op = "create", !.table = t])
CreatingKeyed(r, t, k) == Begin(r, "check", [NoJob EXCEPT !.op = "create", !.table = t, !.key = k])
Listing(r, t) == Begin(r, "count", [NoJob EXCEPT !.op = "list", !.table = t])

\* Mutant of ReadRow: no row is not an error.
ReadRowUnchecked(r) ==
    /\ pc[r] = "read"
    /\ Go(r, "merge", [job[r] EXCEPT !.read = row[Table(r)][Id(r)]])

\* The SELECT of an update: 404 without a row.
ReadRow(r) ==
    /\ pc[r] = "read"
    /\ Go(r, IF Exists(row[Table(r)][Id(r)]) THEN "merge" ELSE "done",
          [job[r] EXCEPT !.read = row[Table(r)][Id(r)]])

\* Mutant of Merged: a request that does not say is_active means true.
MergedActive(ask, read) == ask @@ [read EXCEPT !.active = TRUE]

\* The fields that are given replace those that were read.
Merged(ask, read) == [c \in DOMAIN read |-> IF c \in DOMAIN ask THEN ask[c] ELSE read[c]]

\* The UPDATE of all columns.  A row that was deleted since is not updated.
MergeRow(r) ==
    /\ pc[r] = "merge"
    /\ ~Held(r, Table(r), Id(r))
    /\ IF ~Exists(row[Table(r)][Id(r)])
       THEN Go(r, "done", job[r])
       ELSE Write(r, "done", Table(r), Id(r), Merged(job[r].ask, job[r].read))

\* A deletion keeps the row and takes it out of use, in one UPDATE.
SetActive(r) ==
    /\ pc[r] = "delete"
    /\ ~Held(r, Table(r), Id(r))
    /\ IF ~Exists(row[Table(r)][Id(r)])
       THEN Go(r, "done", job[r])
       ELSE Write(r, "done", Table(r), Id(r),
                  [row[Table(r)][Id(r)] EXCEPT !.active = job[r].ask.active])

KeyHeld(r, t, k) == \E q \in Requests \ {r} : \E i \in Ids :
                        Exists(work[q][t][i]) /\ work[q][t][i].key = k
KeyTaken(t, k) == \E i \in Ids : Exists(row[t][i]) /\ row[t][i].key = k

\* SELECT EXISTS: 409 when the key is taken.
CheckKey(r) ==
    /\ pc[r] = "check" /\ job[r].op = "create"
    /\ Go(r, IF KeyTaken(Table(r), job[r].key) THEN "done" ELSE "insert", job[r])

\* Mutant of InsertRow: the key is not UNIQUE in the database.
InsertUnchecked(r) ==
    /\ pc[r] = "insert" /\ job[r].op # "pickup"
    /\ Unused(Table(r)) # {}
    /\ Write(r, "done", Table(r), Fresh(Table(r)),
             [key |-> job[r].key, data |-> 0, active |-> TRUE])

\* The INSERT, which waits for one of the same key and fails when that commits.
InsertRow(r) ==
    /\ pc[r] = "insert" /\ job[r].op # "pickup"
    /\ Unused(Table(r)) # {}
    /\ Table(r) \in Keyed => ~KeyHeld(r, Table(r), job[r].key)
    /\ IF Table(r) \in Keyed /\ KeyTaken(Table(r), job[r].key)
       THEN Break(r)
       ELSE Write(r, "done", Table(r), Fresh(Table(r)),
                  [key |-> job[r].key, data |-> 0, active |-> TRUE])

\* A listing counts the rows, in use or not, and then reads the page of them:
\* here the first page, with a LIMIT that all rows are within.
CountRows(r) ==
    /\ pc[r] = "count"
    /\ Go(r, "page", [job[r] EXCEPT !.total = Cardinality({i \in Ids : Exists(row[Table(r)][i])})])

\* Mutant of ReadPage: only the page leaves out what is not in use.
ReadActivePage(r) ==
    /\ pc[r] = "page"
    /\ Go(r, "done", [job[r] EXCEPT !.page = {i \in Ids : Exists(row[Table(r)][i])
                                                           /\ row[Table(r)][i].active}])

ReadPage(r) ==
    /\ pc[r] = "page"
    /\ Go(r, "done", [job[r] EXCEPT !.page = {i \in Ids : Exists(row[Table(r)][i])}])

\* The loop over the rows takes a read that is cut off midway for the end of
\* them: a short page is answered, in a transaction that is aborted.
PageCutOff(r) ==
    /\ pc[r] = "page"
    /\ \E page \in SUBSET {i \in Ids : Exists(row[Table(r)][i])} :
          Go(r, "failed", [job[r] EXCEPT !.page = page])

-----------------------------------------------------------------------------
(***************************************************************************)
(* Service categories and templates.                                       *)
(***************************************************************************)
ListCategories(r) == Listing(r, "category")
CreateCategory(r) == Creating(r, "category")
UpdateCategory(r, i, ask) == Updating(r, "category", i, ask)
DeleteCategory(r, i) == Deleting(r, "category", i)

ListTemplates(r) == Listing(r, "template")
CreateTemplate(r) == Creating(r, "template")
UpdateTemplate(r, i, ask) == Updating(r, "template", i, ask)
DeleteTemplate(r, i) == Deleting(r, "template", i)

CategoryRequest(r) ==
    \/ ListCategories(r)
    \/ CreateCategory(r)
    \/ \E i \in Ids : (\E ask \in Asks : UpdateCategory(r, i, ask)) \/ DeleteCategory(r, i)

TemplateRequest(r) ==
    \/ ListTemplates(r)
    \/ CreateTemplate(r)
    \/ \E i \in Ids : (\E ask \in Asks : UpdateTemplate(r, i, ask)) \/ DeleteTemplate(r, i)

(***************************************************************************)
(* The prices of a tenant: an upsert for each template of the request.     *)
(***************************************************************************)
Priced(ids) == [NoJob EXCEPT !.op = "price", !.table = "price", !.ids = ids]

\* BulkSetPrices calls SetTenantPrice in turn, and stops at the first error.
BulkSetPrices(r, ids) == Begin(r, "upsert", Priced(ids))
SetPrice(r, i) == Begin(r, "upsert", Priced(<<i>>))

\* INSERT ... ON CONFLICT DO UPDATE, here of price 1; a template that does not
\* exist fails the statement.
SetTenantPrice(r) ==
    /\ pc[r] = "upsert" /\ job[r].op = "price"
    /\ ~Held(r, "price", Id(r))
    /\ IF ~Exists(row["template"][Id(r)])
       THEN Break(r)
       ELSE /\ work' = [work EXCEPT ![r]["price"][Id(r)] =
                           [key |-> NoKey, data |-> 1, active |-> Seen(r, "price", Id(r)).active]]
            /\ job' = [job EXCEPT ![r].ids = Tail(@)]
            /\ pc' = [pc EXCEPT ![r] = IF Tail(job[r].ids) = <<>> THEN "done" ELSE "upsert"]
            /\ UNCHANGED <<scope, row, edits, exempt, listed>>

\* Mutant of SetQuickAdd: the conflict clause sets the price as the insert does.
SetQuickAddAndPrice(r) ==
    /\ pc[r] = "upsert" /\ job[r].op = "quick add"
    /\ ~Held(r, "price", Id(r))
    /\ IF ~Exists(row["template"][Id(r)])
       THEN Break(r)
       ELSE Write(r, "done", "price", Id(r), [key |-> NoKey, data |-> row["template"][Id(r)].data,
                                              active |-> job[r].ask.active])

\* The mark alone; where the tenant has no price yet, one is made of the base
\* price of the moment.
SetQuickAdd(r) ==
    /\ pc[r] = "upsert" /\ job[r].op = "quick add"
    /\ ~Held(r, "price", Id(r))
    /\ IF ~Exists(row["template"][Id(r)])
       THEN Break(r)
       ELSE Write(r, "done", "price", Id(r),
                  [key |-> NoKey, active |-> job[r].ask.active,
                   data |-> IF row["price"][Id(r)] = Absent THEN row["template"][Id(r)].data
                                                            ELSE row["price"][Id(r)].data])

PriceRequest(r) ==
    \/ \E i \in Ids : SetPrice(r, i)
    \/ \E i, j \in Ids : i # j /\ BulkSetPrices(r, <<i, j>>)
    \/ \E i \in Ids, on \in BOOLEAN :
          Begin(r, "upsert", [JobOn("quick add", "price", i) EXCEPT !.ask = [active |-> on]])

-----------------------------------------------------------------------------
(***************************************************************************)
(* Outlets, payment methods, users and tenants.                            *)
(***************************************************************************)
ListOutlets(r) == Listing(r, "outlet")
CreateOutlet(r) == Creating(r, "outlet")
UpdateOutlet(r, i, ask) == Updating(r, "outlet", i, ask)
DeleteOutlet(r, i) == Deleting(r, "outlet", i)

\* The owner's Create first counts the outlets in use against the plan.
OwnerCreateOutlet(r) ==
    Begin(r, "check", [NoJob EXCEPT !.op = "owner create", !.table = "outlet"])

\* Mutant of CheckOutletLimit: one outlet too many.
CheckOutletLimitLate(r) ==
    /\ pc[r] = "check" /\ job[r].op = "owner create"
    /\ Go(r, IF Cardinality({i \in Ids : row["outlet"][i].active}) > MaxOutlets
             THEN "done" ELSE "insert",
          job[r])

CheckOutletLimit(r) ==
    /\ pc[r] = "check" /\ job[r].op = "owner create"
    /\ Go(r, IF Cardinality({i \in Ids : row["outlet"][i].active}) >= MaxOutlets
             THEN "done" ELSE "insert",
          job[r])

OutletRequest(r) ==
    \/ ListOutlets(r)
    \/ CreateOutlet(r)
    \/ OwnerCreateOutlet(r)
    \/ \E i \in Ids : (\E ask \in Asks : UpdateOutlet(r, i, ask)) \/ DeleteOutlet(r, i)

ListMethods(r) == Listing(r, "method")
CreateMethod(r) == Creating(r, "method")
UpdateMethod(r, i, ask) == Updating(r, "method", i, ask)
DeleteMethod(r, i) == Deleting(r, "method", i)

MethodRequest(r) ==
    \/ ListMethods(r)
    \/ CreateMethod(r)
    \/ \E i \in Ids : (\E ask \in Asks : UpdateMethod(r, i, ask)) \/ DeleteMethod(r, i)

ListUsers(r) == Listing(r, "user")
ListCashiers(r) == Listing(r, "user")
CreateUser(r, k) == CreatingKeyed(r, "user", k)
UpdateUser(r, i, ask) == Updating(r, "user", i, ask)

\* UserHandler.Delete is an update that asks for is_active = false.
DeleteUser(r, i) == UpdateUser(r, i, [active |-> FALSE])

UserRequest(r) ==
    \/ ListUsers(r)
    \/ \E k \in Keys : CreateUser(r, k)
    \/ \E i \in Ids : (\E ask \in Asks : UpdateUser(r, i, ask)) \/ DeleteUser(r, i)

\* The cashiers of an owner are users.
CashierRequest(r) ==
    \/ ListCashiers(r)
    \/ \E k \in Keys : CreateUser(r, k)
    \/ \E i \in Ids, ask \in Asks : UpdateUser(r, i, ask)

ListTenants(r) == Listing(r, "tenant")
CreateTenant(r, k) == CreatingKeyed(r, "tenant", k)
UpdateTenant(r, i, ask) == Updating(r, "tenant", i, ask)
DeleteTenant(r, i) == Deleting(r, "tenant", i)

TenantRequest(r) ==
    \/ ListTenants(r)
    \/ \E k \in Keys : CreateTenant(r, k)
    \/ \E i \in Ids : (\E ask \in Asks : UpdateTenant(r, i, ask)) \/ DeleteTenant(r, i)

-----------------------------------------------------------------------------
(***************************************************************************)
(* Feature flags and their overrides.                                      *)
(***************************************************************************)
CreateFlag(r, k) == CreatingKeyed(r, "flag", k)
UpdateFlag(r, i, ask) == Updating(r, "flag", i, ask)
DeleteFlag(r, i) == Begin(r, "overrides", JobOn("delete", "flag", i))

\* The first DELETE sees only overrides that are committed, and waits for those.
DeleteOverrides(r) ==
    /\ pc[r] = "overrides"
    /\ IF row["override"][Id(r)] = Absent
       THEN Go(r, "flag", job[r])
       ELSE /\ ~Held(r, "override", Id(r))
            /\ Write(r, "flag", "override", Id(r), Absent)

\* Mutant of DeleteFlagRow: the foreign key does not cascade.
DeleteFlagRowOnly(r) ==
    /\ pc[r] = "flag"
    /\ ~Held(r, "flag", Id(r)) /\ ~Held(r, "override", Id(r))
    /\ IF ~Exists(row["flag"][Id(r)])
       THEN Go(r, "done", job[r])
       ELSE Write(r, "done", "flag", Id(r), Gone)

\* The DELETE of the flag waits for overrides that are being made, and cascades
\* to those that were made since.
DeleteFlagRow(r) ==
    /\ pc[r] = "flag"
    /\ ~Held(r, "flag", Id(r)) /\ ~Held(r, "override", Id(r))
    /\ IF ~Exists(row["flag"][Id(r)])
       THEN Go(r, "done", job[r])
       ELSE /\ work' = [work EXCEPT ![r]["flag"][Id(r)] = Gone, ![r]["override"][Id(r)] = Absent]
            /\ pc' = [pc EXCEPT ![r] = "done"]
            /\ UNCHANGED <<scope, row, job, edits, exempt, listed>>

\* An upsert, which fails when the flag is gone and waits while it is going.
SetTenantFlag(r) ==
    /\ pc[r] = "upsert" /\ job[r].op = "override"
    /\ ~Held(r, "override", Id(r))
    /\ \A q \in Requests \ {r} : work[q]["flag"][Id(r)] # Gone
    /\ IF ~Exists(row["flag"][Id(r)])
       THEN Break(r)
       ELSE Write(r, "done", "override", Id(r),
                  [key |-> NoKey, data |-> 0, active |-> job[r].ask.active])

FlagRequest(r) ==
    \/ \E k \in Keys : CreateFlag(r, k)
    \/ \E i \in Ids : (\E ask \in Asks : UpdateFlag(r, i, ask)) \/ DeleteFlag(r, i)

OverrideRequest(r) ==
    \E i \in Ids, on \in BOOLEAN :
        Begin(r, "upsert", [JobOn("override", "override", i) EXCEPT !.ask = [active |-> on]])

-----------------------------------------------------------------------------
(***************************************************************************)
(* Delivery zones and pickup requests.                                     *)
(***************************************************************************)
CreateZone(r) == Creating(r, "zone")
UpdateZone(r, i, ask) == Updating(r, "zone", i, ask)
DeleteZone(r, i) == Deleting(r, "zone", i)

ZoneRequest(r) ==
    \/ CreateZone(r)
    \/ \E i \in Ids : (\E ask \in Asks : UpdateZone(r, i, ask)) \/ DeleteZone(r, i)

\* Mutant of GetZoneFee: the fee of a zone that is not in use will do.
GetAnyZoneFee(r) ==
    /\ pc[r] = "fee"
    /\ Go(r, IF row["zone"][job[r].key] = Absent THEN "done" ELSE "insert",
          [job[r] EXCEPT !.read = row["zone"][job[r].key]])

\* The fee of a zone in use, else 404.
GetZoneFee(r) ==
    /\ pc[r] = "fee"
    /\ LET zone == row["zone"][job[r].key]
       IN Go(r, IF zone # Absent /\ zone.active THEN "insert" ELSE "done",
             [job[r] EXCEPT !.read = zone])

InsertPickup(r) ==
    /\ pc[r] = "insert" /\ job[r].op = "pickup"
    /\ Unused("pickup") # {}
    /\ Write(r, "done", "pickup", Fresh("pickup"),
             [key |-> job[r].key, data |-> job[r].read.data, active |-> TRUE])

CreatePickupRequest(r, z) ==
    Begin(r, "fee", [NoJob EXCEPT !.op = "pickup", !.table = "pickup", !.key = z])

\* Any status, after any other, in one UPDATE; completed_at is set by "completed" and cleared
\* by the others.
UpdatePickupRequestStatus(r, i, ask) ==
    Begin(r, "delete", [JobOn("status", "pickup", i) EXCEPT !.ask = ask])

PickupRequest(r) ==
    \/ \E z \in Ids : CreatePickupRequest(r, z)
    \/ \E i \in Ids, ask \in [active: BOOLEAN] : UpdatePickupRequestStatus(r, i, ask)

-----------------------------------------------------------------------------
\* Two requests that price the same templates in opposite orders.
WaitsFor(r, q) ==
    /\ pc[r] = "upsert" /\ job[r].op = "price"
    /\ work[q]["price"][Id(r)] # Unwritten
DeadlockVictim(r) ==
    /\ \E q \in Requests \ {r} : WaitsFor(r, q) /\ WaitsFor(q, r)
    /\ Break(r)

End(r) ==
    /\ pc' = [pc EXCEPT ![r] = "idle"]
    /\ job' = [job EXCEPT ![r] = NoJob]
    /\ work' = [work EXCEPT ![r] = NoWork]
    /\ UNCHANGED <<scope, edits>>

\* TenantIsolation commits when the handler has answered, whatever the answer.
Commit(r) ==
    /\ pc[r] = "done"
    /\ row' = [t \in Tables |-> [i \in Ids |-> Seen(r, t, i)]]
    /\ exempt' = IF job[r].op = "owner create" THEN exempt
                 ELSE exempt \cup {i \in Ids : row'["outlet"][i].active /\ ~row["outlet"][i].active}
    /\ listed' = [z \in Ids |-> IF row'["zone"][z].active
                                THEN listed[z] \cup {row'["zone"][z].data} ELSE listed[z]]
    /\ End(r)

\* An aborted transaction, or a client that goes away before the end.
RollBack(r) ==
    /\ pc[r] # "idle"
    /\ End(r)
    /\ UNCHANGED <<row, exempt, listed>>

RecordsStep(r) ==
    \/ ReadRow(r) \/ MergeRow(r) \/ SetActive(r)
    \/ CheckKey(r) \/ CheckOutletLimit(r) \/ InsertRow(r)
    \/ CountRows(r) \/ ReadPage(r) \/ PageCutOff(r)
    \/ SetTenantPrice(r) \/ SetQuickAdd(r) \/ SetTenantFlag(r)
    \/ DeleteOverrides(r) \/ DeleteFlagRow(r)
    \/ GetZoneFee(r) \/ InsertPickup(r)
    \/ DeadlockVictim(r) \/ Commit(r) \/ RollBack(r)

RecordsNext ==
    \E r \in Requests :
        \/ CategoryRequest(r) \/ TemplateRequest(r) \/ PriceRequest(r)
        \/ OutletRequest(r) \/ MethodRequest(r)
        \/ UserRequest(r) \/ CashierRequest(r) \/ TenantRequest(r)
        \/ FlagRequest(r) \/ OverrideRequest(r)
        \/ ZoneRequest(r) \/ PickupRequest(r)
        \/ RecordsStep(r)

RecordsSpec == RecordsInit /\ [][RecordsNext]_recordVars

-----------------------------------------------------------------------------
(***************************************************************************)
(* Properties.                                                             *)
(***************************************************************************)
\* An edit changes a column that it was not asked to change only if the row was
\* changed between its SELECT and its UPDATE: nothing else can undo a deletion
\* or an edit (the Update methods, as service_template_service.go:85-122).
UnaskedColumnsKept ==
    [][\A r \in Requests :
          pc[r] = "done" /\ job[r].op = "update" /\ pc'[r] = "idle" =>
             LET before == row[Table(r)][Id(r)]
                 after == row'[Table(r)][Id(r)]
             IN before = job[r].read =>
                   \A c \in {"data", "active"} : after[c] # before[c] => c \in DOMAIN job[r].ask
      ]_recordVars

\* One tenant per slug, one user per address, one flag per key, also when two
\* requests find the key free (tenant_service.go:85-93, user_service.go:61-69,
\* feature_flag_service.go:51-60).
KeysUnique ==
    \A t \in Keyed : \A i, j \in Ids :
        Exists(row[t][i]) /\ Exists(row[t][j]) /\ row[t][i].key = row[t][j].key => i = j

\* A listing that was read to its end shows at least the rows that its total
\* counts: what is created meanwhile may be shown uncounted, nothing is counted
\* and missing (service_template_service.go:32-44 and the other listings).
PageCoversCount ==
    \A r \in Requests :
        pc[r] = "done" /\ job[r].op = "list" => job[r].total <= Cardinality(job[r].page)

\* No override of a flag that is deleted, though the deletion of the overrides
\* and of the flag are two statements (feature_flag_service.go:110-126).
OverridesHaveFlags ==
    \A i \in Ids : Exists(row["override"][i]) => Exists(row["flag"][i])

\* A price changes by a request to set it, that has by then set every price it
\* was asked for; marking a service for quick add only makes a price where there
\* is none (service_price_handler.go:113-143, service_template_service.go:325-341).
PricesChangeTogether ==
    [][\A r \in Requests, i \in Ids :
          /\ pc[r] = "done" /\ pc'[r] = "idle" /\ row' # row
          /\ row'["price"][i].data # row["price"][i].data
          => \/ job[r].op = "price" /\ job[r].ids = <<>>
             \/ job[r].op = "quick add" /\ ~Exists(row["price"][i])]_recordVars

\* An edit changes what it names, whole, and nothing else.
EditsChangeWhatTheyName == UnaskedColumnsKept /\ PricesChangeTogether

\* The outlets in use exceed the plan by no more than the requests that found
\* room at the same time, and the outlets that an administrator made or that
\* were put back in use, which nobody checks (owner/outlet_handler.go:42-69,
\* outlet_service.go:104-134).
OutletOvershootBounded ==
    Cardinality({i \in Ids \ exempt : row["outlet"][i].active})
        <= MaxOutlets + Cardinality(Requests) - 1

\* A pickup request carries a fee that its zone had at some time while in use,
\* whatever became of the zone meanwhile (delivery_service.go:254-307).
PickupFeeWasListed ==
    \A i \in Ids : Exists(row["pickup"][i]) => row["pickup"][i].data \in listed[row["pickup"][i].key]

\* What the tables, and the answers made from them, promise of one another while
\* each request checks in one statement and writes in a later one.
RecordsConsistent ==
    /\ KeysUnique
    /\ PageCoversCount
    /\ OverridesHaveFlags
    /\ OutletOvershootBounded
    /\ PickupFeeWasListed
=============================================================================
