--------------------------- MODULE ConfigVersions ---------------------------
(***************************************************************************)
(* Configuration versions: pushes and broadcasts of a snapshot of the      *)
(* catalogue, edits of the store settings (config_service.go), and the     *)
(* devices of the tenants, that download them (SyncService.Download).      *)
(* Each request is one PostgreSQL transaction at READ COMMITTED: every     *)
(* statement sees what was committed when it began, a row that a request   *)
(* has inserted is seen by others once it commits, and an INSERT of a key  *)
(* (tenant_id, version) that an open transaction holds waits for its end.  *)
(*                                                                         *)
(* What a snapshot holds is modelled by how recent it is: "edition" counts *)
(* the committed changes of services, prices, categories, members and      *)
(* flags, and a part of a snapshot is the edition at which it was read.    *)
(***************************************************************************)
EXTENDS Integers, Sequences, FiniteSets

CONSTANTS
    Requests,      \* slots for requests in progress
    Tenants,       \* tenants
    Devices,       \* the tenants with a device
    Broadcasts,    \* the lists of tenants that one request pushes to
    MaxEdition,    \* bound on the changes of the catalogue
    MaxVersions    \* MaxVersions[t]: bound on the versions of t

ASSUME DevicesAssumption == Devices \subseteq Tenants
ASSUME BroadcastsAssumption == Broadcasts \subseteq Seq(Tenants)
ASSUME BoundsAssumption == MaxEdition \in Nat /\ MaxVersions \in [Tenants -> Nat]

VARIABLES
    edition,    \* how many changes of the catalogue are committed
    config,     \* config[t]: the committed config_versions rows of t
    device,     \* device[t]: what the device of t holds
    pc, job,    \* how far a request has come, and what it is about
    work        \* work[r][t]: the rows of t that r has inserted

vars == <<edition, config, device, pc, job, work>>

\* A config_versions row.  "base" is the newest version when its request first
\* read the database, "by" the kind of that request.
Rows == [version: Nat, services: Nat, flags: Nat, base: Nat, by: {"push", "settings"}]
NoConfig == [version |-> 0, services |-> 0, flags |-> 0, base |-> 0, by |-> "push"]

\* "asked" lists the tenants that a request is about, a tenant as often as its
\* list names it, and "answered" the versions that it has made for the first ones.
Jobs == [kind: {"none", "push", "settings", "download"},
         asked: Seq(Tenants), answered: Seq(Rows),
         services: Nat, flags: Nat, base: Nat, version: Nat, found: Rows]
NoJob == [kind |-> "none", asked |-> <<>>, answered |-> <<>>,
          services |-> 0, flags |-> 0, base |-> 0, version |-> 0, found |-> NoConfig]

TypeOK ==
    /\ edition \in Nat
    /\ config \in [Tenants -> SUBSET Rows]
    /\ device \in [Devices -> [version: Nat, config: Rows, services: Nat]]
    /\ pc \in [Requests -> {"idle", "services", "flags", "number", "insert", "settings",
                            "config", "fresh", "done", "failed"}]
    /\ job \in [Requests -> Jobs]
    /\ work \in [Requests -> [Tenants -> SUBSET Rows]]

Nothing == [t \in Tenants |-> {}]

Init ==
    /\ edition = 0
    /\ config = Nothing
    /\ device = [t \in Devices |-> [version |-> 0, config |-> NoConfig, services |-> 0]]
    /\ pc = [r \in Requests |-> "idle"]
    /\ job = [r \in Requests |-> NoJob]
    /\ work = [r \in Requests |-> Nothing]

-----------------------------------------------------------------------------
Versions(rows) == {x.version : x \in rows}

\* COALESCE(MAX(version), 0) over the rows that a statement sees.
Newest(rows) == CHOOSE n \in Versions(rows) \cup {0} : \A m \in Versions(rows) : m <= n

\* The tenant that request r is at, and the versions of it that r sees: what was
\* committed, and the rows of its own.
Target(r) == job[r].asked[Len(job[r].answered) + 1]
Seen(r) == config[Target(r)] \cup work[r][Target(r)]

Go(r, to, j) ==
    /\ pc' = [pc EXCEPT ![r] = to]
    /\ job' = [job EXCEPT ![r] = j]
    /\ UNCHANGED <<edition, config, device, work>>

End(r) ==
    /\ pc' = [pc EXCEPT ![r] = "idle"]
    /\ job' = [job EXCEPT ![r] = NoJob]
    /\ work' = [work EXCEPT ![r] = Nothing]

\* Any commit of another request that changes what a snapshot is made of.
Edit ==
    /\ edition < MaxEdition
    /\ edition' = edition + 1
    /\ UNCHANGED <<config, device, pc, job, work>>

-----------------------------------------------------------------------------
(***************************************************************************)
(* PushConfig for one tenant, and BroadcastConfig, which calls it for each *)
(* tenant of its list in turn, within the one transaction of the request,  *)
(* and again for a tenant that the list names again.                       *)
(***************************************************************************)
StartPush(r, tenants) ==
    /\ pc[r] = "idle"
    /\ Go(r, IF tenants = <<>> THEN "done" ELSE "services",
             [NoJob EXCEPT !.kind = "push", !.asked = tenants])

\* Mutant of ReadServices: the services are those of the newest version, where
\* there is one.
ReadServicesFromNewest(r) ==
    /\ pc[r] = "services"
    /\ LET before == {x \in Seen(r) : x.version = Newest(Seen(r))}
       IN Go(r, "flags", [job[r] EXCEPT
                 !.services = IF before = {} THEN edition ELSE (CHOOSE x \in before : TRUE).services,
                 !.base = Newest(Seen(r))])

\* GetServicesWithPrices, the first of the reads.
ReadServices(r) ==
    /\ pc[r] = "services"
    /\ Go(r, "flags", [job[r] EXCEPT !.services = edition, !.base = Newest(Seen(r))])

\* The feature flags, the last of the reads; categories and members are read
\* between the two.
ReadFlags(r) ==
    /\ pc[r] = "flags"
    /\ Go(r, "number", [job[r] EXCEPT !.flags = edition])

\* Mutant of StartSettings: the query forgets DESC, and finds the first version.
StartSettingsFromFirst(r, t) ==
    /\ pc[r] = "idle"
    /\ \E x \in config[t] :
          /\ x.version = 1
          /\ Go(r, "number", [NoJob EXCEPT !.kind = "settings", !.asked = <<t>>,
                                           !.services = x.services, !.flags = x.flags,
                                           !.base = Newest(config[t])])

\* UpdateStoreSettings: without a version it answers 404, otherwise it goes on
\* with the data of the newest.
StartSettings(r, t) ==
    /\ pc[r] = "idle"
    /\ config[t] # {}
    /\ \E x \in config[t] :
          /\ x.version = Newest(config[t])
          /\ Go(r, "number", [NoJob EXCEPT !.kind = "settings", !.asked = <<t>>,
                                           !.services = x.services, !.flags = x.flags,
                                           !.base = x.version])

\* Mutant of Number: the sign of the step is wrong.
NumberDown(r) ==
    /\ pc[r] = "number"
    /\ Newest(Seen(r)) < MaxVersions[Target(r)]
    /\ Go(r, "insert", [job[r] EXCEPT !.version = Newest(Seen(r)) - 1])

\* INSERT ... SELECT COALESCE(MAX(version), 0) + 1: the SELECT sees what was
\* committed when the statement began, and the request's own rows.
Number(r) ==
    /\ pc[r] = "number"
    /\ Newest(Seen(r)) < MaxVersions[Target(r)]
    /\ Go(r, "insert", [job[r] EXCEPT !.version = Newest(Seen(r)) + 1])

Row(r) == [version |-> job[r].version, services |-> job[r].services, flags |-> job[r].flags,
           base |-> job[r].base, by |-> IF job[r].kind = "push" THEN "push" ELSE "settings"]

\* An open transaction of another request holds the key of the row.
Blocks(q, r) ==
    /\ q # r
    /\ job[r].version \in Versions(work[q][Target(r)])

Duplicate(r) == job[r].version \in Versions(Seen(r))

\* What a request knows between two pushes.
Rest(r, answered) ==
    [NoJob EXCEPT !.kind = job[r].kind, !.asked = job[r].asked, !.answered = answered]

\* Mutant of Insert: the table has no UNIQUE (tenant_id, version).
InsertUnchecked(r) ==
    /\ pc[r] = "insert"
    /\ work' = [work EXCEPT ![r][Target(r)] = @ \cup {Row(r)}]
    /\ job' = [job EXCEPT ![r] = Rest(r, Append(job[r].answered, Row(r)))]
    /\ pc' = [pc EXCEPT ![r] = IF Len(job[r].answered) + 1 = Len(job[r].asked)
                               THEN "done" ELSE "services"]
    /\ UNCHANGED <<edition, config, device>>

\* The INSERT itself: the row is in, and the loop goes on to the next tenant.
Insert(r) ==
    /\ pc[r] = "insert"
    /\ \A q \in Requests : ~Blocks(q, r)
    /\ ~Duplicate(r)
    /\ work' = [work EXCEPT ![r][Target(r)] = @ \cup {Row(r)}]
    /\ job' = [job EXCEPT ![r] = Rest(r, Append(job[r].answered, Row(r)))]
    /\ pc' = [pc EXCEPT ![r] = IF Len(job[r].answered) + 1 = Len(job[r].asked)
                               THEN "done" ELSE "services"]
    /\ UNCHANGED <<edition, config, device>>

\* Mutant of Break: what was inserted before the statement that failed is kept.
BreakStatement(r) ==
    /\ pc' = [pc EXCEPT ![r] = "done"]
    /\ job' = [job EXCEPT ![r] = Rest(r, job[r].answered)]
    /\ UNCHANGED <<edition, config, device, work>>

\* A statement fails and aborts the transaction.  A broadcast only logs it; all
\* its later statements fail too, and it answers with the versions made before.
Break(r) ==
    /\ pc' = [pc EXCEPT ![r] = "failed"]
    /\ work' = [work EXCEPT ![r] = Nothing]
    /\ job' = [job EXCEPT ![r] = Rest(r, job[r].answered)]
    /\ UNCHANGED <<edition, config, device>>

\* The key was committed by another request since the SELECT.
InsertFails(r) ==
    /\ pc[r] = "insert"
    /\ \A q \in Requests : ~Blocks(q, r)
    /\ Duplicate(r)
    /\ Break(r)

\* Any other statement of the request fails: the tenant is not there, say.
StatementFails(r) ==
    /\ pc[r] \in {"services", "flags", "number", "insert"}
    /\ Break(r)

Waiting(r) == pc[r] = "insert" /\ \E q \in Requests : Blocks(q, r)

\* Two broadcasts that wait for each other: PostgreSQL fails one of them.
DeadlockVictim(r) ==
    /\ Waiting(r)
    /\ \E q \in Requests : Blocks(q, r) /\ Waiting(q)
    /\ Break(r)

\* TenantIsolation commits when the handler is done.
Commit(r) ==
    /\ pc[r] = "done"
    /\ config' = [t \in Tenants |-> config[t] \cup work[r][t]]
    /\ End(r)
    /\ UNCHANGED <<edition, device>>

\* The commit of an aborted transaction is a rollback, and only logged.
EndFailed(r) ==
    /\ pc[r] = "failed"
    /\ End(r)
    /\ UNCHANGED <<edition, config, device>>

-----------------------------------------------------------------------------
(***************************************************************************)
(* SyncService.Download for the device of a tenant, which sends the        *)
(* version it has and keeps what it is given.                              *)
(***************************************************************************)
StartDownload(r, t) ==
    /\ pc[r] = "idle"
    /\ \A q \in Requests : ~(job[q].kind = "download" /\ job[q].asked = <<t>>)
    /\ Go(r, "config", [NoJob EXCEPT !.kind = "download", !.asked = <<t>>])

\* Mutant of DownloadConfig: a device that is one version behind gets no data.
DownloadNextConfig(r) ==
    /\ pc[r] = "config"
    /\ IF config[Target(r)] = {}
       THEN Go(r, "fresh", job[r])
       ELSE \E x \in config[Target(r)] :
               /\ x.version = Newest(config[Target(r)])
               /\ Go(r, "fresh", [job[r] EXCEPT
                     !.version = x.version,
                     !.found = IF x.version > device[Target(r)].version + 1 THEN x ELSE @])

\* GetCurrentConfig; the data is returned only to a device that is behind.
DownloadConfig(r) ==
    /\ pc[r] = "config"
    /\ IF config[Target(r)] = {}
       THEN Go(r, "fresh", job[r])
       ELSE \E x \in config[Target(r)] :
               /\ x.version = Newest(config[Target(r)])
               /\ Go(r, "fresh", [job[r] EXCEPT
                     !.version = x.version,
                     !.found = IF x.version > device[Target(r)].version THEN x ELSE @])

\* Mutant of DownloadRest: a device that is not behind gets the services of the
\* version it has.
DownloadRestOfVersion(r) ==
    /\ pc[r] = "fresh"
    /\ device' = [device EXCEPT ![Target(r)] =
                     [version |-> job[r].version,
                      config |-> IF job[r].found # NoConfig THEN job[r].found ELSE @.config,
                      services |-> job[r].found.services]]
    /\ End(r)
    /\ UNCHANGED <<edition, config>>

\* The services, and with them the members, outlets, payment methods and zones,
\* are read afresh; without any version the answer holds no service at all.
DownloadRest(r) ==
    /\ pc[r] = "fresh"
    /\ device' = [device EXCEPT ![Target(r)] =
                     [version |-> job[r].version,
                      config |-> IF job[r].found # NoConfig THEN job[r].found ELSE @.config,
                      services |-> IF job[r].version = 0 THEN 0 ELSE edition]]
    /\ End(r)
    /\ UNCHANGED <<edition, config>>

\* The client goes away, or the process dies: the transaction is rolled back.
Abort(r) ==
    /\ pc[r] # "idle"
    /\ End(r)
    /\ UNCHANGED <<edition, config, device>>

-----------------------------------------------------------------------------
Step(r) ==
    \/ ReadServices(r)
    \/ ReadFlags(r)
    \/ Number(r)
    \/ Insert(r)
    \/ InsertFails(r)
    \/ StatementFails(r)
    \/ DeadlockVictim(r)
    \/ Commit(r)
    \/ EndFailed(r)
    \/ DownloadConfig(r)
    \/ DownloadRest(r)

Next ==
    \/ Edit
    \/ \E r \in Requests :
          \/ \E b \in Broadcasts : StartPush(r, b)
          \/ \E t \in Tenants : StartSettings(r, t)
          \/ \E t \in Devices : StartDownload(r, t)
          \/ Step(r)
          \/ Abort(r)

Spec == Init /\ [][Next]_vars

-----------------------------------------------------------------------------
(***************************************************************************)
(* Properties.                                                             *)
(***************************************************************************)
\* The versions of a tenant are 1, 2, ..., each made once, whatever pushes,
\* broadcasts and settings were in progress at once (config_service.go:124-129).
VersionsGapless ==
    \A t \in Tenants :
        /\ Versions(config[t]) = 1 .. Newest(config[t])
        /\ \A x, y \in config[t] : x.version = y.version => x = y

\* A pushed version holds no older catalogue than any version that was there
\* when its push began: only pushes that overlap can put an older catalogue
\* after a newer one (config_service.go:48-103 read before :124).
OlderOnlyByOverlap ==
    \A t \in Tenants : \A x, y \in config[t] :
        x.by = "push" /\ y.version <= x.base => y.services <= x.services /\ y.flags <= x.flags

\* A version made by a change of the store settings holds the catalogue of the
\* version that it was made from, which need not be the one before it
\* (config_service.go:147-190).
SettingsCarryTheirBase ==
    \A t \in Tenants : \A x \in config[t] :
        x.by = "settings" =>
            \E y \in config[t] : /\ y.version = x.base
                                 /\ y.services = x.services /\ y.flags = x.flags

\* Each version holds the catalogue that its request may answer for: of a push,
\* one that it read itself, of an edit of the store settings, that of the version
\* the edit was made on (config_service.go:48-190).
CatalogueOfVersions == OlderOnlyByOverlap /\ SettingsCarryTheirBase

\* A device holds the data of exactly the version that it reports as its own
\* (sync_service.go:180-184).
DeviceHoldsItsVersion ==
    \A t \in Devices :
        \/ device[t].version = 0 /\ device[t].config = NoConfig
        \/ device[t].config \in config[t] /\ device[t].config.version = device[t].version

\* The services a device is given are no older than those in the configuration
\* it holds (sync_service.go:186-191 reads them after the version).
FreshNotOlderThanConfig ==
    \A t \in Devices : /\ device[t].config.services <= device[t].services
                       /\ device[t].config.flags <= device[t].services

\* What a device has been given fits together, whatever is pushed while it
\* downloads (sync_service.go:163-246).
DeviceIsConsistent == DeviceHoldsItsVersion /\ FreshNotOlderThanConfig

\* A broadcast commits what it answers, one more version for each time that its
\* list names a tenant, or it commits nothing: its answer may then list versions
\* that do not exist (config_service.go:223-231).
AllOrNothing ==
    [][config' # config =>
          \E r \in Requests :
             LET asked == job[r].asked
                 answered == job[r].answered
             IN /\ Len(answered) = Len(asked)
                /\ \A t \in Tenants : config'[t] \ config[t] =
                      {answered[i] : i \in {k \in 1 .. Len(asked) : asked[k] = t}}
                /\ \A i, k \in 1 .. Len(asked) :
                      asked[i] = asked[k] /\ answered[i] = answered[k] => i = k]_vars
=============================================================================
