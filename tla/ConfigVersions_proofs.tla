----------------------- MODULE ConfigVersions_proofs -----------------------
(***************************************************************************)
(* The versions of every tenant are 1, 2, ..., a broadcast commits what it *)
(* answers or nothing, and what the versions hold and a device holds of    *)
(* them agrees, for any requests, tenants, devices and bounds, and for any *)
(* lists of tenants, also those that name a tenant again and again.        *)
(***************************************************************************)
EXTENDS ConfigVersions, SequenceTheorems, TLAPS

Busy == {"services", "flags", "number", "insert", "config", "fresh"}

\* The versions of these rows are 1, ..., n for some n, each one made once.
Chain(rows) ==
    /\ \E n \in Nat : Versions(rows) = 1 .. n
    /\ \A x, y \in rows : x.version = y.version => x = y

\* v may be the next version after these rows, of which the request inserted its
\* own: those before it are there, and it is none of its own.
MayFollow(v, rows, own) ==
    /\ v \in Nat \ {0}
    /\ \A m \in Nat : 1 <= m /\ m < v => m \in Versions(rows)
    /\ v \notin Versions(own)

\* What is committed has no gap, and none with the rows of any one request either;
\* those are above what is committed, and of one request for each tenant.
RowsChain ==
    \A t \in Tenants :
        /\ Chain(config[t])
        /\ \A r \in Requests :
              /\ Chain(config[t] \cup work[r][t])
              /\ \A x \in work[r][t] : x.version \notin Versions(config[t])
              /\ \A q \in Requests : q # r => work[q][t] = {} \/ work[r][t] = {}

\* The versions that a request has made for a tenant, one for each time.
MadeFor(j, t) == {j.answered[i] : i \in {k \in 1 .. Len(j.answered) : j.asked[k] = t}}
Apart(j) ==
    \A i, k \in 1 .. Len(j.answered) :
        j.asked[i] = j.asked[k] /\ j.answered[i] = j.answered[k] => i = k

\* A request that is at p, about j, has answered the first part of what it was
\* asked, and has written w, which is exactly what it answers.
JobFits(p, j, w) ==
    /\ Len(j.answered) <= Len(j.asked)
    /\ p \in Busy => Len(j.answered) < Len(j.asked)
    /\ p = "done" => Len(j.answered) = Len(j.asked)
    /\ p = "idle" => \A t \in Tenants : w[t] = {}
    /\ p # "failed" => \A t \in Tenants : w[t] = MadeFor(j, t)
    /\ Apart(j)

\* The number that a request has found may follow what it saw.
NumberFits(r) ==
    pc[r] = "insert" => MayFollow(job[r].version, Seen(r), work[r][Target(r)])

IInv ==
    /\ TypeOK
    /\ RowsChain
    /\ \A r \in Requests : JobFits(pc[r], job[r], work[r]) /\ NumberFits(r)

-----------------------------------------------------------------------------
\* The newest of the versions 1, ..., n is n.
LEMMA NewestIsLast ==
    ASSUME NEW rows, NEW n \in Nat, Versions(rows) = 1 .. n
    PROVE  Newest(rows) = n
  <1>1. n \in Versions(rows) \cup {0} /\ \A m \in Versions(rows) : m <= n
    OBVIOUS
  <1>2. ASSUME NEW k \in Versions(rows) \cup {0}, \A m \in Versions(rows) : m <= k
        PROVE  k = n
    <2>1. k \in Nat /\ k <= n
      OBVIOUS
    <2>2. CASE n = 0
      BY <2>1, <2>2
    <2>3. CASE n # 0
      <3>1. n \in Versions(rows)
        BY <2>3
      <3>2. n <= k
        BY <3>1, <1>2
      <3>3. QED
        BY <2>1, <3>2
    <2>4. QED
      BY <2>2, <2>3
  <1>3. QED
    BY <1>1, <1>2 DEF Newest

LEMMA TypesOfConstants ==
    /\ NoConfig \in Rows /\ NoJob \in Jobs
    /\ NoJob.asked = <<>> /\ NoJob.answered = <<>> /\ NoJob.kind = "none"
  <1>1. NoConfig \in Rows
    BY DEF NoConfig, Rows
  <1>2. <<>> \in Seq(Tenants) /\ <<>> \in Seq(Rows)
    BY EmptySeq
  <1>3. QED
    BY <1>1, <1>2 DEF NoJob, Jobs

\* A request that has answered nothing has made nothing.
LEMMA NothingMade ==
    ASSUME NEW j, j.answered = <<>>
    PROVE  /\ Len(j.answered) = 0 /\ Apart(j)
           /\ \A t \in Tenants : MadeFor(j, t) = {}
  <1>1. Len(j.answered) = 0
    OBVIOUS
  <1>2. 1 .. Len(j.answered) = {}
    BY <1>1
  <1>3. QED
    BY <1>1, <1>2 DEF Apart, MadeFor

LEMMA NothingIsEmpty == \A t \in Tenants : Nothing[t] = {}
  BY DEF Nothing

\* A request at its start or at its end.
LEMMA IdleFits == JobFits("idle", NoJob, Nothing)
  <1>1. /\ Len(NoJob.answered) = 0 /\ Len(NoJob.asked) = 0 /\ Apart(NoJob)
        /\ \A t \in Tenants : MadeFor(NoJob, t) = {} /\ Nothing[t] = {}
    <2>1. NoJob.answered = <<>> /\ NoJob.asked = <<>>
      BY TypesOfConstants
    <2>2. Len(NoJob.asked) = 0
      BY <2>1
    <2>3. QED
      BY <2>1, <2>2, NothingMade, NothingIsEmpty
  <1>2. "idle" \notin Busy
    BY DEF Busy
  <1>3. Len(NoJob.answered) <= Len(NoJob.asked)
    BY <1>1
  <1>4. \A t \in Tenants : Nothing[t] = MadeFor(NoJob, t)
    BY <1>1
  <1>5. QED
    BY <1>1, <1>2, <1>3, <1>4 DEF JobFits

LEMMA InitIInv == Init => IInv
  <1> SUFFICES ASSUME Init PROVE IInv
    OBVIOUS
  <1>1. TypeOK
    BY TypesOfConstants DEF Init, TypeOK, Nothing
  <1>2. Chain({})
    <2>1. Versions({}) = 1 .. 0
      BY DEF Versions
    <2>2. QED
      BY <2>1 DEF Chain
  <1>3. RowsChain
    <2>1. \A t \in Tenants : config[t] = {} /\ \A r \in Requests : work[r][t] = {}
      BY DEF Init, Nothing
    <2>2. \A t \in Tenants, r \in Requests : Chain(config[t] \cup work[r][t])
      <3>1. \A t \in Tenants, r \in Requests : config[t] \cup work[r][t] = {}
        BY <2>1
      <3>2. QED
        BY <1>2, <3>1
    <2>3. QED
      BY <1>2, <2>1, <2>2 DEF RowsChain
  <1>4. \A r \in Requests : JobFits(pc[r], job[r], work[r]) /\ NumberFits(r)
    BY IdleFits DEF Init, NumberFits
  <1>5. QED
    BY <1>1, <1>3, <1>4 DEF IInv

-----------------------------------------------------------------------------
\* What IInv says of the committed versions of a tenant.
LEMMA VersionsAre ==
    ASSUME IInv, NEW t \in Tenants
    PROVE  \E n \in Nat : Versions(config[t]) = 1 .. n /\ Newest(config[t]) = n
  <1>1. PICK n \in Nat : Versions(config[t]) = 1 .. n
    BY DEF IInv, RowsChain, Chain
  <1>2. Newest(config[t]) = n
    BY <1>1, NewestIsLast
  <1>3. QED
    BY <1>1, <1>2

\* The tenant that a request is at, and the versions of it that the request sees.
LEMMA TargetFits ==
    ASSUME IInv, NEW r \in Requests, pc[r] \in Busy
    PROVE  /\ Target(r) \in Tenants
           /\ Len(job[r].answered) \in Nat /\ Len(job[r].asked) \in Nat
           /\ Len(job[r].answered) < Len(job[r].asked)
           /\ \E n \in Nat : Versions(Seen(r)) = 1 .. n /\ Newest(Seen(r)) = n
  <1>1. /\ job[r].asked \in Seq(Tenants) /\ job[r].answered \in Seq(Rows)
        /\ Len(job[r].answered) < Len(job[r].asked)
    BY DEF IInv, TypeOK, Jobs, JobFits
  <1>2. Len(job[r].answered) \in Nat /\ Len(job[r].asked) \in Nat
    BY <1>1
  <1>3. Len(job[r].answered) + 1 \in 1 .. Len(job[r].asked)
    BY <1>1, <1>2
  <1>4. Target(r) \in Tenants
    BY <1>1, <1>3, ElementOfSeq DEF Target
  <1>5. PICK n \in Nat : Versions(Seen(r)) = 1 .. n
    BY <1>4 DEF IInv, RowsChain, Chain, Seen
  <1>6. Newest(Seen(r)) = n
    BY <1>5, NewestIsLast
  <1>7. QED
    BY <1>1, <1>2, <1>4, <1>5, <1>6

\* A request that has a row of a tenant has the version after the committed ones.
LEMMA HasTheNext ==
    ASSUME IInv, NEW r \in Requests, NEW t \in Tenants, work[r][t] # {},
           NEW n \in Nat, Versions(config[t]) = 1 .. n
    PROVE  n + 1 \in Versions(work[r][t])
  <1>1. PICK k \in Nat : Versions(config[t] \cup work[r][t]) = 1 .. k
    BY DEF IInv, RowsChain, Chain
  <1>2. Versions(config[t] \cup work[r][t]) = (1 .. n) \cup Versions(work[r][t])
    BY DEF Versions
  <1>3. PICK x \in work[r][t] : x.version \notin 1 .. n
    BY DEF IInv, RowsChain
  <1>4. x.version \in 1 .. k
    BY <1>1 DEF Versions
  <1>5. n + 1 \in 1 .. k
    BY <1>3, <1>4
  <1>6. n + 1 \notin 1 .. n
    OBVIOUS
  <1>7. n + 1 \in (1 .. n) \cup Versions(work[r][t])
    BY <1>1, <1>2, <1>5
  <1>8. QED
    BY <1>6, <1>7

\* A step of one request that touches no table.
LEMMA GoKeeps ==
    ASSUME IInv, NEW r \in Requests, NEW j \in Jobs, NEW to \in Busy \cup {"done"},
           Go(r, to, j), JobFits(to, j, work[r]),
           to = "insert" =>
              \A t \in Tenants : t = j.asked[Len(j.answered) + 1] =>
                 MayFollow(j.version, config[t] \cup work[r][t], work[r][t])
    PROVE  IInv'
  <1>1. /\ pc' = [pc EXCEPT ![r] = to] /\ job' = [job EXCEPT ![r] = j]
        /\ edition' = edition /\ config' = config /\ device' = device /\ work' = work
    BY DEF Go
  <1>2. TypeOK'
    BY <1>1 DEF IInv, TypeOK, Busy
  <1>3. RowsChain'
    BY <1>1 DEF IInv, RowsChain
  <1>4. ASSUME NEW q \in Requests PROVE JobFits(pc'[q], job'[q], work'[q]) /\ NumberFits(q)'
    <2>1. CASE q = r
      <3>1. job'[q] = j /\ pc'[q] = to /\ work'[q] = work[r]
        BY <1>1, <2>1 DEF IInv, TypeOK
      <3>2. Target(q)' = j.asked[Len(j.answered) + 1]
        BY <3>1 DEF Target
      <3>3. to = "insert" => j.asked[Len(j.answered) + 1] \in Tenants
        <4>1. /\ j.asked \in Seq(Tenants) /\ Len(j.answered) \in Nat
              /\ to = "insert" => Len(j.answered) + 1 \in 1 .. Len(j.asked)
          BY DEF Jobs, JobFits, Busy
        <4>2. QED
          BY <4>1, ElementOfSeq
      <3>4. NumberFits(q)'
        BY <1>1, <3>1, <3>2, <3>3 DEF NumberFits, Seen
      <3>5. QED
        BY <3>1, <3>4
    <2>2. CASE q # r
      <3>1. job'[q] = job[q] /\ pc'[q] = pc[q] /\ work'[q] = work[q]
        BY <1>1, <2>2 DEF IInv, TypeOK
      <3>2. JobFits(pc'[q], job'[q], work'[q])
        BY <3>1 DEF IInv
      <3>3. NumberFits(q)'
        BY <1>1, <3>1 DEF IInv, NumberFits, Seen, Target
      <3>4. QED
        BY <3>2, <3>3
    <2>3. QED
      BY <2>1, <2>2
  <1>5. QED
    BY <1>2, <1>3, <1>4 DEF IInv

\* A request goes on with what it has to do.
LEMMA GoesOn ==
    ASSUME IInv, NEW r \in Requests, NEW j \in Jobs, NEW to \in Busy, pc[r] \in Busy,
           Go(r, to, j), j.asked = job[r].asked, j.answered = job[r].answered,
           to = "insert" => MayFollow(j.version, Seen(r), work[r][Target(r)])
    PROVE  IInv'
  <1>1. JobFits(pc[r], job[r], work[r])
    BY DEF IInv
  <1>2. to # "idle" /\ to # "done" /\ to # "failed" /\ pc[r] # "failed"
    BY DEF Busy
  <1>3. \A t : MadeFor(j, t) = MadeFor(job[r], t)
    BY DEF MadeFor
  <1>4. Apart(j) <=> Apart(job[r])
    BY DEF Apart
  <1>5. JobFits(to, j, work[r])
    BY <1>1, <1>2, <1>3, <1>4 DEF JobFits
  <1>6. j.asked[Len(j.answered) + 1] = Target(r)
    BY DEF Target
  <1>7. QED
    BY <1>5, <1>6, GoKeeps DEF Seen

\* A request starts: nothing is written, and nothing is answered.
LEMMA Starts ==
    ASSUME IInv, NEW r \in Requests, NEW j \in Jobs, NEW to \in Busy \cup {"done"},
           to # "insert", pc[r] = "idle", Go(r, to, j), j.answered = <<>>,
           to = "done" <=> j.asked = <<>>
    PROVE  IInv'
  <1>1. \A t \in Tenants : work[r][t] = {}
    BY DEF IInv, JobFits
  <1>2. Len(j.asked) \in Nat /\ (Len(j.asked) = 0 <=> j.asked = <<>>)
    BY EmptySeq DEF Jobs
  <1>3. /\ Len(j.answered) = 0 /\ Apart(j)
        /\ \A t \in Tenants : MadeFor(j, t) = {}
    BY NothingMade
  <1>4. to # "idle" /\ \A t \in Tenants : work[r][t] = MadeFor(j, t)
    BY <1>1, <1>3 DEF Busy
  <1>5. to \in Busy => Len(j.asked) # 0
    BY <1>2 DEF Busy
  <1>6. /\ Len(j.answered) <= Len(j.asked)
        /\ to \in Busy => Len(j.answered) < Len(j.asked)
        /\ to = "done" => Len(j.answered) = Len(j.asked)
    BY <1>2, <1>3, <1>5
  <1>7. JobFits(to, j, work[r])
    BY <1>3, <1>4, <1>6 DEF JobFits
  <1>8. QED
    BY <1>7, GoKeeps

\* A request ends, or fails, and with it all that it has not committed.
LEMMA Forgets ==
    ASSUME IInv, NEW r \in Requests, NEW to \in {"idle", "failed"}, NEW j \in Jobs,
           JobFits(to, j, Nothing),
           pc' = [pc EXCEPT ![r] = to], job' = [job EXCEPT ![r] = j],
           work' = [work EXCEPT ![r] = Nothing], edition' = edition, config' = config,
           device' \in [Devices -> [version: Nat, config: Rows, services: Nat]]
    PROVE  IInv'
  <1>1. TypeOK'
    BY DEF IInv, TypeOK, Nothing
  <1>2. \A q \in Requests, t \in Tenants : work'[q][t] = IF q = r THEN {} ELSE work[q][t]
    BY DEF IInv, TypeOK, Nothing
  <1>3. RowsChain'
    <2> SUFFICES ASSUME NEW t \in Tenants, NEW q \in Requests
                 PROVE  /\ Chain(config[t])
                        /\ Chain(config[t] \cup work'[q][t])
                        /\ \A x \in work'[q][t] : x.version \notin Versions(config[t])
                        /\ \A p \in Requests : p # q => work'[p][t] = {} \/ work'[q][t] = {}
      <3>1. \A t \in Tenants : Chain(config[t])
        BY DEF IInv, RowsChain
      <3>2. QED
        BY <3>1 DEF RowsChain
    <2>1. Chain(config[t])
      BY DEF IInv, RowsChain
    <2>2. CASE q = r
      <3>1. work'[q][t] = {} /\ config[t] \cup work'[q][t] = config[t]
        BY <1>2, <2>2
      <3>2. QED
        BY <2>1, <3>1
    <2>3. CASE q # r
      <3>1. work'[q][t] = work[q][t]
        BY <1>2, <2>3
      <3>2. /\ Chain(config[t] \cup work[q][t])
            /\ \A x \in work[q][t] : x.version \notin Versions(config[t])
            /\ \A p \in Requests : p # q => work[p][t] = {} \/ work[q][t] = {}
        BY DEF IInv, RowsChain
      <3>3. \A p \in Requests : p # q => work'[p][t] = {} \/ work'[q][t] = {}
        BY <1>2, <3>1, <3>2
      <3>4. QED
        BY <2>1, <3>1, <3>2, <3>3
    <2>4. QED
      BY <2>2, <2>3
  <1>4. ASSUME NEW q \in Requests PROVE JobFits(pc'[q], job'[q], work'[q]) /\ NumberFits(q)'
    <2>1. CASE q = r
      BY <2>1 DEF IInv, TypeOK, NumberFits
    <2>2. CASE q # r
      <3>1. job'[q] = job[q] /\ pc'[q] = pc[q] /\ work'[q] = work[q]
        BY <2>2 DEF IInv, TypeOK
      <3>2. JobFits(pc'[q], job'[q], work'[q])
        BY <3>1 DEF IInv
      <3>3. NumberFits(q)'
        BY <3>1 DEF IInv, NumberFits, Seen, Target
      <3>4. QED
        BY <3>2, <3>3
    <2>3. QED
      BY <2>1, <2>2
  <1>5. QED
    BY <1>1, <1>3, <1>4 DEF IInv

-----------------------------------------------------------------------------
LEMMA EditKeeps == ASSUME IInv, Edit PROVE IInv'
  <1>1. /\ edition' = edition + 1 /\ config' = config /\ device' = device
        /\ pc' = pc /\ job' = job /\ work' = work
    BY DEF Edit
  <1>2. TypeOK'
    BY <1>1 DEF IInv, TypeOK
  <1>3. RowsChain'
    BY <1>1 DEF IInv, RowsChain
  <1>4. \A r \in Requests : JobFits(pc'[r], job'[r], work'[r]) /\ NumberFits(r)'
    BY <1>1 DEF IInv, NumberFits, Seen, Target
  <1>5. QED
    BY <1>2, <1>3, <1>4 DEF IInv

LEMMA StartPushKeeps ==
    ASSUME IInv, NEW r \in Requests, NEW b \in Broadcasts, StartPush(r, b)
    PROVE  IInv'
  <1> DEFINE j == [NoJob EXCEPT !.kind = "push", !.asked = b]
             to == IF b = <<>> THEN "done" ELSE "services"
  <1>1. b \in Seq(Tenants)
    BY BroadcastsAssumption
  <1>2. j \in Jobs /\ j.asked = b /\ j.answered = <<>>
    BY <1>1, TypesOfConstants DEF Jobs, NoJob
  <1>3. pc[r] = "idle" /\ Go(r, to, j)
    BY DEF StartPush
  <1>4. to \in Busy \cup {"done"} /\ to # "insert" /\ (to = "done" <=> j.asked = <<>>)
    BY <1>2 DEF Busy
  <1> HIDE DEF j, to
  <1>5. QED
    BY <1>2, <1>3, <1>4, Starts

\* A request about one tenant.
LEMMA StartsWithOne ==
    ASSUME IInv, NEW r \in Requests, NEW t \in Tenants, NEW j \in Jobs,
           NEW to \in {"number", "config"}, pc[r] = "idle", Go(r, to, j),
           j.asked = <<t>>, j.answered = <<>>
    PROVE  IInv'
  <1>1. to \in Busy \cup {"done"} /\ to # "insert" /\ (to = "done" <=> j.asked = <<>>)
    BY DEF Busy
  <1>2. QED
    BY <1>1, Starts

LEMMA StartSettingsKeeps ==
    ASSUME IInv, NEW r \in Requests, NEW t \in Tenants, StartSettings(r, t)
    PROVE  IInv'
  <1>1. PICK x \in config[t] :
            Go(r, "number", [NoJob EXCEPT !.kind = "settings", !.asked = <<t>>,
                                          !.services = x.services, !.flags = x.flags,
                                          !.base = x.version])
    BY DEF StartSettings
  <1> DEFINE j == [NoJob EXCEPT !.kind = "settings", !.asked = <<t>>,
                                !.services = x.services, !.flags = x.flags,
                                !.base = x.version]
  <1>2. x \in Rows /\ <<t>> \in Seq(Tenants)
    BY DEF IInv, TypeOK
  <1>3. j \in Jobs /\ j.asked = <<t>> /\ j.answered = <<>>
    BY <1>2, TypesOfConstants DEF Jobs, NoJob, Rows
  <1>4. pc[r] = "idle" /\ Go(r, "number", j)
    BY <1>1 DEF StartSettings
  <1> HIDE DEF j
  <1>5. QED
    BY <1>3, <1>4, StartsWithOne

LEMMA StartDownloadKeeps ==
    ASSUME IInv, NEW r \in Requests, NEW t \in Devices, StartDownload(r, t)
    PROVE  IInv'
  <1> DEFINE j == [NoJob EXCEPT !.kind = "download", !.asked = <<t>>]
  <1>1. t \in Tenants /\ <<t>> \in Seq(Tenants)
    BY DevicesAssumption
  <1>2. j \in Jobs /\ j.asked = <<t>> /\ j.answered = <<>>
    BY <1>1, TypesOfConstants DEF Jobs, NoJob
  <1>3. pc[r] = "idle" /\ Go(r, "config", j)
    BY DEF StartDownload
  <1> HIDE DEF j
  <1>4. QED
    BY <1>1, <1>2, <1>3, StartsWithOne

LEMMA ReadServicesKeeps ==
    ASSUME IInv, NEW r \in Requests, ReadServices(r) PROVE IInv'
  <1> DEFINE j == [job[r] EXCEPT !.services = edition, !.base = Newest(Seen(r))]
  <1>1. pc[r] \in Busy /\ "flags" \in Busy /\ Go(r, "flags", j)
    BY DEF ReadServices, Busy
  <1>2. Newest(Seen(r)) \in Nat
    BY <1>1, TargetFits
  <1>3. job[r] \in Jobs /\ edition \in Nat
    BY DEF IInv, TypeOK
  <1>4. j \in Jobs /\ j.asked = job[r].asked /\ j.answered = job[r].answered
    BY <1>2, <1>3 DEF Jobs
  <1> HIDE DEF j
  <1>5. QED
    BY <1>1, <1>4, GoesOn

LEMMA ReadFlagsKeeps ==
    ASSUME IInv, NEW r \in Requests, ReadFlags(r) PROVE IInv'
  <1> DEFINE j == [job[r] EXCEPT !.flags = edition]
  <1>1. job[r] \in Jobs /\ edition \in Nat
    BY DEF IInv, TypeOK
  <1>2. j \in Jobs /\ j.asked = job[r].asked /\ j.answered = job[r].answered
    BY <1>1 DEF Jobs
  <1>3. pc[r] \in Busy /\ "number" \in Busy /\ Go(r, "number", j)
    BY DEF ReadFlags, Busy
  <1> HIDE DEF j
  <1>4. QED
    BY <1>2, <1>3, GoesOn

\* The number is the one after the versions that the request sees, the committed
\* ones and its own.
LEMMA NumberKeeps ==
    ASSUME IInv, NEW r \in Requests, Number(r) PROVE IInv'
  <1>1. pc[r] \in Busy /\ "insert" \in Busy
    BY DEF Number, Busy
  <1>2. PICK n \in Nat : Versions(Seen(r)) = 1 .. n /\ Newest(Seen(r)) = n
    BY <1>1, TargetFits
  <1> DEFINE j == [job[r] EXCEPT !.version = n + 1]
  <1>3. Go(r, "insert", j)
    BY <1>2 DEF Number
  <1>4. job[r] \in Jobs
    BY DEF IInv, TypeOK
  <1>5. j \in Jobs /\ j.asked = job[r].asked /\ j.answered = job[r].answered /\ j.version = n + 1
    <2>1. n + 1 \in Nat
      OBVIOUS
    <2> DEFINE v == n + 1
    <2> HIDE DEF v
    <2>2. [job[r] EXCEPT !.version = v] \in Jobs
      BY <1>4, <2>1 DEF Jobs, v
    <2>3. /\ [job[r] EXCEPT !.version = v].asked = job[r].asked
          /\ [job[r] EXCEPT !.version = v].answered = job[r].answered
          /\ [job[r] EXCEPT !.version = v].version = v
      BY <1>4 DEF Jobs
    <2>4. j = [job[r] EXCEPT !.version = v]
      BY DEF v
    <2> HIDE DEF j
    <2>5. QED
      BY <2>2, <2>3, <2>4 DEF v
  <1>6. Versions(work[r][Target(r)]) \subseteq Versions(Seen(r))
    BY DEF Seen, Versions
  <1>7. MayFollow(j.version, Seen(r), work[r][Target(r)])
    BY <1>2, <1>5, <1>6 DEF MayFollow
  <1> HIDE DEF j
  <1>8. QED
    BY <1>1, <1>3, <1>5, <1>7, GoesOn

LEMMA DownloadConfigKeeps ==
    ASSUME IInv, NEW r \in Requests, DownloadConfig(r) PROVE IInv'
  <1>1. pc[r] \in Busy /\ "fresh" \in Busy
    BY DEF DownloadConfig, Busy
  <1>2. job[r] \in Jobs /\ Target(r) \in Tenants
    BY <1>1, TargetFits DEF IInv, TypeOK
  <1>3. CASE config[Target(r)] = {}
    <2>1. Go(r, "fresh", job[r])
      BY <1>3 DEF DownloadConfig
    <2>2. QED
      BY <1>1, <1>2, <2>1, GoesOn
  <1>4. CASE config[Target(r)] # {}
    <2>1. PICK x \in config[Target(r)] :
              Go(r, "fresh", [job[r] EXCEPT
                 !.version = x.version,
                 !.found = IF x.version > device[Target(r)].version THEN x ELSE @])
      BY <1>4 DEF DownloadConfig
    <2> DEFINE f == IF x.version > device[Target(r)].version THEN x ELSE job[r].found
               j == [job[r] EXCEPT !.version = x.version, !.found = f]
    <2>2. x \in Rows
      BY <1>2 DEF IInv, TypeOK
    <2>3. f \in Rows /\ x.version \in Nat
      BY <1>2, <2>2 DEF Jobs, Rows
    <2>4. Go(r, "fresh", j)
      BY <2>1
    <2> HIDE DEF f
    <2>5. j \in Jobs /\ j.asked = job[r].asked /\ j.answered = job[r].answered
      BY <1>2, <2>3 DEF Jobs
    <2> HIDE DEF j
    <2>6. QED
      BY <1>1, <2>4, <2>5, GoesOn
  <1>5. QED
    BY <1>3, <1>4

LEMMA DownloadRestKeeps ==
    ASSUME IInv, NEW r \in Requests, DownloadRest(r) PROVE IInv'
  <1>1. job[r] \in Jobs /\ edition \in Nat
    BY DEF IInv, TypeOK
  <1>2. job[r].version \in Nat /\ job[r].found \in Rows
    BY <1>1 DEF Jobs
  <1> DEFINE D == [version: Nat, config: Rows, services: Nat]
  <1>3. device \in [Devices -> D]
    BY DEF IInv, TypeOK
  <1>4. device' \in [Devices -> D]
    BY <1>1, <1>2, <1>3 DEF DownloadRest
  <1>5. QED
    BY <1>4, IdleFits, TypesOfConstants, Forgets DEF DownloadRest, End

\* What does not commit takes back what it has written.
LEMMA EndsKeep ==
    ASSUME IInv, NEW r \in Requests, EndFailed(r) \/ Abort(r)
    PROVE  IInv'
  <1>1. /\ End(r) /\ edition' = edition /\ config' = config
        /\ device' \in [Devices -> [version: Nat, config: Rows, services: Nat]]
    BY DEF EndFailed, Abort, IInv, TypeOK
  <1>2. QED
    BY <1>1, IdleFits, TypesOfConstants, Forgets DEF End

\* What is left of a request between two pushes.
LEMMA RestIs ==
    ASSUME IInv, NEW r \in Requests, NEW a \in Seq(Rows)
    PROVE  /\ Rest(r, a) \in Jobs
           /\ Rest(r, a).asked = job[r].asked /\ Rest(r, a).answered = a
           /\ Rest(r, a).kind = job[r].kind
  <1>1. job[r] \in Jobs
    BY DEF IInv, TypeOK
  <1>2. QED
    BY <1>1, TypesOfConstants DEF Rest, NoJob, Jobs

LEMMA BreakKeeps == ASSUME IInv, NEW r \in Requests, Break(r) PROVE IInv'
  <1> DEFINE j == Rest(r, job[r].answered)
  <1>1. job[r].answered \in Seq(Rows) /\ JobFits(pc[r], job[r], work[r])
    BY DEF IInv, TypeOK, Jobs
  <1>2. j \in Jobs /\ j.asked = job[r].asked /\ j.answered = job[r].answered
    BY <1>1, RestIs
  <1>3. /\ pc' = [pc EXCEPT ![r] = "failed"] /\ job' = [job EXCEPT ![r] = j]
        /\ work' = [work EXCEPT ![r] = Nothing] /\ edition' = edition /\ config' = config
        /\ device' \in [Devices -> [version: Nat, config: Rows, services: Nat]]
    BY DEF Break, IInv, TypeOK
  <1> HIDE DEF j
  <1>4. JobFits("failed", j, Nothing)
    BY <1>1, <1>2 DEF JobFits, Busy, Apart
  <1>5. QED
    BY <1>2, <1>3, <1>4, Forgets


\* The row is the one that the request was at, and one more than it had made.
LEMMA MadeGrows ==
    ASSUME NEW j, NEW k, NEW x, j.asked \in Seq(Tenants), j.answered \in Seq(Rows), x \in Rows,
           Len(j.answered) < Len(j.asked), k.asked = j.asked, k.answered = Append(j.answered, x)
    PROVE  /\ Len(k.answered) = Len(j.answered) + 1
           /\ \A u : MadeFor(k, u) = IF u = j.asked[Len(j.answered) + 1]
                                     THEN MadeFor(j, u) \cup {x} ELSE MadeFor(j, u)
           /\ x \notin MadeFor(j, j.asked[Len(j.answered) + 1]) /\ Apart(j) => Apart(k)
  <1> DEFINE n == Len(j.answered)
  <1>1. /\ n \in Nat /\ Len(k.answered) = n + 1 /\ k.answered[n + 1] = x
        /\ \A i \in 1 .. n : k.answered[i] = j.answered[i]
    OBVIOUS
  <1>2. Len(j.answered) = n
    OBVIOUS
  <1> HIDE DEF n
  <1>3. 1 .. (n + 1) = (1 .. n) \cup {n + 1}
    BY <1>1
  <1>4. ASSUME NEW u
        PROVE  MadeFor(k, u) = IF u = j.asked[n + 1] THEN MadeFor(j, u) \cup {x} ELSE MadeFor(j, u)
    <2>1. MadeFor(j, u) = {j.answered[i] : i \in {m \in 1 .. n : j.asked[m] = u}}
      BY <1>2 DEF MadeFor
    <2>2. MadeFor(k, u) = {k.answered[i] : i \in {m \in (1 .. n) \cup {n + 1} : j.asked[m] = u}}
      BY <1>1, <1>3 DEF MadeFor
    <2>3. CASE u = j.asked[n + 1]
      <3>1. {m \in (1 .. n) \cup {n + 1} : j.asked[m] = u}
               = {m \in 1 .. n : j.asked[m] = u} \cup {n + 1}
        BY <2>3
      <3>2. MadeFor(k, u) = {k.answered[i] : i \in {m \in 1 .. n : j.asked[m] = u}} \cup {x}
        BY <1>1, <2>2, <3>1
      <3>3. QED
        BY <1>1, <2>1, <2>3, <3>2
    <2>4. CASE u # j.asked[n + 1]
      <3>1. {m \in (1 .. n) \cup {n + 1} : j.asked[m] = u} = {m \in 1 .. n : j.asked[m] = u}
        BY <2>4
      <3>2. QED
        BY <1>1, <2>1, <2>2, <2>4, <3>1
    <2>5. QED
      BY <2>3, <2>4
  <1>5. ASSUME x \notin MadeFor(j, j.asked[n + 1]), Apart(j) PROVE Apart(k)
    <2> SUFFICES ASSUME NEW a \in (1 .. n) \cup {n + 1}, NEW b \in (1 .. n) \cup {n + 1},
                        j.asked[a] = j.asked[b], k.answered[a] = k.answered[b]
                 PROVE  a = b
      BY <1>1, <1>3 DEF Apart
    <2>1. ASSUME NEW m \in 1 .. n, j.asked[m] = j.asked[n + 1] PROVE k.answered[m] # x
      <3>1. j.answered[m] \in MadeFor(j, j.asked[n + 1])
        BY <1>2, <2>1 DEF MadeFor
      <3>2. QED
        BY <1>1, <1>5, <3>1
    <2>2. CASE a \in 1 .. n /\ b \in 1 .. n
      BY <1>1, <1>2, <1>5, <2>2 DEF Apart
    <2>3. CASE a = n + 1 \/ b = n + 1
      BY <1>1, <2>1, <2>3
    <2>4. QED
      BY <2>2, <2>3
  <1>6. QED
    BY <1>1, <1>2, <1>4, <1>5

\* What Insert adds is the version after those that the request sees; no other
\* request has a row of that tenant.
LEMMA InsertAdds ==
    ASSUME IInv, NEW r \in Requests, Insert(r), NEW t, t = Target(r)
    PROVE  /\ Row(r) \in Rows /\ Row(r).version = job[r].version
           /\ \E n \in Nat : Versions(Seen(r)) = 1 .. n /\ job[r].version = n + 1
           /\ \A q \in Requests : q # r => work[q][t] = {}
  <1>1. pc[r] = "insert" /\ pc[r] \in Busy
    BY DEF Insert, Busy
  <1>2. PICK n \in Nat : Versions(Seen(r)) = 1 .. n
    BY <1>1, TargetFits
  <1>3. /\ job[r].version \in Nat \ {0} /\ job[r].version \notin 1 .. n
        /\ \A m \in Nat : 1 <= m /\ m < job[r].version => m \in 1 .. n
    BY <1>1, <1>2 DEF IInv, NumberFits, MayFollow, Insert, Duplicate
  <1>4. job[r].version = n + 1
    <2> DEFINE v == job[r].version
    <2>1. v \in Nat /\ v > n
      BY <1>3
    <2>2. v - 1 = 0 \/ v - 1 \in 1 .. n
      BY <1>3
    <2>3. QED
      BY <2>1, <2>2
  <1>5. Row(r) \in Rows /\ Row(r).version = job[r].version
    BY DEF IInv, TypeOK, Row, Rows, Jobs
  <1>6. ASSUME NEW q \in Requests, q # r, work[q][t] # {} PROVE FALSE
    <2>1. t \in Tenants
      BY <1>1, TargetFits
    <2>2. work[r][t] = {}
      BY <1>6, <2>1 DEF IInv, RowsChain
    <2>3. Versions(config[t]) = 1 .. n
      BY <1>2, <2>2 DEF Seen
    <2>4. n + 1 \in Versions(work[q][t])
      BY <1>6, <2>1, <2>3, HasTheNext
    <2>5. Blocks(q, r)
      BY <1>4, <1>6, <2>4 DEF Blocks
    <2>6. QED
      BY <2>5 DEF Insert
  <1>7. QED
    BY <1>2, <1>4, <1>5, <1>6

\* One more version after these.
LEMMA ChainGrows ==
    ASSUME NEW rows, NEW x, NEW n \in Nat, Chain(rows), Versions(rows) = 1 .. n,
           x.version = n + 1
    PROVE  Chain(rows \cup {x})
  <1>1. Versions(rows \cup {x}) = Versions(rows) \cup {n + 1}
    BY DEF Versions
  <1>2. (1 .. n) \cup {n + 1} = 1 .. (n + 1)
    OBVIOUS
  <1>3. \A y \in rows : y.version # n + 1
    <2>1. \A y \in rows : y.version \in 1 .. n
      BY DEF Versions
    <2>2. n + 1 \notin 1 .. n
      OBVIOUS
    <2>3. QED
      BY <2>1, <2>2
  <1>4. n + 1 \in Nat
    OBVIOUS
  <1>5. \E m \in Nat : Versions(rows \cup {x}) = 1 .. m
    BY <1>1, <1>2, <1>4
  <1>6. \A y, z \in rows \cup {x} : y.version = z.version => y = z
    BY <1>3 DEF Chain
  <1>7. QED
    BY <1>5, <1>6 DEF Chain

LEMMA InsertKeeps == ASSUME IInv, NEW r \in Requests, Insert(r) PROVE IInv'
  <1>1. PICK t : t = Target(r)
    OBVIOUS
  <1>2. pc[r] = "insert" /\ pc[r] \in Busy
    BY DEF Insert, Busy
  <1>3. /\ t \in Tenants /\ Len(job[r].answered) \in Nat /\ Len(job[r].asked) \in Nat
        /\ Len(job[r].answered) < Len(job[r].asked)
    BY <1>1, <1>2, TargetFits
  <1>4. PICK n \in Nat : Versions(Seen(r)) = 1 .. n /\ job[r].version = n + 1
    BY <1>1, InsertAdds
  <1>5. PICK x \in Rows : x = Row(r) /\ x.version = n + 1
    BY <1>1, <1>4, InsertAdds
  <1>6. \A q \in Requests : q # r => work[q][t] = {}
    BY <1>1, InsertAdds
  <1>7. Seen(r) = config[t] \cup work[r][t]
    BY <1>1 DEF Seen
  <1>8. Chain(config[t] \cup work[r][t] \cup {x})
    <2>1. Chain(config[t] \cup work[r][t])
      BY <1>3 DEF IInv, RowsChain
    <2>2. QED
      BY <1>4, <1>5, <1>7, <2>1, ChainGrows
  <1>9. n + 1 \notin Versions(config[t] \cup work[r][t])
    BY <1>4, <1>7
  <1>10. /\ job[r].asked \in Seq(Tenants) /\ job[r].answered \in Seq(Rows)
         /\ JobFits(pc[r], job[r], work[r])
    BY DEF IInv, TypeOK, Jobs
  <1>11. PICK a \in Seq(Rows) : a = Append(job[r].answered, x)
    <2>1. Append(job[r].answered, x) \in Seq(Rows)
      BY <1>10, AppendProperties
    <2>2. QED
      BY <2>1
  <1>12. PICK j \in Jobs : /\ j = Rest(r, a) /\ j.asked = job[r].asked
                           /\ j.answered = Append(job[r].answered, x)
    BY <1>11, RestIs
  <1>13. PICK to : to = IF Len(job[r].answered) + 1 = Len(job[r].asked) THEN "done" ELSE "services"
    OBVIOUS
  <1>14. /\ job' = [job EXCEPT ![r] = j] /\ pc' = [pc EXCEPT ![r] = to]
         /\ work' = [work EXCEPT ![r][t] = @ \cup {x}]
         /\ edition' = edition /\ config' = config /\ device' = device
    BY <1>1, <1>5, <1>11, <1>12, <1>13 DEF Insert
  <1>15. \A q \in Requests, u \in Tenants :
            work'[q][u] = IF q = r /\ u = t THEN work[q][u] \cup {x} ELSE work[q][u]
    BY <1>14 DEF IInv, TypeOK
  <1>16. TypeOK'
    <2>1. work' \in [Requests -> [Tenants -> SUBSET Rows]]
      <3>1. work[r] \in [Tenants -> SUBSET Rows]
        BY DEF IInv, TypeOK
      <3>2. [work[r] EXCEPT ![t] = @ \cup {x}] \in [Tenants -> SUBSET Rows]
        BY <3>1
      <3>3. QED
        BY <1>14, <3>2 DEF IInv, TypeOK
    <2>2. QED
      BY <1>13, <1>14, <2>1 DEF IInv, TypeOK
  <1>17. RowsChain'
    <2> SUFFICES ASSUME NEW u \in Tenants
                 PROVE  /\ Chain(config[u])
                        /\ \A q \in Requests :
                              /\ Chain(config[u] \cup work'[q][u])
                              /\ \A y \in work'[q][u] : y.version \notin Versions(config[u])
                              /\ \A p \in Requests : p # q => work'[p][u] = {} \/ work'[q][u] = {}
      BY <1>14 DEF RowsChain
    <2>1. Chain(config[u])
      BY DEF IInv, RowsChain
    <2>2. ASSUME NEW q \in Requests PROVE Chain(config[u] \cup work'[q][u])
      <3>1. CASE q = r /\ u = t
        <4>1. config[u] \cup work'[q][u] = config[t] \cup work[r][t] \cup {x}
          BY <1>15, <3>1
        <4>2. QED
          BY <1>8, <4>1
      <3>2. CASE ~(q = r /\ u = t)
        <4>1. work'[q][u] = work[q][u]
          BY <1>15, <3>2
        <4>2. QED
          BY <4>1 DEF IInv, RowsChain
      <3>3. QED
        BY <3>1, <3>2
    <2>3. ASSUME NEW q \in Requests, NEW y \in work'[q][u]
          PROVE  y.version \notin Versions(config[u])
      <3>1. Versions(config[t]) \subseteq Versions(config[t] \cup work[r][t])
        BY DEF Versions
      <3>2. CASE q = r /\ u = t /\ y = x
        BY <1>5, <1>9, <3>1, <3>2
      <3>3. CASE ~(q = r /\ u = t /\ y = x)
        <4>1. y \in work[q][u]
          BY <1>15, <2>3, <3>3
        <4>2. QED
          BY <4>1 DEF IInv, RowsChain
      <3>4. QED
        BY <3>2, <3>3
    <2>4. ASSUME NEW q \in Requests, NEW p \in Requests, p # q
          PROVE  work'[p][u] = {} \/ work'[q][u] = {}
      <3>1. work[p][u] = {} \/ work[q][u] = {}
        BY <2>4 DEF IInv, RowsChain
      <3>2. QED
        BY <1>6, <1>15, <2>4, <3>1
    <2>5. QED
      BY <2>1, <2>2, <2>3, <2>4
  <1>18. JobFits(to, j, work'[r])
    <2>1. /\ Len(j.answered) = Len(job[r].answered) + 1
          /\ \A u : MadeFor(j, u) = IF u = t THEN MadeFor(job[r], u) \cup {x}
                                    ELSE MadeFor(job[r], u)
          /\ x \notin MadeFor(job[r], t) /\ Apart(job[r]) => Apart(j)
      <3>1. t = job[r].asked[Len(job[r].answered) + 1]
        BY <1>1 DEF Target
      <3>2. x \in Rows /\ Len(job[r].answered) < Len(job[r].asked)
        BY <1>3
      <3>3. j.asked = job[r].asked /\ j.answered = Append(job[r].answered, x)
        BY <1>12
      <3>4. /\ job[r].asked \in Seq(Tenants) /\ job[r].answered \in Seq(Rows)
        BY <1>10
      <3>5. PICK b : b = job[r]
        OBVIOUS
      <3>6. /\ b.asked \in Seq(Tenants) /\ b.answered \in Seq(Rows)
            /\ Len(b.answered) < Len(b.asked) /\ j.asked = b.asked
            /\ j.answered = Append(b.answered, x)
        BY <3>2, <3>3, <3>4, <3>5
      <3>7. /\ Len(j.answered) = Len(b.answered) + 1
            /\ \A u : MadeFor(j, u) = IF u = b.asked[Len(b.answered) + 1]
                                      THEN MadeFor(b, u) \cup {x} ELSE MadeFor(b, u)
            /\ x \notin MadeFor(b, b.asked[Len(b.answered) + 1]) /\ Apart(b) => Apart(j)
        BY <3>2, <3>6, MadeGrows
      <3>8. QED
        BY <3>1, <3>5, <3>7
    <2>2. \A u \in Tenants : work[r][u] = MadeFor(job[r], u)
      BY <1>2, <1>10 DEF JobFits
    <2>3. x \notin MadeFor(job[r], t)
      <3>1. x \notin config[t] \cup work[r][t]
        BY <1>5, <1>9 DEF Versions
      <3>2. QED
        BY <1>3, <2>2, <3>1
    <2>4. Apart(j)
      BY <1>10, <2>1, <2>3 DEF JobFits
    <2>5. \A u \in Tenants : work'[r][u] = MadeFor(j, u)
      BY <1>15, <2>1, <2>2
    <2>6. /\ Len(j.answered) <= Len(j.asked) /\ to # "idle"
          /\ to \in Busy => Len(j.answered) < Len(j.asked)
          /\ to = "done" => Len(j.answered) = Len(j.asked)
      BY <1>3, <1>12, <1>13, <2>1 DEF Busy
    <2>7. QED
      BY <2>4, <2>5, <2>6 DEF JobFits
  <1>19. ASSUME NEW q \in Requests PROVE JobFits(pc'[q], job'[q], work'[q]) /\ NumberFits(q)'
    <2>1. CASE q = r
      <3>1. job'[q] = j /\ pc'[q] = to
        BY <1>14, <2>1 DEF IInv, TypeOK
      <3>2. to # "insert"
        BY <1>13
      <3>3. QED
        BY <1>18, <2>1, <3>1, <3>2 DEF NumberFits
    <2>2. CASE q # r
      <3>1. job'[q] = job[q] /\ pc'[q] = pc[q] /\ work'[q] = work[q]
        BY <1>14, <2>2 DEF IInv, TypeOK
      <3>2. JobFits(pc'[q], job'[q], work'[q])
        BY <3>1 DEF IInv
      <3>3. NumberFits(q)'
        BY <1>14, <3>1 DEF IInv, NumberFits, Seen, Target
      <3>4. QED
        BY <3>2, <3>3
    <2>3. QED
      BY <2>1, <2>2
  <1>20. QED
    BY <1>16, <1>17, <1>19 DEF IInv

\* What may follow these versions may follow more of them.
LEMMA MayStillFollow ==
    ASSUME NEW v, NEW rows, NEW more, NEW own, MayFollow(v, rows, own)
    PROVE  MayFollow(v, rows \cup more, own)
  <1>1. Versions(rows) \subseteq Versions(rows \cup more)
    BY DEF Versions
  <1>2. QED
    BY <1>1 DEF MayFollow

\* A commit adds what one request has inserted; of the tenants it has rows of, no
\* other request has any.
LEMMA CommitKeeps == ASSUME IInv, NEW r \in Requests, Commit(r) PROVE IInv'
  <1>1. /\ config' = [t \in Tenants |-> config[t] \cup work[r][t]]
        /\ pc' = [pc EXCEPT ![r] = "idle"] /\ job' = [job EXCEPT ![r] = NoJob]
        /\ work' = [work EXCEPT ![r] = Nothing] /\ edition' = edition /\ device' = device
    BY DEF Commit, End
  <1>2. /\ \A t \in Tenants : config'[t] = config[t] \cup work[r][t]
        /\ \A q \in Requests, t \in Tenants : work'[q][t] = IF q = r THEN {} ELSE work[q][t]
    BY <1>1 DEF IInv, TypeOK, Nothing
  <1>3. TypeOK'
    BY <1>1, TypesOfConstants DEF IInv, TypeOK, Nothing
  <1>4. RowsChain'
    <2> SUFFICES ASSUME NEW t \in Tenants
                 PROVE  /\ Chain(config'[t])
                        /\ \A q \in Requests :
                              /\ Chain(config'[t] \cup work'[q][t])
                              /\ \A x \in work'[q][t] : x.version \notin Versions(config'[t])
                              /\ \A p \in Requests : p # q => work'[p][t] = {} \/ work'[q][t] = {}
      BY DEF RowsChain
    <2>1. Chain(config'[t])
      BY <1>2 DEF IInv, RowsChain
    <2>2. ASSUME NEW q \in Requests, work'[q][t] # {}
          PROVE  q # r /\ work'[q][t] = work[q][t] /\ config'[t] = config[t]
      <3>1. q # r /\ work'[q][t] = work[q][t]
        BY <1>2, <2>2
      <3>2. work[r][t] = {}
        BY <2>2, <3>1 DEF IInv, RowsChain
      <3>3. QED
        BY <1>2, <3>1, <3>2
    <2>3. ASSUME NEW q \in Requests PROVE Chain(config'[t] \cup work'[q][t])
      <3>1. CASE work'[q][t] = {}
        <4>1. config'[t] \cup work'[q][t] = config'[t]
          BY <3>1
        <4>2. QED
          BY <2>1, <4>1
      <3>2. CASE work'[q][t] # {}
        <4>1. config'[t] \cup work'[q][t] = config[t] \cup work[q][t]
          BY <2>2, <3>2
        <4>2. QED
          BY <4>1 DEF IInv, RowsChain
      <3>3. QED
        BY <3>1, <3>2
    <2>4. ASSUME NEW q \in Requests, NEW x \in work'[q][t]
          PROVE  x.version \notin Versions(config'[t])
      <3>1. x \in work[q][t] /\ config'[t] = config[t]
        BY <2>2, <2>4
      <3>2. QED
        BY <3>1 DEF IInv, RowsChain
    <2>5. ASSUME NEW q \in Requests, NEW p \in Requests, p # q
          PROVE  work'[p][t] = {} \/ work'[q][t] = {}
      <3>1. work[p][t] = {} \/ work[q][t] = {}
        BY <2>5 DEF IInv, RowsChain
      <3>2. QED
        BY <1>2, <3>1
    <2>6. QED
      BY <2>1, <2>3, <2>4, <2>5
  <1>5. ASSUME NEW q \in Requests PROVE JobFits(pc'[q], job'[q], work'[q]) /\ NumberFits(q)'
    <2>1. CASE q = r
      <3>1. job'[q] = NoJob /\ pc'[q] = "idle" /\ work'[q] = Nothing
        BY <1>1, <2>1 DEF IInv, TypeOK
      <3>2. QED
        BY <3>1, IdleFits DEF NumberFits
    <2>2. CASE q # r
      <3>1. job'[q] = job[q] /\ pc'[q] = pc[q] /\ work'[q] = work[q]
        BY <1>1, <2>2 DEF IInv, TypeOK
      <3>2. JobFits(pc'[q], job'[q], work'[q])
        BY <3>1 DEF IInv
      <3>3. ASSUME pc[q] = "insert"
            PROVE  MayFollow(job'[q].version, Seen(q)', work'[q][Target(q)'])
        <4>1. PICK u : u = Target(q)
          OBVIOUS
        <4>2. Target(q)' = u
          BY <3>1, <4>1 DEF Target
        <4>3. u \in Tenants
          BY <3>3, <4>1, TargetFits DEF Busy
        <4>4. MayFollow(job[q].version, config[u] \cup work[q][u], work[q][u])
          BY <3>3, <4>1 DEF IInv, NumberFits, Seen
        <4>5. Seen(q)' = (config[u] \cup work[q][u]) \cup work[r][u]
          BY <1>2, <3>1, <4>2, <4>3 DEF Seen
        <4>6. MayFollow(job[q].version, (config[u] \cup work[q][u]) \cup work[r][u], work[q][u])
          BY <4>4, MayStillFollow
        <4>7. job'[q].version = job[q].version /\ work'[q][Target(q)'] = work[q][u]
          BY <3>1, <4>2
        <4>8. QED
          BY <4>5, <4>6, <4>7
      <3>4. NumberFits(q)'
        BY <3>1, <3>3 DEF NumberFits
      <3>5. QED
        BY <3>2, <3>4
    <2>3. QED
      BY <2>1, <2>2
  <1>6. QED
    BY <1>3, <1>4, <1>5 DEF IInv

LEMMA NextKeeps == ASSUME IInv, [Next]_vars PROVE IInv'
  <1>1. CASE UNCHANGED vars
    <2>1. /\ edition' = edition /\ config' = config /\ device' = device
          /\ pc' = pc /\ job' = job /\ work' = work
      BY <1>1 DEF vars
    <2>2. TypeOK' /\ RowsChain'
      BY <2>1 DEF IInv, TypeOK, RowsChain
    <2>3. \A r \in Requests : JobFits(pc'[r], job'[r], work'[r]) /\ NumberFits(r)'
      BY <2>1 DEF IInv, NumberFits, Seen, Target
    <2>4. QED
      BY <2>2, <2>3 DEF IInv
  <1>2. CASE Edit
    BY <1>2, EditKeeps
  <1>3. ASSUME NEW r \in Requests, \E b \in Broadcasts : StartPush(r, b) PROVE IInv'
    BY <1>3, StartPushKeeps
  <1>4. ASSUME NEW r \in Requests, \E t \in Tenants : StartSettings(r, t) PROVE IInv'
    BY <1>4, StartSettingsKeeps
  <1>5. ASSUME NEW r \in Requests, \E t \in Devices : StartDownload(r, t) PROVE IInv'
    BY <1>5, StartDownloadKeeps
  <1>6. ASSUME NEW r \in Requests, Step(r) PROVE IInv'
    <2>1. CASE ReadServices(r)
      BY <2>1, ReadServicesKeeps
    <2>2. CASE ReadFlags(r)
      BY <2>2, ReadFlagsKeeps
    <2>3. CASE Number(r)
      BY <2>3, NumberKeeps
    <2>4. CASE Insert(r)
      BY <2>4, InsertKeeps
    <2>5. CASE InsertFails(r) \/ StatementFails(r) \/ DeadlockVictim(r)
      BY <2>5, BreakKeeps DEF InsertFails, StatementFails, DeadlockVictim
    <2>6. CASE Commit(r)
      BY <2>6, CommitKeeps
    <2>7. CASE EndFailed(r)
      BY <2>7, EndsKeep
    <2>8. CASE DownloadConfig(r)
      BY <2>8, DownloadConfigKeeps
    <2>9. CASE DownloadRest(r)
      BY <2>9, DownloadRestKeeps
    <2>10. QED
      BY <1>6, <2>1, <2>2, <2>3, <2>4, <2>5, <2>6, <2>7, <2>8, <2>9 DEF Step
  <1>7. ASSUME NEW r \in Requests, Abort(r) PROVE IInv'
    BY <1>7, EndsKeep
  <1>8. QED
    BY <1>1, <1>2, <1>3, <1>4, <1>5, <1>6, <1>7 DEF Next

THEOREM IInvHolds == Spec => []IInv
  <1>1. Init => IInv
    BY InitIInv
  <1>2. IInv /\ [Next]_vars => IInv'
    BY NextKeeps
  <1>3. QED
    BY <1>1, <1>2, PTL DEF Spec

-----------------------------------------------------------------------------
(***************************************************************************)
(* Results.                                                                *)
(***************************************************************************)
\* Every variable keeps its type: in particular, only rows of configurations
\* are ever committed, and only tenants are answered for.
THEOREM TypeCorrect == Spec => []TypeOK
  BY IInvHolds, PTL DEF IInv

\* The versions of a tenant have no gap and no duplicate, for any number of
\* pushes, broadcasts, edits of the settings and aborted requests at once, and
\* also when one broadcast names a tenant several times and so numbers past rows
\* of its own that are not committed yet (config_service.go:124-129, :217-229).
THEOREM VersionsHaveNoGap == Spec => []VersionsGapless
  <1>1. IInv => VersionsGapless
    <2> SUFFICES ASSUME IInv, NEW t \in Tenants
                 PROVE  /\ Versions(config[t]) = 1 .. Newest(config[t])
                        /\ \A x, y \in config[t] : x.version = y.version => x = y
      BY DEF VersionsGapless
    <2>1. Versions(config[t]) = 1 .. Newest(config[t])
      BY VersionsAre
    <2>2. QED
      BY <2>1 DEF IInv, RowsChain, Chain
  <1>2. QED
    BY <1>1, IInvHolds, PTL

\* The commit of a request: it has made one version for each time that its list
\* names a tenant, and these are the ones that the commit adds.
Whole(r) ==
    LET asked == job[r].asked
        answered == job[r].answered
    IN /\ Len(answered) = Len(asked)
       /\ \A t \in Tenants : config'[t] \ config[t] =
             {answered[i] : i \in {k \in 1 .. Len(asked) : asked[k] = t}}
       /\ \A i, k \in 1 .. Len(asked) :
             asked[i] = asked[k] /\ answered[i] = answered[k] => i = k

LEMMA StepIsAllOrNothing ==
    ASSUME IInv, Next, config' # config
    PROVE  \E r \in Requests : Whole(r)
  <1>1. PICK r \in Requests : Commit(r)
    BY DEF Next, Step, Edit, StartPush, StartSettings, StartDownload, ReadServices, ReadFlags,
           Number, Insert, InsertFails, StatementFails, DeadlockVictim, Break, EndFailed,
           DownloadConfig, DownloadRest, Abort, Go
  <1>2. /\ Len(job[r].answered) = Len(job[r].asked) /\ Apart(job[r])
        /\ \A t \in Tenants : work[r][t] = MadeFor(job[r], t)
    BY <1>1 DEF Commit, IInv, JobFits
  <1>3. ASSUME NEW t \in Tenants PROVE config'[t] \ config[t] = work[r][t]
    <2>1. config'[t] = config[t] \cup work[r][t]
      BY <1>1 DEF Commit
    <2>2. \A x \in work[r][t] : x \notin config[t]
      BY DEF IInv, RowsChain, Versions
    <2>3. QED
      BY <2>1, <2>2
  <1>4. Whole(r)
    BY <1>2, <1>3 DEF Whole, MadeFor, Apart
  <1>5. QED
    BY <1>4

\* A broadcast commits exactly the versions that it answers, one more for each
\* time that its list names a tenant, or none, whichever statement fails and
\* however often the list names one (config_service.go:217-231).
THEOREM BroadcastIsAllOrNothing == Spec => AllOrNothing
  <1>1. IInv /\ [Next]_vars => [config' # config => \E r \in Requests : Whole(r)]_vars
    BY StepIsAllOrNothing
  <1>2. QED
    BY <1>1, IInvHolds, PTL DEF Spec, AllOrNothing, Whole

-----------------------------------------------------------------------------
(***************************************************************************)
(* What the versions of a tenant hold, and what its device holds of them.  *)
(* A row is made by a request that sees the committed rows and its own, so *)
(* what it must fit are those rows, and rows that join them later.         *)
(***************************************************************************)
\* The versions up to b are among these rows, so that every later one is above b.
Known(b, rows) == \A m \in 1 .. b : m \in Versions(rows)

\* What a row must hold at edition e, among these rows.
RowFits(x, rows, e) ==
    /\ x.services <= e /\ x.flags <= e
    /\ Known(x.base, rows)
    /\ x.by = "push" =>
          \A y \in rows : y.version <= x.base => y.services <= x.services /\ y.flags <= x.flags
    /\ x.by = "settings" =>
          \E y \in rows : y.version = x.base /\ y.services = x.services /\ y.flags = x.flags

\* x is made of what the request has read.
DraftOf(x, j) ==
    /\ x.services = j.services /\ x.flags = j.flags /\ x.base = j.base
    /\ x.by = IF j.kind = "push" THEN "push" ELSE "settings"

\* Services s read over the base b are as new as those of the rows up to b.
ServicesFit(s, b, rows, e) ==
    s <= e /\ Known(b, rows) /\ \A y \in rows : y.version <= b => y.services <= s

\* The parts that a request at p, about j, has read will fit, when they are a row.
DraftFits(p, j, rows, e) ==
    /\ p \in {"services", "flags"} => j.kind = "push"
    /\ j.kind # "push" => Len(j.asked) <= 1
    /\ p = "flags" => ServicesFit(j.services, j.base, rows, e)
    /\ p \in {"number", "insert"} => \A x \in Rows : DraftOf(x, j) => RowFits(x, rows, e)

\* What a download has found, among the versions c and with the devices d: nothing
\* newer than what its device has, or the data of the version it will report.
FoundFits(p, j, c, d) ==
    /\ p \in {"config", "fresh"} => j.kind = "download" /\ \E t \in Devices : j.asked = <<t>>
    /\ p = "config" => j.version = 0 /\ j.found = NoConfig
    /\ p = "fresh" =>
          \A t \in Devices : j.asked = <<t>> =>
             \/ j.found = NoConfig /\ j.version = d[t].version
             \/ j.found \in c[t] /\ j.found.version = j.version

RequestFits(r) ==
    /\ DraftFits(pc[r], job[r], Seen(r), edition)
    /\ FoundFits(pc[r], job[r], config, device)
    /\ \A t \in Tenants : \A x \in work[r][t] : RowFits(x, config[t] \cup work[r][t], edition)

CommittedFit == \A t \in Tenants : \A x \in config[t] : RowFits(x, config[t], edition)

\* A device downloads for itself, one download at a time.
OneDownload ==
    \A r, q \in Requests :
        r # q /\ job[r].kind = "download" /\ job[q].kind = "download" => job[r].asked # job[q].asked

CInv ==
    /\ CommittedFit
    /\ \A r \in Requests : RequestFits(r)
    /\ OneDownload
    /\ DeviceIsConsistent

-----------------------------------------------------------------------------
\* Rows that join others, when all of them make a chain, are above those known.
LEMMA JoiningIsAbove ==
    ASSUME NEW rows, NEW more, rows \subseteq more, Chain(more), NEW b \in Nat, Known(b, rows)
    PROVE  /\ Known(b, more)
           /\ \A y \in more : y.version <= b => y \in rows
  <1>1. Known(b, more)
    BY DEF Known, Versions
  <1>2. ASSUME NEW y \in more, y.version <= b PROVE y \in rows
    <2>1. PICK n \in Nat : Versions(more) = 1 .. n
      BY DEF Chain
    <2>2. y.version \in 1 .. n
      BY <2>1 DEF Versions
    <2>3. y.version \in 1 .. b
      BY <1>2, <2>2
    <2>4. PICK z \in rows : z.version = y.version
      BY <2>3 DEF Known, Versions
    <2>5. QED
      BY <2>4 DEF Chain
  <1>3. QED
    BY <1>1, <1>2

\* A row that fits goes on to fit.
LEMMA RowStays ==
    ASSUME NEW rows, NEW more, rows \subseteq more, Chain(more),
           NEW e \in Nat, NEW f \in Nat, e <= f, NEW x \in Rows, RowFits(x, rows, e)
    PROVE  RowFits(x, more, f)
  <1>1. x.base \in Nat /\ x.services \in Nat /\ x.flags \in Nat
    BY DEF Rows
  <1>2. x.services <= f /\ x.flags <= f
    BY <1>1 DEF RowFits
  <1>3. Known(x.base, more) /\ \A y \in more : y.version <= x.base => y \in rows
    BY <1>1, JoiningIsAbove DEF RowFits
  <1>4. QED
    BY <1>2, <1>3 DEF RowFits

\* What a request has read goes on to fit.
LEMMA DraftStays ==
    ASSUME NEW rows, NEW more, rows \subseteq more, Chain(more),
           NEW e \in Nat, NEW f \in Nat, e <= f, NEW p, NEW j \in Jobs, DraftFits(p, j, rows, e)
    PROVE  DraftFits(p, j, more, f)
  <1>1. ASSUME p = "flags" PROVE ServicesFit(j.services, j.base, more, f)
    <2>1. j.base \in Nat /\ j.services \in Nat
      BY DEF Jobs
    <2>2. ServicesFit(j.services, j.base, rows, e)
      BY <1>1 DEF DraftFits
    <2>3. Known(j.base, more) /\ \A y \in more : y.version <= j.base => y \in rows
      BY <2>1, <2>2, JoiningIsAbove DEF ServicesFit
    <2>4. j.services <= f
      BY <2>1, <2>2 DEF ServicesFit
    <2>5. QED
      BY <2>2, <2>3, <2>4 DEF ServicesFit
  <1>2. ASSUME p \in {"number", "insert"}, NEW x \in Rows, DraftOf(x, j)
        PROVE  RowFits(x, more, f)
    BY <1>2, RowStays DEF DraftFits
  <1>3. QED
    BY <1>1, <1>2 DEF DraftFits

\* The request sees only rows of a chain.
LEMMA SeenIsChain ==
    ASSUME IInv, NEW r \in Requests, pc[r] \in Busy
    PROVE  Chain(Seen(r))
  BY TargetFits DEF IInv, RowsChain, Seen

\* A request that does not move goes on to fit, whatever another one commits.
LEMMA OthersFit ==
    ASSUME IInv, IInv', CInv, NEW q \in Requests,
           pc'[q] = pc[q], job'[q] = job[q], work'[q] = work[q], edition <= edition',
           \A t \in Tenants : config[t] \subseteq config'[t],
           pc[q] = "fresh" =>
              \A d \in Devices : job[q].asked = <<d>> => device'[d].version = device[d].version
    PROVE  RequestFits(q)'
  <1>1. edition \in Nat /\ edition' \in Nat /\ job[q] \in Jobs
    BY DEF IInv, TypeOK
  <1>2. RequestFits(q)
    BY DEF CInv
  <1>3. DraftFits(pc'[q], job'[q], Seen(q)', edition')
    <2>1. CASE pc[q] \in Busy
      <3>1. PICK t \in Tenants : t = Target(q)
        BY <2>1, TargetFits
      <3>2. Target(q)' = t
        BY <3>1 DEF Target
      <3>3. Seen(q) = config[t] \cup work[q][t] /\ Seen(q)' = config'[t] \cup work[q][t]
        BY <3>1, <3>2 DEF Seen
      <3>4. PICK rows : rows = Seen(q)
        OBVIOUS
      <3>5. PICK more : more = config'[t] \cup work[q][t]
        OBVIOUS
      <3>6. Chain(more)
        BY <3>5 DEF IInv, RowsChain
      <3>7. rows \subseteq more
        BY <3>3, <3>4, <3>5
      <3>8. DraftFits(pc[q], job[q], rows, edition)
        BY <1>2, <3>4 DEF RequestFits
      <3>9. DraftFits(pc[q], job[q], more, edition')
        BY <1>1, <3>6, <3>7, <3>8, DraftStays
      <3>10. QED
        BY <3>3, <3>5, <3>9
    <2>2. CASE pc[q] \notin Busy
      BY <1>2, <2>2 DEF RequestFits, DraftFits, Busy
    <2>3. QED
      BY <2>1, <2>2
  <1>4. FoundFits(pc'[q], job'[q], config', device')
    BY <1>2, DevicesAssumption DEF RequestFits, FoundFits
  <1>5. ASSUME NEW t \in Tenants, NEW x \in work'[q][t]
        PROVE  RowFits(x, config'[t] \cup work'[q][t], edition')
    <2>1. x \in Rows /\ RowFits(x, config[t] \cup work[q][t], edition)
      BY <1>2, <1>5 DEF RequestFits, IInv, TypeOK
    <2>2. Chain(config'[t] \cup work'[q][t])
      BY DEF IInv, RowsChain
    <2>3. config[t] \cup work[q][t] \subseteq config'[t] \cup work'[q][t]
      OBVIOUS
    <2>4. QED
      BY <1>1, <2>1, <2>2, <2>3, RowStays
  <1>6. QED
    BY <1>3, <1>4, <1>5 DEF RequestFits

\* What is committed goes on to fit, and what a request commits with it fits as
\* it did among the rows that the request saw.
LEMMA CommittedRowsFit ==
    ASSUME IInv, IInv', CInv, edition <= edition', NEW t \in Tenants,
           \/ config'[t] = config[t]
           \/ \E r \in Requests : config'[t] = config[t] \cup work[r][t],
           NEW x \in config'[t]
    PROVE  RowFits(x, config'[t], edition')
  <1>1. edition \in Nat /\ edition' \in Nat /\ Chain(config'[t]) /\ x \in Rows
    BY DEF IInv, TypeOK, RowsChain
  <1>2. CASE x \in config[t]
    <2>1. RowFits(x, config[t], edition) /\ config[t] \subseteq config'[t]
      BY <1>2 DEF CInv, CommittedFit
    <2>2. QED
      BY <1>1, <2>1, RowStays
  <1>3. CASE x \notin config[t]
    <2>1. PICK r \in Requests : config'[t] = config[t] \cup work[r][t] /\ x \in work[r][t]
      BY <1>3
    <2>2. RowFits(x, config[t] \cup work[r][t], edition)
      BY <2>1 DEF CInv, RequestFits
    <2>3. RowFits(x, config'[t], edition)
      BY <2>1, <2>2
    <2>4. QED
      BY <1>1, <2>3, RowStays
  <1>4. QED
    BY <1>2, <1>3

\* The devices keep what they hold: committed rows stay.
LEMMA DevicesStay ==
    ASSUME \A t \in Tenants : config[t] \subseteq config'[t], DeviceIsConsistent, device' = device
    PROVE  DeviceIsConsistent'
  BY DevicesAssumption
  DEF DeviceIsConsistent, DeviceHoldsItsVersion, FreshNotOlderThanConfig

-----------------------------------------------------------------------------
\* A step of one request: what is left to show of it is that the request itself
\* fits, that it is no second download, and that the devices are consistent.
LEMMA StepKeepsCatalogue ==
    ASSUME IInv, IInv', CInv, NEW r \in Requests, NEW to, NEW j, NEW w,
           pc' = [pc EXCEPT ![r] = to], job' = [job EXCEPT ![r] = j],
           work' = [work EXCEPT ![r] = w], edition' = edition,
           config' = config \/ config' = [t \in Tenants |-> config[t] \cup work[r][t]],
           DeviceIsConsistent', RequestFits(r)',
           j.kind = "download" =>
              \/ job[r].kind = "download" /\ j.asked = job[r].asked
              \/ \A q \in Requests : job[q].kind = "download" => j.asked # job[q].asked,
           \A q \in Requests \ {r} : pc[q] = "fresh" =>
              \A d \in Devices : job[q].asked = <<d>> => device'[d].version = device[d].version
    PROVE  CInv'
  <1>1. edition \in Nat /\ edition <= edition'
    BY DEF IInv, TypeOK
  <1>2. \A t \in Tenants : config'[t] = config[t] \/ config'[t] = config[t] \cup work[r][t]
    OBVIOUS
  <1>3. CommittedFit'
    BY <1>1, <1>2, CommittedRowsFit DEF CommittedFit
  <1>4. ASSUME NEW q \in Requests PROVE RequestFits(q)'
    <2>1. CASE q # r
      <3>1. job'[q] = job[q] /\ pc'[q] = pc[q] /\ work'[q] = work[q]
        BY <2>1 DEF IInv, TypeOK
      <3>2. \A t \in Tenants : config[t] \subseteq config'[t]
        BY <1>2
      <3>3. QED
        BY <1>1, <2>1, <3>1, <3>2, OthersFit
    <2>2. QED
      BY <2>1
  <1>5. OneDownload'
    <2>1. \A q \in Requests : job'[q] = IF q = r THEN j ELSE job[q]
      BY DEF IInv, TypeOK
    <2>2. QED
      BY <2>1 DEF CInv, OneDownload
  <1>6. QED
    BY <1>3, <1>4, <1>5 DEF CInv

\* A step of one request that touches no table.
LEMMA GoKeepsCatalogue ==
    ASSUME IInv, IInv', CInv, NEW r \in Requests, NEW to, NEW j, Go(r, to, j),
           \A rows : rows = Seen(r)' => DraftFits(to, j, rows, edition),
           FoundFits(to, j, config, device),
           j.kind = "download" =>
              \/ job[r].kind = "download" /\ j.asked = job[r].asked
              \/ \A q \in Requests : job[q].kind = "download" => j.asked # job[q].asked
    PROVE  CInv'
  <1>1. /\ pc' = [pc EXCEPT ![r] = to] /\ job' = [job EXCEPT ![r] = j]
        /\ edition' = edition /\ config' = config /\ device' = device /\ work' = work
    BY DEF Go
  <1>2. job'[r] = j /\ pc'[r] = to
    BY <1>1 DEF IInv, TypeOK
  <1>3. work' = [work EXCEPT ![r] = work[r]]
    BY <1>1 DEF IInv, TypeOK
  <1>4. \A t \in Tenants : \A x \in work[r][t] : RowFits(x, config[t] \cup work[r][t], edition)
    BY DEF CInv, RequestFits
  <1>5. RequestFits(r)'
    BY <1>1, <1>2, <1>4 DEF RequestFits
  <1>6. DeviceIsConsistent'
    BY <1>1, DevicesStay DEF CInv
  <1>7. QED
    BY <1>1, <1>3, <1>5, <1>6, StepKeepsCatalogue

\* A request ends or fails.
LEMMA ForgettingKeepsCatalogue ==
    ASSUME IInv, IInv', CInv, NEW r \in Requests, NEW to \in {"idle", "failed"}, NEW j,
           \/ j = NoJob
           \/ j.kind = job[r].kind /\ j.asked = job[r].asked,
           pc' = [pc EXCEPT ![r] = to], job' = [job EXCEPT ![r] = j],
           work' = [work EXCEPT ![r] = Nothing], edition' = edition,
           config' = config \/ config' = [t \in Tenants |-> config[t] \cup work[r][t]],
           DeviceIsConsistent',
           \A q \in Requests \ {r} : pc[q] = "fresh" =>
              \A d \in Devices : job[q].asked = <<d>> => device'[d].version = device[d].version
    PROVE  CInv'
  <1>1. job'[r] = j /\ pc'[r] = to /\ \A t \in Tenants : work'[r][t] = {}
    BY DEF IInv, TypeOK, Nothing
  <1>2. j.kind # "push" => Len(j.asked) <= 1
    <2>1. CASE j = NoJob
      <3>1. Len(NoJob.asked) = 0
        BY TypesOfConstants
      <3>2. QED
        BY <2>1, <3>1
    <2>2. CASE j.kind = job[r].kind /\ j.asked = job[r].asked
      BY <2>2 DEF CInv, RequestFits, DraftFits
    <2>3. QED
      BY <2>1, <2>2
  <1>3. DraftFits(to, j, Seen(r)', edition') /\ FoundFits(to, j, config', device')
    BY <1>2 DEF DraftFits, FoundFits
  <1>4. RequestFits(r)'
    BY <1>1, <1>3 DEF RequestFits
  <1>5. j.kind = "download" => job[r].kind = "download" /\ j.asked = job[r].asked
    BY TypesOfConstants
  <1>6. QED
    BY <1>4, <1>5, StepKeepsCatalogue

\* The versions that the request sees once it has gone on.
LEMMA GoSees ==
    ASSUME IInv, NEW r \in Requests, NEW to, NEW j, Go(r, to, j),
           j.asked = job[r].asked, j.answered = job[r].answered
    PROVE  Seen(r)' = Seen(r)
  <1>1. job'[r] = j /\ config' = config /\ work' = work
    BY DEF Go, IInv, TypeOK
  <1>2. PICK t : t = Target(r)
    OBVIOUS
  <1>3. Target(r)' = t
    BY <1>1, <1>2 DEF Target
  <1>4. QED
    BY <1>1, <1>2, <1>3 DEF Seen

-----------------------------------------------------------------------------
LEMMA StartPushKeepsCatalogue ==
    ASSUME IInv, IInv', CInv, NEW r \in Requests, NEW b \in Broadcasts, StartPush(r, b)
    PROVE  CInv'
  <1> DEFINE j == [NoJob EXCEPT !.kind = "push", !.asked = b]
             to == IF b = <<>> THEN "done" ELSE "services"
  <1>1. Go(r, to, j) /\ to \in {"done", "services"}
    BY DEF StartPush
  <1>2. j.kind = "push"
    BY TypesOfConstants DEF Jobs, NoJob
  <1> HIDE DEF j, to
  <1>3. \A rows : DraftFits(to, j, rows, edition)
    BY <1>1, <1>2 DEF DraftFits
  <1>4. FoundFits(to, j, config, device)
    BY <1>1 DEF FoundFits
  <1>5. QED
    BY <1>1, <1>2, <1>3, <1>4, GoKeepsCatalogue

\* A request about one tenant sees the committed versions of it, at its start.
LEMMA StartSees ==
    ASSUME IInv, NEW r \in Requests, NEW t \in Tenants, NEW to, NEW j, Go(r, to, j),
           pc[r] = "idle", j.asked = <<t>>, j.answered = <<>>
    PROVE  Seen(r)' = config[t]
  <1>1. job'[r] = j /\ config' = config /\ work' = work
    BY DEF Go, IInv, TypeOK
  <1>2. j.asked[Len(j.answered) + 1] = t
    <2>1. Len(j.answered) + 1 = 1
      OBVIOUS
    <2>2. QED
      BY <2>1
  <1>3. Target(r)' = t
    BY <1>1, <1>2 DEF Target
  <1>4. work[r][t] = {}
    BY DEF IInv, JobFits
  <1>5. QED
    BY <1>1, <1>3, <1>4 DEF Seen

\* A change of the settings starts from a version that is committed.
LEMMA StartSettingsKeepsCatalogue ==
    ASSUME IInv, IInv', CInv, NEW r \in Requests, NEW t \in Tenants, StartSettings(r, t)
    PROVE  CInv'
  <1>1. PICK y \in config[t] :
            Go(r, "number", [NoJob EXCEPT !.kind = "settings", !.asked = <<t>>,
                                          !.services = y.services, !.flags = y.flags,
                                          !.base = y.version])
    BY DEF StartSettings
  <1> DEFINE j == [NoJob EXCEPT !.kind = "settings", !.asked = <<t>>,
                                !.services = y.services, !.flags = y.flags,
                                !.base = y.version]
  <1>2. y \in Rows /\ RowFits(y, config[t], edition)
    BY DEF IInv, TypeOK, CInv, CommittedFit
  <1>3. /\ j.kind = "settings" /\ j.asked = <<t>> /\ j.answered = <<>>
        /\ j.services = y.services /\ j.flags = y.flags /\ j.base = y.version
    BY TypesOfConstants DEF Jobs, NoJob
  <1>4. Go(r, "number", j) /\ pc[r] = "idle"
    BY <1>1 DEF StartSettings
  <1> HIDE DEF j
  <1>5. Known(y.version, config[t])
    <2>1. PICK n \in Nat : Versions(config[t]) = 1 .. n
      BY VersionsAre
    <2>2. y.version \in 1 .. n
      BY <2>1 DEF Versions
    <2>3. 1 .. y.version \subseteq 1 .. n
      BY <2>2
    <2>4. QED
      BY <2>1, <2>3 DEF Known
  <1>6. ASSUME NEW x \in Rows, DraftOf(x, j) PROVE RowFits(x, config[t], edition)
    <2>1. /\ x.services = y.services /\ x.flags = y.flags /\ x.base = y.version
          /\ x.by = "settings"
      BY <1>3, <1>6 DEF DraftOf
    <2>2. x.services <= edition /\ x.flags <= edition /\ Known(x.base, config[t])
      BY <1>2, <1>5, <2>1 DEF RowFits
    <2>3. \E z \in config[t] :
             z.version = x.base /\ z.services = x.services /\ z.flags = x.flags
      BY <2>1
    <2>4. QED
      BY <2>1, <2>2, <2>3 DEF RowFits
  <1>7. Seen(r)' = config[t]
    BY <1>3, <1>4, StartSees
  <1>8. Len(j.asked) <= 1
    BY <1>3
  <1>9. DraftFits("number", j, config[t], edition)
    BY <1>6, <1>8 DEF DraftFits
  <1>10. FoundFits("number", j, config, device)
    BY DEF FoundFits
  <1>11. QED
    BY <1>3, <1>4, <1>7, <1>9, <1>10, GoKeepsCatalogue

LEMMA StartDownloadKeepsCatalogue ==
    ASSUME IInv, IInv', CInv, NEW r \in Requests, NEW t \in Devices, StartDownload(r, t)
    PROVE  CInv'
  <1> DEFINE j == [NoJob EXCEPT !.kind = "download", !.asked = <<t>>]
  <1>1. /\ j.kind = "download" /\ j.asked = <<t>> /\ j.version = 0 /\ j.found = NoConfig
    BY TypesOfConstants DEF Jobs, NoJob
  <1>2. Go(r, "config", j)
    BY DEF StartDownload
  <1> HIDE DEF j
  <1>3. Len(j.asked) <= 1
    BY <1>1
  <1>4. \A rows : DraftFits("config", j, rows, edition)
    BY <1>3 DEF DraftFits
  <1>5. FoundFits("config", j, config, device)
    BY <1>1 DEF FoundFits
  <1>6. \A q \in Requests : job[q].kind = "download" => j.asked # job[q].asked
    BY <1>1 DEF StartDownload
  <1>7. QED
    BY <1>2, <1>4, <1>5, <1>6, GoKeepsCatalogue

\* A request that reads or numbers is no download.
LEMMA NoDownload ==
    ASSUME NEW p \in {"flags", "number", "insert"}, NEW j, NEW c, NEW d
    PROVE  FoundFits(p, j, c, d)
  BY DEF FoundFits

\* What a request sees is no newer than now.
LEMMA SeenIsNotNewer ==
    ASSUME IInv, CInv, NEW r \in Requests, pc[r] \in Busy, NEW y \in Seen(r)
    PROVE  y.services <= edition /\ y.flags <= edition
  <1>1. PICK t \in Tenants : t = Target(r)
    BY TargetFits
  <1>2. y \in config[t] \/ y \in work[r][t]
    BY <1>1 DEF Seen
  <1>3. QED
    BY <1>2 DEF CInv, CommittedFit, RequestFits, RowFits

LEMMA ReadServicesKeepsCatalogue ==
    ASSUME IInv, IInv', CInv, NEW r \in Requests, ReadServices(r) PROVE CInv'
  <1>1. pc[r] = "services" /\ pc[r] \in Busy
    BY DEF ReadServices, Busy
  <1>2. PICK n \in Nat : Versions(Seen(r)) = 1 .. n /\ Newest(Seen(r)) = n
    BY <1>1, TargetFits
  <1> DEFINE j == [job[r] EXCEPT !.services = edition, !.base = n]
  <1>3. Go(r, "flags", j)
    BY <1>2 DEF ReadServices
  <1>4. job[r] \in Jobs /\ edition \in Nat /\ job[r].kind = "push"
    BY <1>1 DEF IInv, TypeOK, CInv, RequestFits, DraftFits
  <1>5. /\ j.asked = job[r].asked /\ j.answered = job[r].answered /\ j.services = edition
        /\ j.base = n /\ j.kind = "push"
    BY <1>4 DEF Jobs
  <1> HIDE DEF j
  <1>6. Seen(r)' = Seen(r)
    BY <1>3, <1>5, GoSees
  <1>7. ServicesFit(j.services, j.base, Seen(r), edition)
    <2>1. Known(n, Seen(r))
      BY <1>2 DEF Known
    <2>2. \A y \in Seen(r) : y.services <= edition
      BY <1>1, SeenIsNotNewer
    <2>3. QED
      BY <1>4, <1>5, <2>1, <2>2 DEF ServicesFit
  <1>8. DraftFits("flags", j, Seen(r), edition)
    BY <1>5, <1>7 DEF DraftFits
  <1>9. QED
    BY <1>3, <1>5, <1>6, <1>8, NoDownload, GoKeepsCatalogue

LEMMA ReadFlagsKeepsCatalogue ==
    ASSUME IInv, IInv', CInv, NEW r \in Requests, ReadFlags(r) PROVE CInv'
  <1>1. pc[r] = "flags" /\ pc[r] \in Busy
    BY DEF ReadFlags, Busy
  <1> DEFINE j == [job[r] EXCEPT !.flags = edition]
  <1>2. job[r] \in Jobs /\ edition \in Nat /\ DraftFits("flags", job[r], Seen(r), edition)
    BY <1>1 DEF IInv, TypeOK, CInv, RequestFits
  <1>3. /\ j.asked = job[r].asked /\ j.answered = job[r].answered /\ j.flags = edition
        /\ j.services = job[r].services /\ j.base = job[r].base /\ j.kind = job[r].kind
    BY <1>2 DEF Jobs
  <1>4. Go(r, "number", j)
    BY DEF ReadFlags
  <1> HIDE DEF j
  <1>5. job[r].kind = "push"
    BY <1>2 DEF DraftFits
  <1>6. Seen(r)' = Seen(r)
    BY <1>3, <1>4, GoSees
  <1>7. ASSUME NEW x \in Rows, DraftOf(x, j) PROVE RowFits(x, Seen(r), edition)
    <2>1. /\ x.services = job[r].services /\ x.flags = edition /\ x.base = job[r].base
          /\ x.by = "push"
      BY <1>3, <1>5, <1>7 DEF DraftOf
    <2>2. ServicesFit(job[r].services, job[r].base, Seen(r), edition)
      BY <1>2 DEF DraftFits
    <2>3. \A y \in Seen(r) : y.flags <= edition
      BY <1>1, SeenIsNotNewer
    <2>4. edition <= edition
      BY <1>2
    <2>5. QED
      BY <2>1, <2>2, <2>3, <2>4 DEF RowFits, ServicesFit
  <1>8. DraftFits("number", j, Seen(r), edition)
    BY <1>3, <1>5, <1>7 DEF DraftFits
  <1>9. QED
    BY <1>3, <1>4, <1>5, <1>6, <1>8, NoDownload, GoKeepsCatalogue

\* The number of a version does not matter to what it holds.
LEMMA NumberKeepsCatalogue ==
    ASSUME IInv, IInv', CInv, NEW r \in Requests, Number(r) PROVE CInv'
  <1>1. PICK n : n = Newest(Seen(r)) + 1
    OBVIOUS
  <1> DEFINE j == [job[r] EXCEPT !.version = n]
  <1>2. Go(r, "insert", j)
    BY <1>1 DEF Number
  <1>3. job[r] \in Jobs /\ DraftFits("number", job[r], Seen(r), edition)
    BY DEF Number, IInv, TypeOK, CInv, RequestFits
  <1>4. /\ j.asked = job[r].asked /\ j.answered = job[r].answered /\ j.kind = job[r].kind
        /\ j.services = job[r].services /\ j.flags = job[r].flags /\ j.base = job[r].base
    BY <1>3 DEF Jobs
  <1> HIDE DEF j
  <1>5. Seen(r)' = Seen(r)
    BY <1>2, <1>4, GoSees
  <1>6. \A x : DraftOf(x, j) <=> DraftOf(x, job[r])
    BY <1>4 DEF DraftOf
  <1>7. DraftFits("insert", j, Seen(r), edition)
    BY <1>3, <1>4, <1>6 DEF DraftFits
  <1>8. QED
    BY <1>2, <1>4, <1>5, <1>7, NoDownload, GoKeepsCatalogue

\* The one tenant of a download.
LEMMA DownloadOf ==
    ASSUME IInv, CInv, NEW r \in Requests, pc[r] \in {"config", "fresh"}
    PROVE  /\ job[r].kind = "download"
           /\ \E t \in Devices : t \in Tenants /\ job[r].asked = <<t>> /\ Target(r) = t
  <1>1. PICK t \in Devices : job[r].asked = <<t>> /\ job[r].kind = "download"
    BY DEF CInv, RequestFits, FoundFits
  <1>2. Len(job[r].answered) \in Nat /\ Len(job[r].answered) < 1
    <2>1. pc[r] \in Busy
      BY DEF Busy
    <2>2. Len(job[r].asked) = 1
      BY <1>1
    <2>3. QED
      BY <2>1, <2>2, TargetFits
  <1>3. Len(job[r].answered) + 1 = 1
    BY <1>2
  <1>4. Target(r) = t
    BY <1>1, <1>3 DEF Target
  <1>5. QED
    BY <1>1, <1>4, DevicesAssumption

\* A device that is behind gets the newest version, any other nothing.
LEMMA DownloadConfigKeepsCatalogue ==
    ASSUME IInv, IInv', CInv, NEW r \in Requests, DownloadConfig(r) PROVE CInv'
  <1>1. pc[r] = "config" /\ pc[r] \in Busy
    BY DEF DownloadConfig, Busy
  <1>2. PICK t \in Devices : t \in Tenants /\ job[r].asked = <<t>> /\ Target(r) = t
    BY <1>1, DownloadOf
  <1>3. /\ job[r] \in Jobs /\ job[r].kind = "download" /\ job[r].version = 0
        /\ job[r].found = NoConfig
    BY <1>1, DownloadOf DEF CInv, RequestFits, FoundFits, IInv, TypeOK
  <1>4. \/ device[t].version = 0 /\ device[t].config = NoConfig
        \/ device[t].config \in config[t] /\ device[t].config.version = device[t].version
    BY DEF CInv, DeviceIsConsistent, DeviceHoldsItsVersion
  <1>5. ASSUME NEW v \in Nat, NEW f \in Rows,
               \/ f = NoConfig /\ v = device[t].version
               \/ f \in config[t] /\ f.version = v,
               Go(r, "fresh", [job[r] EXCEPT !.version = v, !.found = f])
        PROVE  CInv'
    <2> DEFINE j == [job[r] EXCEPT !.version = v, !.found = f]
    <2>1. /\ j.kind = "download" /\ j.version = v /\ j.found = f /\ j.asked = job[r].asked
      BY <1>3 DEF Jobs
    <2>2. Go(r, "fresh", j)
      BY <1>5
    <2> HIDE DEF j
    <2>3. Len(j.asked) <= 1
      BY <1>2, <2>1
    <2>4. \A rows : DraftFits("fresh", j, rows, edition)
      BY <2>3 DEF DraftFits
    <2>5. \A u \in Devices : j.asked = <<u>> => u = t
      BY <1>2, <2>1
    <2>6. FoundFits("fresh", j, config, device)
      BY <1>2, <1>5, <2>1, <2>5 DEF FoundFits
    <2>7. QED
      BY <1>3, <2>1, <2>2, <2>4, <2>6, GoKeepsCatalogue
  <1>6. CASE config[t] = {}
    <2>1. Go(r, "fresh", job[r])
      BY <1>2, <1>6 DEF DownloadConfig
    <2>2. job[r] = [job[r] EXCEPT !.version = 0, !.found = NoConfig]
      BY <1>3 DEF Jobs
    <2>3. device[t].version = 0
      BY <1>4, <1>6
    <2>4. Go(r, "fresh", [job[r] EXCEPT !.version = 0, !.found = NoConfig])
      BY <2>1, <2>2
    <2>5. /\ 0 \in Nat /\ NoConfig \in Rows
          /\ \/ NoConfig = NoConfig /\ 0 = device[t].version
             \/ NoConfig \in config[t] /\ NoConfig.version = 0
      BY <2>3, TypesOfConstants
    <2>6. QED
      BY <1>5, <2>4, <2>5
  <1>7. CASE config[t] # {}
    <2>1. PICK x \in config[t] :
              /\ x.version = Newest(config[t])
              /\ Go(r, "fresh", [job[r] EXCEPT
                    !.version = x.version,
                    !.found = IF x.version > device[t].version THEN x ELSE @])
      BY <1>2, <1>7 DEF DownloadConfig
    <2> DEFINE f == IF x.version > device[t].version THEN x ELSE NoConfig
    <2>2. x \in Rows /\ x.version \in Nat
      BY <1>2 DEF IInv, TypeOK, Rows
    <2>3. f \in Rows
      BY <2>2, TypesOfConstants
    <2>4. \A y \in config[t] : y.version <= x.version
      BY <1>2, <2>1, VersionsAre DEF Versions
    <2>5. device[t].version \in Nat
      BY DEF IInv, TypeOK
    <2>6. x.version > device[t].version \/ x.version = device[t].version
      <3>1. x.version >= device[t].version
        BY <1>4, <2>2, <2>4, <2>5
      <3>2. QED
        BY <2>2, <2>5, <3>1
    <2>7. \/ f = NoConfig /\ x.version = device[t].version
          \/ f \in config[t] /\ f.version = x.version
      BY <2>6
    <2>8. Go(r, "fresh", [job[r] EXCEPT !.version = x.version, !.found = f])
      BY <1>3, <2>1
    <2> HIDE DEF f
    <2>9. QED
      BY <1>5, <2>2, <2>3, <2>7, <2>8
  <1>8. QED
    BY <1>6, <1>7

\* What the device is given afresh is of now; its configuration was committed.
LEMMA DownloadRestKeepsCatalogue ==
    ASSUME IInv, IInv', CInv, NEW r \in Requests, DownloadRest(r) PROVE CInv'
  <1>1. pc[r] = "fresh" /\ pc[r] \in Busy
    BY DEF DownloadRest, Busy
  <1>2. PICK t \in Devices : t \in Tenants /\ job[r].asked = <<t>> /\ Target(r) = t
    BY <1>1, DownloadOf
  <1> DEFINE d == [version |-> job[r].version,
                   config |-> IF job[r].found # NoConfig THEN job[r].found
                                                         ELSE device[t].config,
                   services |-> IF job[r].version = 0 THEN 0 ELSE edition]
  <1>3. job[r] \in Jobs /\ job[r].kind = "download" /\ edition \in Nat
    BY <1>1, DownloadOf DEF IInv, TypeOK
  <1>4. /\ device' = [device EXCEPT ![t] = d] /\ config' = config /\ edition' = edition
        /\ pc' = [pc EXCEPT ![r] = "idle"] /\ job' = [job EXCEPT ![r] = NoJob]
        /\ work' = [work EXCEPT ![r] = Nothing]
    BY <1>2 DEF DownloadRest, End, IInv, TypeOK
  <1>5. \/ device[t].version = 0 /\ device[t].config = NoConfig
        \/ device[t].config \in config[t] /\ device[t].config.version = device[t].version
    BY DEF CInv, DeviceIsConsistent, DeviceHoldsItsVersion
  <1>6. \/ job[r].found = NoConfig /\ job[r].version = device[t].version
        \/ job[r].found \in config[t] /\ job[r].found.version = job[r].version
    BY <1>1, <1>2 DEF CInv, RequestFits, FoundFits
  <1>7. \A x \in config[t] : x.version \in Nat \ {0} /\ x.services <= edition
                            /\ x.flags <= edition
    <2>1. \A x \in config[t] : x.version \in Versions(config[t])
      BY DEF Versions
    <2>2. \A v \in Versions(config[t]) : v \in Nat \ {0}
      BY <1>2, VersionsAre
    <2>3. QED
      BY <1>2, <2>1, <2>2 DEF CInv, CommittedFit, RowFits
  <1>8. \/ d.version = 0 /\ d.config = NoConfig
        \/ d.config \in config[t] /\ d.config.version = d.version
    <2>1. CASE job[r].found = NoConfig /\ job[r].version = device[t].version
      BY <1>5, <2>1
    <2>2. CASE job[r].found \in config[t] /\ job[r].found.version = job[r].version
      <3>1. job[r].found # NoConfig
        BY <1>7, <2>2 DEF NoConfig
      <3>2. QED
        BY <2>2, <3>1
    <2>3. QED
      BY <1>6, <2>1, <2>2
  <1>9. d.config.services <= d.services /\ d.config.flags <= d.services
    <2>1. CASE d.version = 0 /\ d.config = NoConfig
      BY <2>1 DEF NoConfig
    <2>2. CASE d.config \in config[t] /\ d.config.version = d.version
      BY <1>7, <2>2
    <2>3. QED
      BY <1>8, <2>1, <2>2
  <1> HIDE DEF d
  <1>10. \A u \in Devices : device'[u] = IF u = t THEN d ELSE device[u]
    BY <1>4 DEF IInv, TypeOK
  <1>11. DeviceIsConsistent'
    BY <1>4, <1>8, <1>9, <1>10
    DEF CInv, DeviceIsConsistent, DeviceHoldsItsVersion, FreshNotOlderThanConfig
  <1>12. \A q \in Requests \ {r} : pc[q] = "fresh" =>
            \A u \in Devices : job[q].asked = <<u>> => device'[u].version = device[u].version
    <2> SUFFICES ASSUME NEW q \in Requests, q # r, pc[q] = "fresh",
                        NEW u \in Devices, job[q].asked = <<u>>
                 PROVE  device'[u].version = device[u].version
      OBVIOUS
    <2>1. job[q].kind = "download"
      BY DownloadOf
    <2>2. job[q].asked # job[r].asked
      BY <1>3, <2>1 DEF CInv, OneDownload
    <2>3. u # t
      BY <1>2, <2>2
    <2>4. QED
      BY <1>10, <2>3
  <1>13. QED
    BY <1>4, <1>11, <1>12, ForgettingKeepsCatalogue

\* The row that is inserted fits, as its parts did when they were read.
LEMMA InsertKeepsCatalogue ==
    ASSUME IInv, IInv', CInv, NEW r \in Requests, Insert(r) PROVE CInv'
  <1>1. PICK t : t = Target(r)
    OBVIOUS
  <1>2. pc[r] = "insert" /\ pc[r] \in Busy
    BY DEF Insert, Busy
  <1>3. /\ t \in Tenants /\ Len(job[r].answered) \in Nat /\ Len(job[r].asked) \in Nat
        /\ Len(job[r].answered) < Len(job[r].asked)
    BY <1>1, <1>2, TargetFits
  <1>4. PICK x \in Rows : x = Row(r)
    BY <1>1, InsertAdds
  <1>5. PICK a \in Seq(Rows) : a = Append(job[r].answered, x)
    <2>1. job[r].answered \in Seq(Rows)
      BY DEF IInv, TypeOK, Jobs
    <2>2. Append(job[r].answered, x) \in Seq(Rows)
      BY <2>1, AppendProperties
    <2>3. QED
      BY <2>2
  <1>6. PICK j : j = Rest(r, a) /\ j.asked = job[r].asked /\ j.kind = job[r].kind
    BY RestIs
  <1>7. PICK to : to = IF Len(job[r].answered) + 1 = Len(job[r].asked) THEN "done" ELSE "services"
    OBVIOUS
  <1>8. PICK w : w = [work[r] EXCEPT ![t] = @ \cup {x}]
    OBVIOUS
  <1>9. /\ job' = [job EXCEPT ![r] = j] /\ pc' = [pc EXCEPT ![r] = to]
        /\ work' = [work EXCEPT ![r] = w]
        /\ edition' = edition /\ config' = config /\ device' = device
    BY <1>1, <1>4, <1>5, <1>6, <1>7, <1>8 DEF Insert
  <1>10. \A u \in Tenants : work'[r][u] = IF u = t THEN work[r][u] \cup {x} ELSE work[r][u]
    BY <1>8, <1>9 DEF IInv, TypeOK
  <1>11. DraftFits("insert", job[r], Seen(r), edition) /\ edition \in Nat
    BY <1>2 DEF CInv, RequestFits, IInv, TypeOK
  <1>12. RowFits(x, config[t] \cup work[r][t], edition)
    <2>1. DraftOf(x, job[r])
      BY <1>4 DEF Row, DraftOf
    <2>2. QED
      BY <1>1, <1>11, <2>1 DEF DraftFits, Seen
  <1>13. ASSUME NEW u \in Tenants, NEW y \in work'[r][u]
         PROVE  RowFits(y, config[u] \cup work'[r][u], edition)
    <2>1. y \in Rows /\ Chain(config[u] \cup work'[r][u])
      BY <1>9, <1>13 DEF IInv, TypeOK, RowsChain
    <2>2. RowFits(y, config[u] \cup work[r][u], edition)
      <3>1. CASE u = t /\ y = x
        BY <1>12, <3>1
      <3>2. CASE ~(u = t /\ y = x)
        <4>1. y \in work[r][u]
          BY <1>10, <1>13, <3>2
        <4>2. QED
          BY <4>1 DEF CInv, RequestFits
      <3>3. QED
        BY <3>1, <3>2
    <2>3. config[u] \cup work[r][u] \subseteq config[u] \cup work'[r][u]
      BY <1>10
    <2>4. edition <= edition
      BY <1>11
    <2>5. QED
      BY <1>11, <2>1, <2>2, <2>3, <2>4, RowStays
  <1>14. j.kind # "push" => to = "done" /\ Len(j.asked) <= 1
    <2>1. j.kind # "push" => Len(j.asked) <= 1
      BY <1>6, <1>11 DEF DraftFits
    <2>2. Len(job[r].asked) <= 1 => Len(job[r].answered) + 1 = Len(job[r].asked)
      BY <1>3
    <2>3. QED
      BY <1>6, <1>7, <2>1, <2>2
  <1>15. to \in {"done", "services"}
    BY <1>7
  <1>16. job'[r] = j /\ pc'[r] = to
    BY <1>9 DEF IInv, TypeOK
  <1>17. RequestFits(r)'
    <2>1. DraftFits(to, j, Seen(r)', edition')
      BY <1>14, <1>15 DEF DraftFits
    <2>2. FoundFits(to, j, config', device')
      BY <1>15 DEF FoundFits
    <2>3. QED
      BY <1>9, <1>13, <1>16, <2>1, <2>2 DEF RequestFits
  <1>18. DeviceIsConsistent'
    BY <1>9, DevicesStay DEF CInv
  <1>19. QED
    BY <1>6, <1>9, <1>17, <1>18, StepKeepsCatalogue

LEMMA CommitKeepsCatalogue ==
    ASSUME IInv, IInv', CInv, NEW r \in Requests, Commit(r) PROVE CInv'
  <1>1. \A t \in Tenants : config[t] \subseteq config'[t]
    BY DEF Commit
  <1>2. DeviceIsConsistent'
    BY <1>1, DevicesStay DEF Commit, CInv
  <1>3. QED
    BY <1>2, ForgettingKeepsCatalogue DEF Commit, End

LEMMA EndsKeepCatalogue ==
    ASSUME IInv, IInv', CInv, NEW r \in Requests, EndFailed(r) \/ Abort(r)
    PROVE  CInv'
  <1>1. End(r) /\ edition' = edition /\ config' = config /\ device' = device
    BY DEF EndFailed, Abort
  <1>2. DeviceIsConsistent'
    BY <1>1, DevicesStay DEF CInv
  <1>3. QED
    BY <1>1, <1>2, ForgettingKeepsCatalogue DEF End

LEMMA BreakKeepsCatalogue ==
    ASSUME IInv, IInv', CInv, NEW r \in Requests, Break(r) PROVE CInv'
  <1>1. PICK j : j = Rest(r, job[r].answered)
    OBVIOUS
  <1>2. j.kind = job[r].kind /\ j.asked = job[r].asked
    <2>1. job[r].answered \in Seq(Rows)
      BY DEF IInv, TypeOK, Jobs
    <2>2. QED
      BY <1>1, <2>1, RestIs
  <1>3. /\ job' = [job EXCEPT ![r] = j] /\ pc' = [pc EXCEPT ![r] = "failed"]
        /\ work' = [work EXCEPT ![r] = Nothing]
        /\ edition' = edition /\ config' = config /\ device' = device
    BY <1>1 DEF Break
  <1>4. DeviceIsConsistent'
    BY <1>3, DevicesStay DEF CInv
  <1>5. QED
    BY <1>2, <1>3, <1>4, ForgettingKeepsCatalogue

\* What happens beside the requests only makes their readings older.
LEMMA BesideKeepsCatalogue ==
    ASSUME IInv, IInv', CInv, edition <= edition', config' = config, device' = device,
           pc' = pc, job' = job, work' = work
    PROVE  CInv'
  <1>1. CommittedFit'
    BY CommittedRowsFit DEF CommittedFit
  <1>2. \A r \in Requests : RequestFits(r)'
    BY OthersFit
  <1>3. OneDownload'
    BY DEF CInv, OneDownload
  <1>4. DeviceIsConsistent'
    BY DevicesStay DEF CInv
  <1>5. QED
    BY <1>1, <1>2, <1>3, <1>4 DEF CInv

LEMMA InitCatalogue == ASSUME Init PROVE CInv
  <1>1. /\ \A t \in Tenants : config[t] = {}
        /\ \A r \in Requests : pc[r] = "idle" /\ job[r] = NoJob
        /\ \A r \in Requests, t \in Tenants : work[r][t] = {}
    BY DEF Init, Nothing
  <1>2. CommittedFit
    BY <1>1 DEF CommittedFit
  <1>3. \A r \in Requests : RequestFits(r)
    <2>1. Len(NoJob.asked) = 0
      BY TypesOfConstants
    <2>2. Len(NoJob.asked) <= 1
      BY <2>1
    <2>3. \A rows : DraftFits("idle", NoJob, rows, edition)
      BY <2>2 DEF DraftFits
    <2>4. FoundFits("idle", NoJob, config, device)
      BY DEF FoundFits
    <2>5. QED
      BY <1>1, <2>3, <2>4 DEF RequestFits
  <1>4. OneDownload
    BY <1>1, TypesOfConstants DEF OneDownload
  <1>5. DeviceIsConsistent
    BY DEF Init, DeviceIsConsistent, DeviceHoldsItsVersion, FreshNotOlderThanConfig, NoConfig
  <1>6. QED
    BY <1>2, <1>3, <1>4, <1>5 DEF CInv

LEMMA NextKeepsCatalogue == ASSUME IInv, CInv, [Next]_vars PROVE CInv'
  <1> IInv'
    BY NextKeeps
  <1>1. CASE UNCHANGED vars \/ Edit
    <2>1. /\ config' = config /\ device' = device /\ pc' = pc /\ job' = job /\ work' = work
          /\ edition \in Nat /\ (edition' = edition \/ edition' = edition + 1)
      BY <1>1 DEF vars, Edit, IInv, TypeOK
    <2>2. edition <= edition'
      BY <2>1
    <2>3. QED
      BY <2>1, <2>2, BesideKeepsCatalogue
  <1>2. ASSUME NEW r \in Requests, \E b \in Broadcasts : StartPush(r, b) PROVE CInv'
    BY <1>2, StartPushKeepsCatalogue
  <1>3. ASSUME NEW r \in Requests, \E t \in Tenants : StartSettings(r, t) PROVE CInv'
    BY <1>3, StartSettingsKeepsCatalogue
  <1>4. ASSUME NEW r \in Requests, \E t \in Devices : StartDownload(r, t) PROVE CInv'
    BY <1>4, StartDownloadKeepsCatalogue
  <1>5. ASSUME NEW r \in Requests, Step(r) PROVE CInv'
    <2>1. CASE ReadServices(r)
      BY <2>1, ReadServicesKeepsCatalogue
    <2>2. CASE ReadFlags(r)
      BY <2>2, ReadFlagsKeepsCatalogue
    <2>3. CASE Number(r)
      BY <2>3, NumberKeepsCatalogue
    <2>4. CASE Insert(r)
      BY <2>4, InsertKeepsCatalogue
    <2>5. CASE InsertFails(r) \/ StatementFails(r) \/ DeadlockVictim(r)
      BY <2>5, BreakKeepsCatalogue DEF InsertFails, StatementFails, DeadlockVictim
    <2>6. CASE Commit(r)
      BY <2>6, CommitKeepsCatalogue
    <2>7. CASE EndFailed(r)
      BY <2>7, EndsKeepCatalogue
    <2>8. CASE DownloadConfig(r)
      BY <2>8, DownloadConfigKeepsCatalogue
    <2>9. CASE DownloadRest(r)
      BY <2>9, DownloadRestKeepsCatalogue
    <2>10. QED
      BY <1>5, <2>1, <2>2, <2>3, <2>4, <2>5, <2>6, <2>7, <2>8, <2>9 DEF Step
  <1>6. ASSUME NEW r \in Requests, Abort(r) PROVE CInv'
    BY <1>6, EndsKeepCatalogue
  <1>7. QED
    BY <1>1, <1>2, <1>3, <1>4, <1>5, <1>6 DEF Next

\* What versions and devices hold fits together in every reachable state.
THEOREM CInvHolds == Spec => []CInv
  <1>1. Init => CInv
    BY InitCatalogue
  <1>2. IInv /\ CInv /\ [Next]_vars => CInv'
    BY NextKeepsCatalogue
  <1>3. QED
    BY <1>1, <1>2, IInvHolds, PTL DEF Spec

-----------------------------------------------------------------------------
(***************************************************************************)
(* Results.                                                                *)
(***************************************************************************)
\* A version holds what its request may answer for, however pushes, broadcasts
\* and settings overlap, also the second one that a broadcast makes of a tenant
\* before the first is committed (config_service.go:48-190, :217-229).
THEOREM CatalogueOfVersionsHolds == Spec => []CatalogueOfVersions
  <1>1. CInv => CatalogueOfVersions
    BY DEF CInv, CommittedFit, RowFits, CatalogueOfVersions, OlderOnlyByOverlap,
           SettingsCarryTheirBase
  <1>2. QED
    BY <1>1, CInvHolds, PTL

\* A device holds the data of the version it reports, and services no older than
\* it, whatever is pushed while it downloads (sync_service.go:163-246).
THEOREM DeviceIsConsistentHolds == Spec => []DeviceIsConsistent
  BY CInvHolds, PTL DEF CInv
=============================================================================
