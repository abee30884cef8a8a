----------------------------- MODULE RateLimiter -----------------------------
(***************************************************************************)
(* The rate limiters in front of the public endpoints (ratelimit.go): one  *)
(* for /auth and one for the webhooks.  Each keeps the times of the recent *)
(* attempts in memory, under a mutex, or, when Redis answered while the    *)
(* limiter was built, counts with INCR and EXPIRE under a key that is the  *)
(* address of the client, the same key for both limiters.                  *)
(***************************************************************************)
EXTENDS Integers, FiniteSets

CONSTANTS
    Limiters,    \* the limiters of the process
    Clients,     \* addresses
    Max,         \* Max[l]: attempts that limiter l allows in a window
    Window,      \* length of a window
    MaxCount,    \* bound on a Redis counter
    MaxClock,    \* bound on time
    MaxOutages   \* bound on the commands that fail and on the restarts

ASSUME MaxAssumption == Max \in [Limiters -> Nat]
ASSUME WindowAssumption == Window \in Nat \ {0}
ASSUME ClockBoundAssumption == MaxCount \in Nat /\ MaxClock \in Nat /\ MaxOutages \in Nat

VARIABLES
    backend,     \* backend[l]: "memory" or "redis", chosen when the process starts
    clock,       \* the time
    attempts,    \* attempts[l][k]: what the limiter in memory keeps of k
    counter,     \* counter[k]: the Redis counter of k, 0 without one
    expiry,      \* expiry[k]: when it expires, or Never
    opening,     \* the keys that a request has counted to 1 and not yet given an expiry
    passed,      \* passed[l][k]: what memory has let through since the start
    counted,     \* counted[l][k]: what Redis has counted and let through
    outages      \* commands that failed, and restarts

limiterVars == <<backend, clock, attempts, counter, expiry, opening, passed, counted, outages>>

Never == -1

\* Each limiter asks on its own whether Redis answers.
Backends == [Limiters -> {"memory", "redis"}]

\* An attempt: its time, and a number that tells it from others of that time.
Attempts == [n: Nat, t: Nat]
NoAttempts == [l \in Limiters |-> [k \in Clients |-> {}]]

LimiterTypeOK ==
    /\ backend \in Backends
    /\ clock \in Nat
    /\ attempts \in [Limiters -> [Clients -> SUBSET Attempts]]
    /\ \A l \in Limiters, k \in Clients : attempts[l][k] \subseteq passed[l][k]
    /\ passed \in [Limiters -> [Clients -> SUBSET Attempts]]
    /\ counted \in [Limiters -> [Clients -> SUBSET Attempts]]
    /\ counter \in [Clients -> Nat]
    /\ expiry \in [Clients -> Nat \cup {Never}]
    /\ opening \subseteq Clients
    /\ outages \in Nat

LimiterInit ==
    /\ backend \in Backends
    /\ clock = 0
    /\ attempts = NoAttempts /\ passed = NoAttempts /\ counted = NoAttempts
    /\ counter = [k \in Clients |-> 0]
    /\ expiry = [k \in Clients |-> Never]
    /\ opening = {}
    /\ outages = 0

\* Mutant of Recent: attempts are forgotten one instant early.
RecentShort(S) == {a \in S : a.t > clock - Window + 1}

\* The attempts after the cutoff.
Recent(S) == {a \in S : a.t > clock - Window}

InWindow(S) == {a \in S : a.t > clock - Window}

New(S) == [n |-> Cardinality(S) + 1, t |-> clock]

-----------------------------------------------------------------------------
(***************************************************************************)
(* In memory: the mutex makes Allow and cleanup one step each.             *)
(***************************************************************************)
\* Mutant of AllowMemory: refused attempts are kept too.
AllowMemoryKeepsAll(l, k) ==
    /\ backend[l] = "memory"
    /\ attempts' = [attempts EXCEPT ![l][k] = Recent(@) \cup {New(passed[l][k])}]
    /\ passed' = IF Cardinality(Recent(attempts[l][k])) >= Max[l]
                 THEN passed ELSE [passed EXCEPT ![l][k] = @ \cup {New(@)}]
    /\ UNCHANGED <<backend, clock, counter, expiry, opening, counted, outages>>

AllowMemory(l, k) ==
    /\ backend[l] = "memory"
    /\ IF Cardinality(Recent(attempts[l][k])) >= Max[l]
       THEN /\ attempts' = [attempts EXCEPT ![l][k] = Recent(@)]
            /\ UNCHANGED passed
       ELSE /\ attempts' = [attempts EXCEPT ![l][k] = Recent(@) \cup {New(passed[l][k])}]
            /\ passed' = [passed EXCEPT ![l][k] = @ \cup {New(@)}]
    /\ UNCHANGED <<backend, clock, counter, expiry, opening, counted, outages>>

\* Every minute, each limiter on its own.
Cleanup(l) ==
    /\ backend[l] = "memory"
    /\ attempts' = [attempts EXCEPT ![l] = [k \in Clients |-> Recent(attempts[l][k])]]
    /\ UNCHANGED <<backend, clock, counter, expiry, opening, passed, counted, outages>>

-----------------------------------------------------------------------------
(***************************************************************************)
(* Redis: each command is atomic, and others come in between.              *)
(***************************************************************************)
\* Mutant of Incr: no attempt sets the expiry.
IncrNeverOpening(l, k) ==
    /\ backend[l] = "redis" /\ counter[k] < MaxCount
    /\ counter' = [counter EXCEPT ![k] = @ + 1]
    /\ counted' = IF counter[k] + 1 <= Max[l]
                  THEN [counted EXCEPT ![l][k] = @ \cup {New(@)}] ELSE counted
    /\ UNCHANGED <<backend, clock, attempts, expiry, opening, passed, outages>>

\* Mutant of Incr: one attempt too many.
IncrLate(l, k) ==
    /\ backend[l] = "redis" /\ counter[k] < MaxCount
    /\ counter' = [counter EXCEPT ![k] = @ + 1]
    /\ opening' = IF counter[k] = 0 THEN opening \cup {k} ELSE opening
    /\ counted' = IF counter[k] <= Max[l]
                  THEN [counted EXCEPT ![l][k] = @ \cup {New(@)}] ELSE counted
    /\ UNCHANGED <<backend, clock, attempts, expiry, passed, outages>>

Incr(l, k) ==
    /\ backend[l] = "redis" /\ counter[k] < MaxCount
    /\ counter' = [counter EXCEPT ![k] = @ + 1]
    /\ opening' = IF counter[k] = 0 THEN opening \cup {k} ELSE opening
    /\ counted' = IF counter[k] + 1 <= Max[l]
                  THEN [counted EXCEPT ![l][k] = @ \cup {New(@)}] ELSE counted
    /\ UNCHANGED <<backend, clock, attempts, expiry, passed, outages>>

Expire(k) ==
    /\ k \in opening
    /\ expiry' = [expiry EXCEPT ![k] = clock + Window]
    /\ opening' = opening \ {k}
    /\ UNCHANGED <<backend, clock, attempts, counter, passed, counted, outages>>

\* The counter then stays until Redis loses it.
ExpireFails(k) ==
    /\ k \in opening
    /\ outages < MaxOutages
    /\ outages' = outages + 1
    /\ opening' = opening \ {k}
    /\ UNCHANGED <<backend, clock, attempts, counter, expiry, passed, counted>>

\* A limiter that cannot count lets the request through, also when Redis has
\* counted and only its answer is lost: no attempt then sees the 1.  An INCR
\* that the client sends again is this step and an Incr.
IncrFails(l, k) ==
    /\ backend[l] = "redis"
    /\ outages < MaxOutages
    /\ outages' = outages + 1
    /\ \/ UNCHANGED counter
       \/ counter[k] < MaxCount /\ counter' = [counter EXCEPT ![k] = @ + 1]
    /\ UNCHANGED <<backend, clock, attempts, expiry, opening, passed, counted>>

-----------------------------------------------------------------------------
\* Time passes, and Redis drops the counters that have expired.
Tick ==
    /\ clock < MaxClock
    /\ clock' = clock + 1
    /\ LET dead == {k \in Clients : expiry[k] # Never /\ expiry[k] <= clock + 1}
       IN /\ counter' = [k \in Clients |-> IF k \in dead THEN 0 ELSE counter[k]]
          /\ expiry' = [k \in Clients |-> IF k \in dead THEN Never ELSE expiry[k]]
    /\ UNCHANGED <<backend, attempts, opening, passed, counted, outages>>

\* The process starts again, and its limiters choose by whether Redis answers.
Restart ==
    /\ outages < MaxOutages
    /\ outages' = outages + 1
    /\ backend' \in Backends
    /\ attempts' = NoAttempts
    /\ passed' = NoAttempts
    /\ opening' = {}
    /\ UNCHANGED <<clock, counter, expiry, counted>>

LimiterNext ==
    \/ \E l \in Limiters, k \in Clients : AllowMemory(l, k) \/ Incr(l, k) \/ IncrFails(l, k)
    \/ \E l \in Limiters : Cleanup(l)
    \/ \E k \in Clients : Expire(k) \/ ExpireFails(k)
    \/ Tick
    \/ Restart

LimiterSpec == LimiterInit /\ [][LimiterNext]_limiterVars

-----------------------------------------------------------------------------
(***************************************************************************)
(* Properties.                                                             *)
(***************************************************************************)
\* In memory: of the requests of one client in any window no more than Max pass,
\* also across cleanups (ratelimit.go:49-91).
MemoryBound ==
    \A l \in Limiters, k \in Clients : Cardinality(InWindow(passed[l][k])) <= Max[l]

\* With Redis the windows do not slide, and twice as many can pass in one: at
\* the end of a counter and at the beginning of the next (ratelimit.go:109-130).
RedisBound ==
    \A l \in Limiters, k \in Clients : Cardinality(InWindow(counted[l][k])) <= 2 * Max[l]

\* A counter that will not expire is one whose first request is still on its way
\* to setting the expiry, or was cut off from Redis or from the process: by a lost
\* answer, a failed EXPIRE or a restart (ratelimit.go:115-127).
OpenCountersExpire ==
    \A k \in Clients :
        counter[k] > 0 /\ expiry[k] = Never => k \in opening \/ outages > 0

\* The counters of Redis bound what passes and come to an end, across windows,
\* lost commands and restarts, and with both limiters on one key
\* (ratelimit.go:109-130).
RedisWindows == RedisBound /\ OpenCountersExpire
=============================================================================
