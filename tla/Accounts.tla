------------------------------ MODULE Accounts ------------------------------
(***************************************************************************)
(* Accounts (auth_service.go, auth_handler.go): registration of a tenant   *)
(* in one transaction, and its free plan after that; logins and refreshed  *)
(* sessions; requests for a password reset and resets, whose statements    *)
(* each commit on their own.                                               *)
(*                                                                         *)
(* Unlike the rest of the API these handlers run outside TenantIsolation.  *)
(***************************************************************************)
EXTENDS Integers, FiniteSets

CONSTANTS
    Visitors,      \* slots for requests in progress
    Slugs, Emails, \* what tenants and users are known by
    First,         \* <<slug, email>> of the account there is at the start
    MaxVisits,     \* bound on the requests begun
    MaxFaults      \* bound on the statements that fail

ASSUME FirstAssumption == First \in Slugs \X Emails
ASSUME VisitBoundsAssumption == MaxVisits \in Nat /\ MaxFaults \in Nat

VARIABLES
    tenants,    \* the slugs of the tenants
    furnished,  \* the tenants with an outlet, payment methods and prices
    plans,      \* the tenants with a subscription
    users,      \* users[e]: the user of that address
    tokens,     \* the password_reset_tokens
    sessions,   \* the users that were given a pair of session tokens
    visit,      \* visit[v]: a request in progress
    visits, faults

accountVars == <<tenants, furnished, plans, users, tokens, sessions, visit, visits, faults>>

\* "password" names the token that the password was set with, if any.
Users == [tenant: Slugs, password: Nat, active: BOOLEAN]
NoUser == [tenant |-> First[1], password |-> -1, active |-> FALSE]
IsActive(e) == users[e].active

\* "after" are the tokens of the user that were there to be invalidated, "uses"
\* counts the passwords set with the token; "shared" is a token that two resets
\* had found before either was over, "unmarked" one that a reset set a password
\* with and could not mark.
Tokens == [id: Nat, user: Emails, used: BOOLEAN, expired: BOOLEAN, after: SUBSET Nat,
           uses: Nat, shared: BOOLEAN, unmarked: BOOLEAN]

\* "wrote" are the tables that an open registration has written.
Visits == [at: {"idle", "slug", "email", "tenant", "user", "furnish", "commit", "plan",
                "invalidate", "store", "password", "mark"},
           slug: Slugs, email: Emails, wrote: SUBSET {"tenant", "user", "rest"},
           token: Nat, after: SUBSET Nat]
NoVisit == [at |-> "idle", slug |-> First[1], email |-> First[2], wrote |-> {},
            token |-> 0, after |-> {}]

AccountsTypeOK ==
    /\ tenants \subseteq Slugs /\ furnished \subseteq Slugs /\ plans \subseteq Slugs
    /\ users \in [Emails -> Users \cup {NoUser}]
    /\ tokens \subseteq Tokens
    /\ \A s, t \in tokens : s.id = t.id => s = t
    /\ sessions \subseteq {e \in Emails : users[e] # NoUser}
    /\ visit \in [Visitors -> Visits]
    /\ visits \in 0 .. MaxVisits /\ faults \in 0 .. MaxFaults

AccountsInit ==
    /\ tenants = {First[1]} /\ furnished = {First[1]} /\ plans = {First[1]}
    /\ users = [e \in Emails |->
                   IF e = First[2] THEN [tenant |-> First[1], password |-> 0, active |-> TRUE]
                   ELSE NoUser]
    /\ tokens = {}
    /\ sessions = {}
    /\ visit = [v \in Visitors |-> NoVisit]
    /\ visits = 0 /\ faults = 0

-----------------------------------------------------------------------------
\* A request begins.
Enter(v, first) ==
    /\ visit[v].at = "idle"
    /\ visits < MaxVisits
    /\ visits' = visits + 1
    /\ visit' = [visit EXCEPT ![v] = first]

Proceed(v, to) == visit' = [visit EXCEPT ![v].at = to]
Answer(v) == visit' = [visit EXCEPT ![v] = NoVisit]

Holds(v, table) == table \in visit[v].wrote

(***************************************************************************)
(* Register: one transaction, in the order of its statements.              *)
(***************************************************************************)
Register(v, s, e) ==
    /\ Enter(v, [NoVisit EXCEPT !.at = "slug", !.slug = s, !.email = e])
    /\ UNCHANGED <<tenants, furnished, plans, users, tokens, sessions, faults>>

CheckSlug(v) ==
    /\ visit[v].at = "slug"
    /\ IF visit[v].slug \in tenants THEN Answer(v) ELSE Proceed(v, "email")
    /\ UNCHANGED <<tenants, furnished, plans, users, tokens, sessions, visits, faults>>

CheckEmail(v) ==
    /\ visit[v].at = "email"
    /\ IF users[visit[v].email] # NoUser THEN Answer(v) ELSE Proceed(v, "tenant")
    /\ UNCHANGED <<tenants, furnished, plans, users, tokens, sessions, visits, faults>>

\* Mutant of InsertTenant: the statement runs on the pool and commits at once.
InsertTenantOutside(v) ==
    /\ visit[v].at = "tenant"
    /\ tenants' = tenants \cup {visit[v].slug}
    /\ Proceed(v, "user")
    /\ UNCHANGED <<furnished, plans, users, tokens, sessions, visits, faults>>

\* The INSERT waits for an open one of the same slug, and fails if that commits.
InsertTenant(v) ==
    /\ visit[v].at = "tenant"
    /\ \A w \in Visitors \ {v} : ~(Holds(w, "tenant") /\ visit[w].slug = visit[v].slug)
    /\ IF visit[v].slug \in tenants
       THEN Answer(v)
       ELSE visit' = [visit EXCEPT ![v].at = "user", ![v].wrote = {"tenant"}]
    /\ UNCHANGED <<tenants, furnished, plans, users, tokens, sessions, visits, faults>>

InsertUser(v) ==
    /\ visit[v].at = "user"
    /\ \A w \in Visitors \ {v} : ~(Holds(w, "user") /\ visit[w].email = visit[v].email)
    /\ IF users[visit[v].email] # NoUser
       THEN Answer(v)
       ELSE visit' = [visit EXCEPT ![v].at = "furnish", ![v].wrote = @ \cup {"user"}]
    /\ UNCHANGED <<tenants, furnished, plans, users, tokens, sessions, visits, faults>>

\* The default outlet, payment methods and prices.
Furnish(v) ==
    /\ visit[v].at = "furnish"
    /\ visit' = [visit EXCEPT ![v].at = "commit", ![v].wrote = @ \cup {"rest"}]
    /\ UNCHANGED <<tenants, furnished, plans, users, tokens, sessions, visits, faults>>

\* Mutant of CommitRegistration: the error of a commit that fails is ignored.
CommitIgnored(v) ==
    /\ visit[v].at = "commit"
    /\ sessions' = sessions \cup {visit[v].email}
    /\ visit' = [visit EXCEPT ![v].at = "plan", ![v].wrote = {}]
    /\ UNCHANGED <<tenants, furnished, plans, users, tokens, visits, faults>>

\* The commit, after which the owner is given a session.
CommitRegistration(v) ==
    /\ visit[v].at = "commit"
    /\ tenants' = IF Holds(v, "tenant") THEN tenants \cup {visit[v].slug} ELSE tenants
    /\ furnished' = IF Holds(v, "rest") THEN furnished \cup {visit[v].slug} ELSE furnished
    /\ users' = [users EXCEPT ![visit[v].email] =
                    [tenant |-> visit[v].slug, password |-> 0, active |-> TRUE]]
    /\ sessions' = sessions \cup {visit[v].email}
    /\ visit' = [visit EXCEPT ![v].at = "plan", ![v].wrote = {}]
    /\ UNCHANGED <<plans, tokens, visits, faults>>

\* AssignFreePlan, whose failure the handler only logs.
AssignFreePlan(v) ==
    /\ visit[v].at = "plan"
    /\ plans' = plans \cup {visit[v].slug}
    /\ Answer(v)
    /\ UNCHANGED <<tenants, furnished, users, tokens, sessions, visits, faults>>

\* A statement fails, the client goes away or the process dies: a registration
\* that has not committed is rolled back, and what did commit stays.
Fail(v) ==
    /\ visit[v].at \notin {"idle", "mark"}
    /\ faults < MaxFaults
    /\ faults' = faults + 1
    /\ Answer(v)
    /\ UNCHANGED <<tenants, furnished, plans, users, tokens, sessions, visits>>

-----------------------------------------------------------------------------
(***************************************************************************)
(* Sessions.                                                               *)
(***************************************************************************)
\* Login reads the user once, and answers 401 to one that is not active.
Login(v, e) ==
    /\ IsActive(e)
    /\ Enter(v, NoVisit)
    /\ sessions' = sessions \cup {e}
    /\ UNCHANGED <<tenants, furnished, plans, users, tokens, faults>>

\* A refresh token gives a new pair if the user is active, and stays good itself.
RefreshToken(v, e) ==
    /\ IsActive(e)
    /\ Enter(v, NoVisit)
    /\ UNCHANGED <<tenants, furnished, plans, users, tokens, sessions, faults>>

\* An owner takes a cashier out of use or puts one back (UpdateUser).
UpdateCashier(v, e) ==
    /\ users[e] # NoUser
    /\ Enter(v, NoVisit)
    /\ users' = [users EXCEPT ![e].active = ~@]
    /\ UNCHANGED <<tenants, furnished, plans, tokens, sessions, faults>>

-----------------------------------------------------------------------------
(***************************************************************************)
(* Password resets.                                                        *)
(***************************************************************************)
\* Finds the user, if active; the answer is the same if not.
RequestPasswordReset(v, e) ==
    /\ IsActive(e)
    /\ Enter(v, [NoVisit EXCEPT !.at = "invalidate", !.email = e])
    /\ UNCHANGED <<tenants, furnished, plans, users, tokens, sessions, faults>>

\* Mutant of Invalidate: only what has expired is invalidated.
InvalidateExpired(v) ==
    /\ visit[v].at = "invalidate"
    /\ tokens' = {IF t.user = visit[v].email /\ t.expired THEN [t EXCEPT !.used = TRUE] ELSE t :
                     t \in tokens}
    /\ visit' = [visit EXCEPT ![v].at = "store",
                              ![v].after = {t.id : t \in {u \in tokens : u.user = visit[v].email}}]
    /\ UNCHANGED <<tenants, furnished, plans, users, sessions, visits, faults>>

Invalidate(v) ==
    /\ visit[v].at = "invalidate"
    /\ tokens' = {IF t.user = visit[v].email THEN [t EXCEPT !.used = TRUE] ELSE t : t \in tokens}
    /\ visit' = [visit EXCEPT ![v].at = "store",
                              ![v].after = {t.id : t \in {u \in tokens : u.user = visit[v].email}}]
    /\ UNCHANGED <<tenants, furnished, plans, users, sessions, visits, faults>>

\* The error of that statement is ignored.
InvalidateFails(v) ==
    /\ visit[v].at = "invalidate"
    /\ faults < MaxFaults
    /\ faults' = faults + 1
    /\ Proceed(v, "store")
    /\ UNCHANGED <<tenants, furnished, plans, users, tokens, sessions, visits>>

StoreToken(v) ==
    /\ visit[v].at = "store"
    /\ tokens' = tokens \cup {[id |-> Cardinality(tokens) + 1, user |-> visit[v].email,
                               used |-> FALSE, expired |-> FALSE, after |-> visit[v].after,
                               uses |-> 0, shared |-> FALSE, unmarked |-> FALSE]}
    /\ Answer(v)
    /\ UNCHANGED <<tenants, furnished, plans, users, sessions, visits, faults>>

\* An hour has passed.
ExpireToken(t) ==
    /\ ~t.expired
    /\ tokens' = (tokens \ {t}) \cup {[t EXCEPT !.expired = TRUE]}
    /\ UNCHANGED <<tenants, furnished, plans, users, sessions, visit, visits, faults>>

\* The reset in progress in slot v has found token t, and has not yet answered.
Resetting(v, t) == visit[v].at \in {"password", "mark"} /\ visit[v].token = t.id

\* Finds the token, if unused and not expired, and keeps no lock on it.
ResetPassword(v, t) ==
    /\ ~t.used /\ ~t.expired
    /\ Enter(v, [NoVisit EXCEPT !.at = "password", !.email = t.user, !.token = t.id])
    /\ tokens' = {IF u = t /\ \E w \in Visitors : Resetting(w, t)
                   THEN [u EXCEPT !.shared = TRUE] ELSE u : u \in tokens}
    /\ UNCHANGED <<tenants, furnished, plans, users, sessions, faults>>

\* Mutant of SetPassword: it answers without marking the token.
SetPasswordOnly(v) ==
    /\ visit[v].at = "password"
    /\ users' = [users EXCEPT ![visit[v].email].password = visit[v].token]
    /\ tokens' = {IF t.id = visit[v].token THEN [t EXCEPT !.uses = @ + 1] ELSE t : t \in tokens}
    /\ Answer(v)
    /\ UNCHANGED <<tenants, furnished, plans, sessions, visits, faults>>

\* The new password, whatever has become of the token since it was found.
SetPassword(v) ==
    /\ visit[v].at = "password"
    /\ users' = [users EXCEPT ![visit[v].email].password = visit[v].token]
    /\ tokens' = {IF t.id = visit[v].token THEN [t EXCEPT !.uses = @ + 1] ELSE t : t \in tokens}
    /\ Proceed(v, "mark")
    /\ UNCHANGED <<tenants, furnished, plans, sessions, visits, faults>>

MarkUsed(v) ==
    /\ visit[v].at = "mark"
    /\ tokens' = {IF t.id = visit[v].token THEN [t EXCEPT !.used = TRUE] ELSE t : t \in tokens}
    /\ Answer(v)
    /\ UNCHANGED <<tenants, furnished, plans, users, sessions, visits, faults>>

\* The error of that statement is ignored.
MarkFails(v) ==
    /\ visit[v].at = "mark"
    /\ faults < MaxFaults
    /\ faults' = faults + 1
    /\ tokens' = {IF t.id = visit[v].token THEN [t EXCEPT !.unmarked = TRUE] ELSE t : t \in tokens}
    /\ Answer(v)
    /\ UNCHANGED <<tenants, furnished, plans, users, sessions, visits>>

-----------------------------------------------------------------------------
AccountStep(v) ==
    \/ CheckSlug(v) \/ CheckEmail(v) \/ InsertTenant(v) \/ InsertUser(v) \/ Furnish(v)
    \/ CommitRegistration(v) \/ AssignFreePlan(v) \/ Fail(v)
    \/ Invalidate(v) \/ InvalidateFails(v) \/ StoreToken(v)
    \/ SetPassword(v) \/ MarkUsed(v) \/ MarkFails(v)

AccountsNext ==
    \/ \E v \in Visitors :
          \/ \E s \in Slugs, e \in Emails : Register(v, s, e)
          \/ \E e \in Emails : Login(v, e) \/ UpdateCashier(v, e) \/ RequestPasswordReset(v, e)
          \/ \E e \in sessions : RefreshToken(v, e)
          \/ \E t \in tokens : ResetPassword(v, t)
          \/ AccountStep(v)
    \/ \E t \in tokens : ExpireToken(t)

AccountsSpec == AccountsInit /\ [][AccountsNext]_accountVars

-----------------------------------------------------------------------------
(***************************************************************************)
(* Properties.                                                             *)
(***************************************************************************)
\* A tenant exists with its owner, its outlet, its payment methods and prices or
\* not at all, whatever fails and whoever else wants its slug or its address
\* (auth_service.go:31-153).
TenantsComplete ==
    \A s \in tenants : s \in furnished /\ \E e \in Emails : users[e] # NoUser /\ users[e].tenant = s

\* Two tokens of a user are both good only if their requests overlapped or the
\* newer one's invalidation failed: neither was there for the other to invalidate
\* (auth_service.go:290-291).
OnlyOverlappingTokensLive ==
    \A s, t \in tokens :
        s.user = t.user /\ ~s.used /\ ~t.used => s.id \notin t.after

\* A token sets a second password only if two resets that found it were in
\* progress at once, or one of them could not mark it: a reset that was answered
\* has closed it to those that begin later (auth_service.go:311-340).
ResetAgainOnlyByOverlap == \A t \in tokens : t.uses > 1 => t.shared \/ t.unmarked

\* A tenant is there whole or not at all; and of the tokens that reset passwords,
\* only requests that overlap or statements that fail leave two good ones of one
\* user, or let one set two passwords.  It does not say that a token works once:
\* a reset that is past its check is stopped neither by another with the same
\* token nor by a newer request that invalidates it (auth_service.go:31-346).
AccountsConsistent ==
    /\ TenantsComplete
    /\ OnlyOverlappingTokensLive
    /\ ResetAgainOnlyByOverlap
=============================================================================
