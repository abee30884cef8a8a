------------------------ MODULE Administration_proofs ------------------------
(***************************************************************************)
(* Proofs about Accounts, for any number of requests, tenants, users and   *)
(* tokens: whole tenants, and what lets a token of a reset set a password  *)
(* again.  Proofs about RateLimiter, for any limiters, limits, clients and *)
(* windows: what passes in any window, in memory and in Redis.             *)
(* Proofs about Records, for any requests, keys and finitely many rows:    *)
(* unique keys, flags of overrides, fees of pickups, outlets of a plan,    *)
(* and what an edit may change.                                            *)
(***************************************************************************)
EXTENDS MC_Administration, FiniteSetTheorems, WellFoundedInduction, TLAPS

-----------------------------------------------------------------------------
(***************************************************************************)
(* Accounts.  The inductive invariant.                                     *)
(***************************************************************************)
TokenIds == 1 .. Cardinality(tokens)

\* The tokens are numbered, and are of users that there are.
TokensCounted ==
    /\ IsFiniteSet(tokens)
    /\ \A t \in tokens : t.id \in TokenIds /\ t.after \subseteq TokenIds /\ users[t.user] # NoUser

\* What a registration has written before each of its statements.
Written(at) ==
    IF at = "user" THEN {"tenant"}
    ELSE IF at = "furnish" THEN {"tenant", "user"}
    ELSE IF at = "commit" THEN {"tenant", "user", "rest"}
    ELSE {}

\* A request can be where it is: the address that it has taken is free, the user
\* that it is about is there, and what it has invalidated is used.
Fits(x) ==
    /\ x \in Visits
    /\ x.wrote = Written(x.at)
    /\ "user" \in x.wrote => users[x.email] = NoUser
    /\ x.at \in {"invalidate", "store", "password", "mark"} => users[x.email] # NoUser
    /\ x.after \subseteq TokenIds
    /\ x.at \in {"password", "mark"} => x.token \in TokenIds
    /\ \A t \in tokens : t.user = x.email /\ t.id \in x.after => t.used

\* The unique index on the address of a user: one request at a time inserts it.
UsersApart ==
    \A v, w \in Visitors :
        Holds(v, "user") /\ Holds(w, "user") /\ visit[v].email = visit[w].email => v = w

\* In the requests c, the reset in slot w is at this statement with token t, or
\* has found it and is not over.
At(c, w, at, t) == c[w].at = at /\ c[w].token = t.id
Busy(c, w, t) == At(c, w, "password", t) \/ At(c, w, "mark", t)

\* A token that has set a password is used, about to be, or could not be marked;
\* one that is not shared has one reset at a time, and unless a mark failed that
\* one is the first.
ResetFits(t, c) ==
    /\ t.uses > 0 => t.used \/ t.unmarked \/ \E w \in Visitors : At(c, w, "mark", t)
    /\ ~t.shared => \A v, w \in Visitors : Busy(c, v, t) /\ Busy(c, w, t) => v = w
    /\ ~t.shared /\ ~t.unmarked => \A w \in Visitors : At(c, w, "password", t) => t.uses = 0
    /\ t.uses > 1 => t.shared \/ t.unmarked
ResetsFit == \A t \in tokens : ResetFits(t, visit)

AccountsInv ==
    /\ AccountsTypeOK
    /\ TokensCounted
    /\ \A v \in Visitors : Fits(visit[v])
    /\ UsersApart
    /\ ResetsFit
    /\ AccountsConsistent

-----------------------------------------------------------------------------
\* What stands for no request is one of nobody, and no user is not a user.
LEMMA NoOne == NoVisit \in Visits /\ NoUser \notin Users
  BY FirstAssumption DEF NoVisit, Visits, NoUser, Users

\* An active user is there.
LEMMA ActiveKnown ==
    ASSUME AccountsTypeOK, NEW e \in Emails, IsActive(e)
    PROVE  users[e] # NoUser
  BY DEF IsActive, NoUser

\* The invariant holds at the start.
LEMMA InitAccounts == AccountsInit => AccountsInv
  <1> SUFFICES ASSUME AccountsInit PROVE AccountsInv
    OBVIOUS
  <1>1. First[1] \in Slugs /\ First[2] \in Emails
    BY FirstAssumption
  <1>2. AccountsTypeOK
    BY <1>1, NoOne, VisitBoundsAssumption DEF AccountsInit, AccountsTypeOK, Users
  <1>3. TokensCounted
    BY FS_EmptySet DEF AccountsInit, TokensCounted
  <1>4. \A v \in Visitors : Fits(visit[v])
    BY NoOne DEF AccountsInit, Fits, NoVisit, Written
  <1>5. UsersApart
    BY DEF AccountsInit, UsersApart, Holds, NoVisit
  <1>6. TenantsComplete
    <2>1. users[First[2]].tenant = First[1] /\ users[First[2]] # NoUser
      BY <1>1 DEF AccountsInit, NoUser
    <2>2. QED
      BY <1>1, <2>1 DEF AccountsInit, TenantsComplete
  <1>7. OnlyOverlappingTokensLive /\ ResetsFit /\ ResetAgainOnlyByOverlap
    BY DEF AccountsInit, OnlyOverlappingTokensLive, ResetsFit, ResetAgainOnlyByOverlap
  <1>8. QED
    BY <1>2, <1>3, <1>4, <1>5, <1>6, <1>7 DEF AccountsInv, AccountsConsistent

-----------------------------------------------------------------------------
\* Resets fit tokens that are changed one by one if they fit each.
LEMMA ResetsChanged ==
    ASSUME NEW g \in [tokens -> Tokens], tokens' = {g[t] : t \in tokens},
           \A t \in tokens : ResetFits(g[t], visit')
    PROVE  ResetsFit' /\ ResetAgainOnlyByOverlap'
  <1>1. \A t \in tokens' : ResetFits(t, visit')
    OBVIOUS
  <1>2. \A t \in tokens' : t.uses > 1 => t.shared \/ t.unmarked
    BY <1>1 DEF ResetFits
  <1>3. QED
    BY <1>1, <1>2 DEF ResetsFit, ResetAgainOnlyByOverlap, ResetFits, At, Busy

\* Tokens that are as much used as before, or used up, and no new reset.
LEMMA ResetsStay ==
    ASSUME AccountsInv, NEW g \in [tokens -> Tokens], tokens' = {g[t] : t \in tokens},
           \A t \in tokens : /\ g[t].id = t.id /\ g[t].uses = t.uses
                             /\ g[t].shared = t.shared /\ g[t].unmarked = t.unmarked
                             /\ t.used => g[t].used,
           \A w \in Visitors : \/ visit'[w] = visit[w]
                               \/ /\ visit[w].at # "mark"
                                  /\ visit'[w].at \notin {"password", "mark"}
    PROVE  ResetsFit' /\ ResetAgainOnlyByOverlap'
  <1>1. ASSUME NEW t \in tokens
        PROVE  ResetFits(g[t], visit')
    <2> DEFINE n == g[t]
    <2>1. /\ n.id = t.id /\ n.uses = t.uses /\ n.shared = t.shared /\ n.unmarked = t.unmarked
          /\ t.used => n.used
      OBVIOUS
    <2> HIDE DEF n
    <2>2. \A w \in Visitors : /\ At(visit, w, "mark", t) => At(visit', w, "mark", n)
                              /\ At(visit', w, "password", n) => At(visit, w, "password", t)
                              /\ Busy(visit', w, n) => Busy(visit, w, t)
      BY <2>1 DEF At, Busy
    <2>3. ResetFits(t, visit)
      BY DEF AccountsInv, ResetsFit
    <2>4. ResetFits(n, visit')
      BY <2>1, <2>2, <2>3 DEF ResetFits
    <2>5. QED
      BY <2>4 DEF n
  <1>2. QED
    BY <1>1, ResetsChanged

\* One request moves, the users and the tokens stay.
LEMMA MoveInv ==
    ASSUME AccountsInv, NEW v \in Visitors, NEW x, Fits(x),
           visit' = [visit EXCEPT ![v] = x],
           UNCHANGED <<tenants, furnished, users, tokens>>,
           plans' \subseteq Slugs,
           sessions' \subseteq {e \in Emails : users[e] # NoUser},
           visits' \in 0 .. MaxVisits, faults' \in 0 .. MaxFaults,
           \A w \in Visitors \ {v} : "user" \in x.wrote /\ Holds(w, "user") => visit[w].email # x.email,
           visit[v].at # "mark", x.at \notin {"password", "mark"}
    PROVE  AccountsInv'
  <1>1. /\ visit \in [Visitors -> Visits] /\ visit'[v] = x
        /\ \A w \in Visitors \ {v} : visit'[w] = visit[w]
    BY DEF AccountsInv, AccountsTypeOK
  <1>2. AccountsTypeOK'
    <2>1. visit' \in [Visitors -> Visits]
      BY <1>1 DEF Fits
    <2>2. QED
      BY <2>1 DEF AccountsInv, AccountsTypeOK
  <1>3. TokensCounted'
    BY DEF AccountsInv, TokensCounted, TokenIds
  <1>4. (\A w \in Visitors : Fits(visit[w]))'
    <2>1. \A w \in Visitors : Fits(visit'[w])
      BY <1>1 DEF AccountsInv
    <2>2. QED
      BY <2>1 DEF Fits, TokenIds
  <1>5. UsersApart'
    <2>1. \A w \in Visitors \ {v} : Holds(w, "user")' <=> Holds(w, "user")
      BY <1>1 DEF Holds
    <2>2. Holds(v, "user")' <=> "user" \in x.wrote
      BY <1>1 DEF Holds
    <2>3. QED
      BY <1>1, <2>1, <2>2 DEF AccountsInv, UsersApart
  <1>6. (TenantsComplete /\ OnlyOverlappingTokensLive)'
    BY DEF AccountsInv, AccountsConsistent, TenantsComplete, OnlyOverlappingTokensLive
  <1>7. ResetsFit' /\ ResetAgainOnlyByOverlap'
    <2> DEFINE g == [t \in tokens |-> t]
    <2>1. /\ g \in [tokens -> Tokens] /\ tokens' = {g[t] : t \in tokens}
          /\ \A t \in tokens : g[t] = t
      BY DEF AccountsInv, AccountsTypeOK
    <2>2. \A w \in Visitors : \/ visit'[w] = visit[w]
                              \/ visit[w].at # "mark" /\ visit'[w].at \notin {"password", "mark"}
      BY <1>1
    <2> HIDE DEF g
    <2>3. QED
      BY <2>1, <2>2, ResetsStay
  <1>8. QED
    BY <1>2, <1>3, <1>4, <1>5, <1>6, <1>7 DEF AccountsInv, AccountsConsistent

\* A request that is about nothing yet fits.
LEMMA FreshFits ==
    ASSUME AccountsInv, NEW x \in Visits, x.wrote = {}, x.after = {},
           Written(x.at) = {},
           x.at \in {"invalidate", "store", "password", "mark"} => users[x.email] # NoUser,
           x.at \in {"password", "mark"} => x.token \in TokenIds
    PROVE  Fits(x)
  BY DEF Fits

\* A slot in which there is no request is always right.
LEMMA NothingFits == AccountsInv => Fits(NoVisit)
  BY NoOne, FreshFits DEF NoVisit, Written

\* A request begins.
LEMMA EnterInv ==
    ASSUME AccountsInv, NEW v \in Visitors, NEW x, Fits(x), x.wrote = {}, Enter(v, x),
           UNCHANGED <<tenants, furnished, users, tokens, plans, faults>>,
           sessions' \subseteq {e \in Emails : users[e] # NoUser},
           x.at \notin {"password", "mark"}
    PROVE  AccountsInv'
  <1>1. visits' \in 0 .. MaxVisits /\ faults' \in 0 .. MaxFaults /\ plans' \subseteq Slugs
    BY VisitBoundsAssumption DEF AccountsInv, AccountsTypeOK, Enter
  <1>2. visit' = [visit EXCEPT ![v] = x] /\ visit[v].at # "mark"
    BY DEF Enter
  <1>3. QED
    BY <1>1, <1>2, MoveInv

\* A request goes on or is answered.
LEMMA GoOnInv ==
    ASSUME AccountsInv, NEW v \in Visitors, NEW x, Fits(x),
           visit' = [visit EXCEPT ![v] = x],
           UNCHANGED <<tenants, furnished, users, tokens, sessions, visits>>,
           plans' \subseteq Slugs,
           faults' = faults \/ (faults < MaxFaults /\ faults' = faults + 1),
           \A w \in Visitors \ {v} : "user" \in x.wrote /\ Holds(w, "user") => visit[w].email # x.email,
           visit[v].at # "mark", x.at \notin {"password", "mark"}
    PROVE  AccountsInv'
  <1>1. /\ visits' \in 0 .. MaxVisits /\ faults' \in 0 .. MaxFaults
        /\ sessions' \subseteq {e \in Emails : users[e] # NoUser}
    BY VisitBoundsAssumption DEF AccountsInv, AccountsTypeOK
  <1>2. QED
    BY <1>1, MoveInv

-----------------------------------------------------------------------------
(***************************************************************************)
(* Registrations.                                                          *)
(***************************************************************************)
\* A registration begins with nothing written.
LEMMA RegisterInv ==
    ASSUME AccountsInv, NEW v \in Visitors, NEW s \in Slugs, NEW e \in Emails, Register(v, s, e)
    PROVE  AccountsInv'
  <1> DEFINE x == [NoVisit EXCEPT !.at = "slug", !.slug = s, !.email = e]
  <1>1. x \in Visits /\ x.wrote = {} /\ x.after = {} /\ x.at = "slug"
    BY NoOne DEF Visits, NoVisit
  <1>2. Fits(x)
    <2> HIDE DEF x
    <2>1. QED
      BY <1>1, FreshFits DEF Written
  <1>3. Enter(v, x) /\ UNCHANGED <<tenants, furnished, plans, users, tokens, sessions, faults>>
    BY DEF Register
  <1> HIDE DEF x
  <1>4. sessions' \subseteq {d \in Emails : users[d] # NoUser}
    BY <1>3 DEF AccountsInv, AccountsTypeOK
  <1>5. QED
    BY <1>1, <1>2, <1>3, <1>4, EnterInv

\* Two ways to write that a request goes to its next statement.
LEMMA NextStatement ==
    ASSUME AccountsInv, NEW v \in Visitors, NEW at, NEW wrote,
           \/ Proceed(v, at) /\ wrote = visit[v].wrote
           \/ visit' = [visit EXCEPT ![v].at = at, ![v].wrote = wrote]
    PROVE  visit' = [visit EXCEPT ![v] = [visit[v] EXCEPT !.at = at, !.wrote = wrote]]
  <1>1. visit \in [Visitors -> Visits] /\ visit[v] \in Visits
    BY DEF AccountsInv, AccountsTypeOK
  <1>2. [visit[v] EXCEPT !.at = at, !.wrote = visit[v].wrote] = [visit[v] EXCEPT !.at = at]
    BY <1>1 DEF Visits
  <1>3. CASE Proceed(v, at) /\ wrote = visit[v].wrote
    <2>1. visit' = [visit EXCEPT ![v] = [visit[v] EXCEPT !.at = at]]
      BY <1>1, <1>3 DEF Proceed
    <2>2. QED
      BY <1>2, <1>3, <2>1
  <1>4. CASE visit' = [visit EXCEPT ![v].at = at, ![v].wrote = wrote]
    BY <1>1, <1>4
  <1>5. QED
    BY <1>3, <1>4

\* The statements of a registration, which is then at its next one.
LEMMA RegistrationInv ==
    ASSUME AccountsInv, NEW v \in Visitors,
           \/ CheckSlug(v) \/ CheckEmail(v) \/ InsertTenant(v) \/ InsertUser(v) \/ Furnish(v)
    PROVE  AccountsInv'
  <1> DEFINE GoneOn(at) == [visit[v] EXCEPT !.at = at, !.wrote = Written(at)]
  <1>1. visit[v] \in Visits /\ Fits(visit[v]) /\ plans \subseteq Slugs
    BY DEF AccountsInv, AccountsTypeOK
  <1>2. UNCHANGED <<tenants, furnished, plans, users, tokens, sessions, visits, faults>>
        /\ visit[v].at # "mark"
    BY DEF CheckSlug, CheckEmail, InsertTenant, InsertUser, Furnish
  <1>3. ASSUME NEW at \in {"email", "tenant", "user", "furnish", "commit"},
               "user" \in Written(at) => users[visit[v].email] = NoUser
        PROVE  Fits(GoneOn(at))
    BY <1>1, <1>3 DEF Fits, Visits, Written
  <1>4. CASE visit' = [visit EXCEPT ![v] = NoVisit]
    BY <1>1, <1>2, <1>4, NothingFits, GoOnInv DEF NoVisit
  <1>5. CASE CheckSlug(v) /\ visit[v].slug \notin tenants
    <2>1. visit' = [visit EXCEPT ![v] = GoneOn("email")]
      <3>1. visit[v].wrote = Written(visit[v].at)
        BY <1>1 DEF Fits
      <3>2. QED
        BY <1>5, <3>1, NextStatement DEF CheckSlug, Written
    <2>2. /\ Fits(GoneOn("email")) /\ "user" \notin GoneOn("email").wrote
          /\ GoneOn("email").at = "email"
      BY <1>1, <1>3 DEF Written, Visits
    <2> HIDE DEF GoneOn
    <2>3. QED
      BY <1>1, <1>2, <2>1, <2>2, GoOnInv
  <1>6. CASE CheckEmail(v) /\ users[visit[v].email] = NoUser
    <2>1. visit' = [visit EXCEPT ![v] = GoneOn("tenant")]
      <3>1. visit[v].wrote = Written(visit[v].at)
        BY <1>1 DEF Fits
      <3>2. QED
        BY <1>6, <3>1, NextStatement DEF CheckEmail, Written
    <2>2. /\ Fits(GoneOn("tenant")) /\ "user" \notin GoneOn("tenant").wrote
          /\ GoneOn("tenant").at = "tenant"
      BY <1>1, <1>3 DEF Written, Visits
    <2> HIDE DEF GoneOn
    <2>3. QED
      BY <1>1, <1>2, <2>1, <2>2, GoOnInv
  <1>7. CASE InsertTenant(v) /\ visit[v].slug \notin tenants
    <2>1. visit' = [visit EXCEPT ![v] = GoneOn("user")]
      <3>1. visit[v].wrote = Written(visit[v].at)
        BY <1>1 DEF Fits
      <3>2. QED
        BY <1>7, <3>1, NextStatement DEF InsertTenant, Written
    <2>2. /\ Fits(GoneOn("user")) /\ "user" \notin GoneOn("user").wrote
          /\ GoneOn("user").at = "user"
      BY <1>1, <1>3 DEF Written, Visits
    <2> HIDE DEF GoneOn
    <2>3. QED
      BY <1>1, <1>2, <2>1, <2>2, GoOnInv
  <1>8. CASE InsertUser(v) /\ users[visit[v].email] = NoUser
    <2>1. visit' = [visit EXCEPT ![v] = GoneOn("furnish")]
      <3>1. visit[v].wrote = Written(visit[v].at)
        BY <1>1 DEF Fits
      <3>2. QED
        BY <1>8, <3>1, NextStatement DEF InsertUser, Written
    <2>2. /\ Fits(GoneOn("furnish")) /\ GoneOn("furnish").email = visit[v].email
          /\ GoneOn("furnish").at = "furnish"
      BY <1>1, <1>3, <1>8 DEF Written, Visits
    <2> HIDE DEF GoneOn
    <2>3. \A w \in Visitors \ {v} : Holds(w, "user") => visit[w].email # visit[v].email
      BY <1>8 DEF InsertUser
    <2>4. QED
      BY <1>1, <1>2, <2>1, <2>2, <2>3, GoOnInv
  <1>9. CASE Furnish(v)
    <2>1. Holds(v, "user") /\ users[visit[v].email] = NoUser
      BY <1>1, <1>9 DEF Furnish, Fits, Holds, Written
    <2>2. visit' = [visit EXCEPT ![v] = GoneOn("commit")]
      <3>1. visit[v].wrote = Written(visit[v].at)
        BY <1>1 DEF Fits
      <3>2. visit[v].wrote \cup {"rest"} = Written("commit")
        BY <1>9, <3>1 DEF Furnish, Written
      <3>3. visit \in [Visitors -> Visits] /\ visit[v] \in Visits
        BY DEF AccountsInv, AccountsTypeOK
      <3>4. visit' = [visit EXCEPT ![v].at = "commit", ![v].wrote = visit[v].wrote \cup {"rest"}]
        BY <1>9, <3>3 DEF Furnish
      <3>5. QED
        BY <3>2, <3>4, NextStatement
    <2>3. /\ Fits(GoneOn("commit")) /\ GoneOn("commit").email = visit[v].email
          /\ GoneOn("commit").at = "commit"
      BY <1>1, <1>3, <2>1 DEF Written, Visits
    <2> HIDE DEF GoneOn
    <2>4. \A w \in Visitors \ {v} : Holds(w, "user") => visit[w].email # visit[v].email
      BY <2>1 DEF AccountsInv, UsersApart
    <2>5. QED
      BY <1>1, <1>2, <2>2, <2>3, <2>4, GoOnInv
  <1>10. QED
    BY <1>4, <1>5, <1>6, <1>7, <1>8, <1>9 DEF CheckSlug, CheckEmail, InsertTenant, InsertUser, Answer

\* What is left after the commit, and what goes wrong.
LEMMA EndInv ==
    ASSUME AccountsInv, NEW v \in Visitors, AssignFreePlan(v) \/ Fail(v)
    PROVE  AccountsInv'
  <1>1. visit' = [visit EXCEPT ![v] = NoVisit]
    BY DEF AssignFreePlan, Fail, Answer
  <1>2. visit[v].slug \in Slugs /\ plans \subseteq Slugs /\ faults \in Nat
    BY VisitBoundsAssumption DEF AccountsInv, AccountsTypeOK, Visits
  <1>3. /\ plans' \subseteq Slugs
        /\ UNCHANGED <<tenants, furnished, users, tokens, sessions, visits>>
        /\ faults' = faults \/ (faults < MaxFaults /\ faults' = faults + 1)
        /\ visit[v].at # "mark"
    BY <1>2 DEF AssignFreePlan, Fail
  <1>4. Fits(NoVisit) /\ "user" \notin NoVisit.wrote /\ NoVisit.at = "idle"
    BY NothingFits DEF NoVisit
  <1>5. QED
    BY <1>1, <1>3, <1>4, GoOnInv

\* The address that the registration has taken is still free when it commits.
LEMMA CommitRegistrationInv ==
    ASSUME AccountsInv, NEW v \in Visitors, CommitRegistration(v)
    PROVE  AccountsInv'
  <1> DEFINE x == visit[v]
             n == [tenant |-> x.slug, password |-> 0, active |-> TRUE]
             y == [x EXCEPT !.at = "plan", !.wrote = {}]
  <1>1. /\ x \in Visits /\ Fits(x) /\ x.at = "commit" /\ x.wrote = {"tenant", "user", "rest"}
        /\ users[x.email] = NoUser /\ x.slug \in Slugs /\ x.email \in Emails
    <2>1. Fits(x) /\ x.at = "commit"
      BY DEF AccountsInv, CommitRegistration
    <2>2. x \in Visits /\ x.wrote = {"tenant", "user", "rest"}
      BY <2>1 DEF Fits, Written
    <2>3. users[x.email] = NoUser
      BY <2>1, <2>2 DEF Fits
    <2>4. QED
      BY <2>1, <2>2, <2>3 DEF Visits
  <1>2. n \in Users /\ n # NoUser /\ n.tenant = x.slug
    <2>1. n \in Users /\ n.tenant = x.slug
      BY <1>1 DEF Users
    <2>2. QED
      BY <2>1, NoOne
  <1>3. /\ visit \in [Visitors -> Visits] /\ users \in [Emails -> Users \cup {NoUser}]
        /\ sessions \subseteq {e \in Emails : users[e] # NoUser}
    BY DEF AccountsInv, AccountsTypeOK
  <1>4. /\ users' = [users EXCEPT ![x.email] = n]
        /\ tenants' = tenants \cup {x.slug} /\ furnished' = furnished \cup {x.slug}
        /\ sessions' = sessions \cup {x.email}
        /\ UNCHANGED <<plans, tokens, visits, faults>>
    BY <1>1 DEF CommitRegistration, Holds
  <1>5. visit' = [visit EXCEPT ![v] = y]
    BY <1>3 DEF CommitRegistration
  <1>6. /\ users' \in [Emails -> Users \cup {NoUser}] /\ users'[x.email] = n
        /\ \A e \in Emails : e # x.email => users'[e] = users[e]
    BY <1>1, <1>2, <1>3, <1>4
  <1>7. y \in Visits /\ y.wrote = {} /\ y.at = "plan" /\ y.after = x.after /\ y.email = x.email
    BY <1>1 DEF Visits
  <1>8. /\ visit' \in [Visitors -> Visits] /\ visit'[v] = y
        /\ \A w \in Visitors \ {v} : visit'[w] = visit[w]
    BY <1>3, <1>5, <1>7
  <1> HIDE DEF n, y
  <1>9. AccountsTypeOK'
    <2>1. sessions' \subseteq {e \in Emails : users'[e] # NoUser}
      BY <1>1, <1>2, <1>3, <1>4, <1>6
    <2>2. QED
      BY <1>1, <1>4, <1>6, <1>8, <2>1 DEF AccountsInv, AccountsTypeOK
  <1>10. TokensCounted'
    <2>1. \A t \in tokens : t.user \in Emails
      BY DEF AccountsInv, AccountsTypeOK, Tokens
    <2>2. \A t \in tokens : users'[t.user] # NoUser
      BY <1>2, <1>6, <2>1 DEF AccountsInv, TokensCounted
    <2>3. QED
      BY <1>4, <2>2 DEF AccountsInv, TokensCounted, TokenIds
  <1>11. (\A w \in Visitors : Fits(visit[w]))'
    <2>1. \A w \in Visitors \ {v} : "user" \in visit[w].wrote => visit[w].email # x.email
      BY <1>1 DEF AccountsInv, UsersApart, Holds
    <2>2. ASSUME NEW w \in Visitors \ {v} PROVE Fits(visit[w])'
      <3>1. Fits(visit[w]) /\ visit[w].email \in Emails
        BY <1>3 DEF AccountsInv, Visits
      <3>2. QED
        BY <1>2, <1>4, <1>6, <1>8, <2>1, <3>1 DEF Fits, TokenIds
    <2>3. Fits(visit[v])'
      BY <1>1, <1>4, <1>7, <1>8 DEF Fits, TokenIds, Written
    <2>4. QED
      BY <2>2, <2>3
  <1>12. UsersApart'
    BY <1>7, <1>8 DEF AccountsInv, UsersApart, Holds
  <1>13. TenantsComplete'
    <2>1. ASSUME NEW s \in tenants
          PROVE  s \in furnished' /\ \E e \in Emails : users'[e] # NoUser /\ users'[e].tenant = s
      <3>1. PICK e \in Emails : users[e] # NoUser /\ users[e].tenant = s
        BY DEF AccountsInv, AccountsConsistent, TenantsComplete
      <3>2. users'[e] = users[e]
        BY <1>1, <1>6, <3>1
      <3>3. QED
        BY <1>4, <3>1, <3>2 DEF AccountsInv, AccountsConsistent, TenantsComplete
    <2>2. x.slug \in furnished' /\ \E e \in Emails : users'[e] # NoUser /\ users'[e].tenant = x.slug
      BY <1>1, <1>2, <1>4, <1>6
    <2>3. QED
      BY <1>4, <2>1, <2>2 DEF TenantsComplete
  <1>14. OnlyOverlappingTokensLive' /\ ResetsFit' /\ ResetAgainOnlyByOverlap'
    <2>1. OnlyOverlappingTokensLive' /\ ResetAgainOnlyByOverlap'
      BY <1>4 DEF AccountsInv, AccountsConsistent, OnlyOverlappingTokensLive, ResetAgainOnlyByOverlap
    <2>2. \A w \in Visitors : \/ visit'[w] = visit[w]
                              \/ /\ visit[w].at \notin {"password", "mark"}
                                 /\ visit'[w].at \notin {"password", "mark"}
      BY <1>1, <1>7, <1>8
    <2>3. ResetsFit'
      BY <1>4, <2>2 DEF AccountsInv, ResetsFit, ResetFits, At, Busy
    <2>4. QED
      BY <2>1, <2>3
  <1>15. QED
    BY <1>9, <1>10, <1>11, <1>12, <1>13, <1>14 DEF AccountsInv, AccountsConsistent

-----------------------------------------------------------------------------
(***************************************************************************)
(* Sessions.                                                               *)
(***************************************************************************)
\* Login and RefreshToken issue a session to a user who is there.
LEMMA SessionInv ==
    ASSUME AccountsInv, NEW v \in Visitors, NEW e \in Emails, IsActive(e), Enter(v, NoVisit),
           sessions' = sessions \/ sessions' = sessions \cup {e},
           UNCHANGED <<tenants, furnished, plans, users, tokens, faults>>
    PROVE  AccountsInv'
  <1>1. users[e] # NoUser
    BY ActiveKnown DEF AccountsInv
  <1>2. sessions' \subseteq {d \in Emails : users[d] # NoUser}
    BY <1>1 DEF AccountsInv, AccountsTypeOK
  <1>3. QED
    BY <1>2, NothingFits, EnterInv DEF NoVisit

\* A cashier who is taken out of use keeps the sessions issued before.
LEMMA UpdateCashierInv ==
    ASSUME AccountsInv, NEW v \in Visitors, NEW e \in Emails, UpdateCashier(v, e)
    PROVE  AccountsInv'
  <1> DEFINE n == [users[e] EXCEPT !.active = ~users[e].active]
  <1>1. /\ visit \in [Visitors -> Visits] /\ users \in [Emails -> Users \cup {NoUser}]
        /\ users[e] \in Users
    BY DEF AccountsInv, AccountsTypeOK, UpdateCashier
  <1>2. /\ visit' = [visit EXCEPT ![v] = NoVisit] /\ visits' \in 0 .. MaxVisits
        /\ visit[v].at = "idle"
        /\ UNCHANGED <<tenants, furnished, plans, tokens, sessions, faults>>
    BY VisitBoundsAssumption DEF UpdateCashier, Enter, AccountsInv, AccountsTypeOK
  <1>3. n \in Users /\ n # NoUser /\ n.tenant = users[e].tenant
    BY <1>1, NoOne DEF Users
  <1>4. /\ users' \in [Emails -> Users \cup {NoUser}]
        /\ \A d \in Emails : /\ users'[d] # NoUser <=> users[d] # NoUser
                             /\ users'[d].tenant = users[d].tenant
    <2>1. users' = [users EXCEPT ![e] = n]
      BY <1>1 DEF UpdateCashier
    <2> HIDE DEF n
    <2>2. QED
      BY <1>1, <1>3, <2>1 DEF UpdateCashier
  <1>5. /\ visit' \in [Visitors -> Visits] /\ visit'[v] = NoVisit
        /\ \A w \in Visitors \ {v} : visit'[w] = visit[w]
    BY <1>1, <1>2, NoOne
  <1>6. AccountsTypeOK'
    <2>1. sessions' \subseteq {d \in Emails : users'[d] # NoUser}
      BY <1>2, <1>4 DEF AccountsInv, AccountsTypeOK
    <2>2. QED
      BY <1>2, <1>4, <1>5, <2>1 DEF AccountsInv, AccountsTypeOK
  <1>7. TokensCounted'
    <2>1. \A t \in tokens : t.user \in Emails
      BY DEF AccountsInv, AccountsTypeOK, Tokens
    <2>2. QED
      BY <1>2, <1>4, <2>1 DEF AccountsInv, TokensCounted, TokenIds
  <1>8. \A x : Fits(x) => Fits(x)'
    BY <1>2, <1>4 DEF Fits, TokenIds, Visits
  <1>9. (\A w \in Visitors : Fits(visit[w]))'
    <2>1. \A w \in Visitors : Fits(visit'[w])
      BY <1>5, NothingFits DEF AccountsInv
    <2>2. ASSUME NEW w \in Visitors, NEW x, x = visit'[w] PROVE Fits(x)'
      BY <1>8, <2>1, <2>2
    <2>3. QED
      BY <2>2 DEF Fits
  <1>10. UsersApart'
    BY <1>5 DEF AccountsInv, UsersApart, Holds, NoVisit
  <1>11. (TenantsComplete /\ OnlyOverlappingTokensLive /\ ResetAgainOnlyByOverlap)'
    BY <1>2, <1>4 DEF AccountsInv, AccountsConsistent, TenantsComplete,
                      OnlyOverlappingTokensLive, ResetAgainOnlyByOverlap
  <1>12. ResetsFit'
    <2>1. \A w \in Visitors : \/ visit'[w] = visit[w]
                              \/ /\ visit[w].at \notin {"password", "mark"}
                                 /\ visit'[w].at \notin {"password", "mark"}
      BY <1>2, <1>5 DEF NoVisit
    <2>2. QED
      BY <1>2, <2>1 DEF AccountsInv, ResetsFit, ResetFits, At, Busy
  <1>13. QED
    BY <1>6, <1>7, <1>9, <1>10, <1>11, <1>12 DEF AccountsInv, AccountsConsistent

-----------------------------------------------------------------------------
(***************************************************************************)
(* Password resets.                                                        *)
(***************************************************************************)
\* A token n is t but for what its resets have come to.
SameToken(t, n) ==
    /\ n \in Tokens /\ n.id = t.id /\ n.user = t.user /\ n.after = t.after
UsedNow(t, n) ==
    /\ SameToken(t, n) /\ n.used
    /\ n.uses = t.uses /\ n.shared = t.shared /\ n.unmarked = t.unmarked
SpentNow(t, n) ==
    /\ SameToken(t, n) /\ n.uses = t.uses + 1
    /\ n.used = t.used /\ n.shared = t.shared /\ n.unmarked = t.unmarked
SharedNow(t, n) ==
    /\ SameToken(t, n) /\ n.shared
    /\ n.used = t.used /\ n.uses = t.uses /\ n.unmarked = t.unmarked
UnmarkedNow(t, n) ==
    /\ SameToken(t, n) /\ n.unmarked
    /\ n.used = t.used /\ n.uses = t.uses /\ n.shared = t.shared

\* Marking a token leaves it that token.
LEMMA Marking ==
    ASSUME NEW t \in Tokens
    PROVE  /\ UsedNow(t, [t EXCEPT !.used = TRUE])
           /\ SpentNow(t, [t EXCEPT !.uses = @ + 1])
           /\ SharedNow(t, [t EXCEPT !.shared = TRUE])
           /\ UnmarkedNow(t, [t EXCEPT !.unmarked = TRUE])
  <1>1. UsedNow(t, [t EXCEPT !.used = TRUE])
    BY DEF Tokens, SameToken, UsedNow
  <1>2. SpentNow(t, [t EXCEPT !.uses = @ + 1])
    BY DEF Tokens, SameToken, SpentNow
  <1>3. SharedNow(t, [t EXCEPT !.shared = TRUE])
    BY DEF Tokens, SameToken, SharedNow
  <1>4. UnmarkedNow(t, [t EXCEPT !.unmarked = TRUE])
    BY DEF Tokens, SameToken, UnmarkedNow
  <1>5. QED
    BY <1>1, <1>2, <1>3, <1>4

\* Tokens that are changed one by one are as many, and keep their numbers.
LEMMA TokensChanged ==
    ASSUME AccountsInv, NEW g \in [tokens -> Tokens], tokens' = {g[t] : t \in tokens},
           \A t \in tokens : /\ g[t].id = t.id /\ g[t].user = t.user /\ g[t].after = t.after
                             /\ t.used => g[t].used
    PROVE  /\ IsFiniteSet(tokens') /\ TokenIds' = TokenIds
           /\ tokens' \subseteq Tokens
           /\ \A s, t \in tokens' : s.id = t.id => s = t
  <1>1. /\ IsFiniteSet(tokens)
        /\ \A s, t \in tokens : s.id = t.id => s = t
    BY DEF AccountsInv, AccountsTypeOK, TokensCounted
  <1>2. g \in Bijection(tokens, tokens')
    <2>1. g \in Surjection(tokens, tokens')
      BY DEF Surjection
    <2>2. g \in Injection(tokens, tokens')
      BY <1>1 DEF Injection, IsInjective
    <2>3. QED
      BY <2>1, <2>2 DEF Bijection
  <1>3. IsFiniteSet(tokens') /\ Cardinality(tokens') = Cardinality(tokens)
    BY <1>1, <1>2, FS_Bijection DEF ExistsBijection
  <1>4. QED
    BY <1>1, <1>3 DEF TokenIds

\* A step of a reset, after which every token is still that of the same user, and
\* used if it was.
LEMMA ResetInv ==
    ASSUME AccountsInv, NEW v \in Visitors, NEW x,
           NEW g \in [tokens -> Tokens], tokens' = {g[t] : t \in tokens},
           \A t \in tokens : /\ g[t].id = t.id /\ g[t].user = t.user /\ g[t].after = t.after
                             /\ t.used => g[t].used,
           users' \in [Emails -> Users \cup {NoUser}],
           \A e \in Emails : /\ users'[e] # NoUser <=> users[e] # NoUser
                             /\ users'[e].tenant = users[e].tenant,
           visit' = [visit EXCEPT ![v] = x], x \in Visits, x.wrote = {}, Written(x.at) = {},
           x.at \in {"invalidate", "store", "password", "mark"} => users'[x.email] # NoUser,
           x.after \subseteq TokenIds',
           x.at \in {"password", "mark"} => x.token \in TokenIds',
           \A t \in tokens' : t.user = x.email /\ t.id \in x.after => t.used,
           UNCHANGED <<tenants, furnished, plans, sessions>>,
           visits' \in 0 .. MaxVisits, faults' \in 0 .. MaxFaults,
           ResetsFit', ResetAgainOnlyByOverlap'
    PROVE  AccountsInv'
  <1>1. /\ IsFiniteSet(tokens') /\ TokenIds' = TokenIds
        /\ tokens' \subseteq Tokens
        /\ \A s, t \in tokens' : s.id = t.id => s = t
    BY TokensChanged
  <1>2. /\ visit' \in [Visitors -> Visits] /\ visit'[v] = x
        /\ \A w \in Visitors \ {v} : visit'[w] = visit[w]
    BY DEF AccountsInv, AccountsTypeOK
  <1>3. AccountsTypeOK'
    <2>1. sessions' \subseteq {e \in Emails : users'[e] # NoUser}
      BY DEF AccountsInv, AccountsTypeOK
    <2>2. QED
      BY <1>1, <1>2, <2>1 DEF AccountsInv, AccountsTypeOK
  <1>4. TokensCounted'
    <2>1. \A t \in tokens : t.user \in Emails
      BY DEF AccountsInv, AccountsTypeOK, Tokens
    <2>2. \A t \in tokens : /\ g[t].id \in TokenIds' /\ g[t].after \subseteq TokenIds'
                            /\ users'[g[t].user] # NoUser
      BY <1>1, <2>1 DEF AccountsInv, TokensCounted
    <2>3. \A t \in tokens' : /\ t.id \in TokenIds' /\ t.after \subseteq TokenIds'
                             /\ users'[t.user] # NoUser
      BY <2>2
    <2>4. QED
      BY <1>1, <2>3 DEF TokensCounted
  <1>5. (\A w \in Visitors : Fits(visit[w]))'
    <2>1. ASSUME NEW w \in Visitors \ {v} PROVE Fits(visit[w])'
      <3>1. Fits(visit[w]) /\ visit[w] \in Visits /\ visit[w].email \in Emails
        BY DEF AccountsInv, Fits, Visits
      <3>2. \A t \in tokens' : t.user = visit[w].email /\ t.id \in visit[w].after => t.used
        BY <3>1 DEF Fits
      <3>3. QED
        BY <1>1, <1>2, <3>1, <3>2 DEF Fits
    <2>2. Fits(visit[v])'
      BY <1>2 DEF Fits
    <2>3. QED
      BY <2>1, <2>2
  <1>6. UsersApart'
    BY <1>2 DEF AccountsInv, UsersApart, Holds
  <1>7. TenantsComplete'
    BY DEF AccountsInv, AccountsConsistent, TenantsComplete
  <1>8. OnlyOverlappingTokensLive'
    <2>1. \A s, t \in tokens : s.user = t.user /\ ~g[s].used /\ ~g[t].used => s.id \notin t.after
      <3>1. \A s \in tokens : ~g[s].used => ~s.used
        OBVIOUS
      <3>2. QED
        BY <3>1 DEF AccountsInv, AccountsConsistent, OnlyOverlappingTokensLive
    <2>2. \A s, t \in tokens' : s.user = t.user /\ ~s.used /\ ~t.used => s.id \notin t.after
      BY <2>1
    <2>3. QED
      BY <2>2 DEF OnlyOverlappingTokensLive
  <1>9. QED
    BY <1>3, <1>4, <1>5, <1>6, <1>7, <1>8 DEF AccountsInv, AccountsConsistent

\* A reset is requested of an active user.
LEMMA RequestResetInv ==
    ASSUME AccountsInv, NEW v \in Visitors, NEW e \in Emails, RequestPasswordReset(v, e)
    PROVE  AccountsInv'
  <1> DEFINE x == [NoVisit EXCEPT !.at = "invalidate", !.email = e]
  <1>1. x \in Visits /\ x.wrote = {} /\ x.after = {} /\ x.at = "invalidate" /\ x.email = e
    BY NoOne DEF Visits, NoVisit
  <1>2. users[e] # NoUser
    BY ActiveKnown DEF AccountsInv, RequestPasswordReset
  <1>3. Enter(v, x) /\ UNCHANGED <<tenants, furnished, plans, users, tokens, sessions, faults>>
    BY DEF RequestPasswordReset
  <1> HIDE DEF x
  <1>4. Fits(x)
    BY <1>1, <1>2, FreshFits DEF Written
  <1>5. sessions' \subseteq {d \in Emails : users[d] # NoUser}
    BY <1>3 DEF AccountsInv, AccountsTypeOK
  <1>6. QED
    BY <1>1, <1>3, <1>4, <1>5, EnterInv

\* All tokens that are there of the user are invalidated.
LEMMA InvalidateInv ==
    ASSUME AccountsInv, NEW v \in Visitors, Invalidate(v)
    PROVE  AccountsInv'
  <1> DEFINE e == visit[v].email
             m(t) == [t EXCEPT !.used = TRUE]
             g == [t \in tokens |-> IF t.user = e THEN m(t) ELSE t]
             ids == {t.id : t \in {u \in tokens : u.user = e}}
             x == [visit[v] EXCEPT !.at = "store", !.after = ids]
  <1>1. /\ visit \in [Visitors -> Visits] /\ visit[v] \in Visits /\ tokens \subseteq Tokens
        /\ users \in [Emails -> Users \cup {NoUser}]
    BY DEF AccountsInv, AccountsTypeOK
  <1>2. /\ visit[v].at = "invalidate" /\ visit[v].wrote = {} /\ users[e] # NoUser
    BY DEF AccountsInv, Invalidate, Fits, Written
  <1>3. /\ tokens' = {g[t] : t \in tokens} /\ visit' = [visit EXCEPT ![v] = x]
        /\ UNCHANGED <<tenants, furnished, plans, users, sessions, visits, faults>>
    BY <1>1 DEF Invalidate
  <1>4. /\ g \in [tokens -> Tokens]
        /\ \A t \in tokens : /\ g[t].id = t.id /\ g[t].user = t.user /\ g[t].after = t.after
                             /\ t.used => g[t].used
                             /\ t.user = e => g[t].used
                             /\ g[t].uses = t.uses /\ g[t].shared = t.shared
                             /\ g[t].unmarked = t.unmarked
    <2>1. \A t \in tokens : t \in Tokens /\ UsedNow(t, m(t))
      BY <1>1, Marking
    <2> HIDE DEF m
    <2>2. QED
      BY <2>1 DEF UsedNow, SameToken
  <1>5. ids \subseteq TokenIds /\ ids \subseteq Nat
    BY <1>1 DEF AccountsInv, TokensCounted, Tokens
  <1>6. x \in Visits /\ x.wrote = {} /\ x.at = "store" /\ x.after = ids /\ x.email = e
    BY <1>1, <1>2, <1>5 DEF Visits
  <1> HIDE DEF g, x, ids
  <1>7. /\ TokenIds' = TokenIds
        /\ \A t \in tokens' : t.user = x.email => t.used
    <2>1. TokenIds' = TokenIds
      BY <1>3, <1>4, TokensChanged
    <2>2. QED
      BY <1>3, <1>4, <1>6, <2>1
  <1>8. ResetsFit' /\ ResetAgainOnlyByOverlap'
    <2>1. \A w \in Visitors : \/ visit'[w] = visit[w]
                              \/ visit[w].at # "mark" /\ visit'[w].at \notin {"password", "mark"}
      BY <1>1, <1>2, <1>3, <1>6
    <2>2. QED
      BY <1>3, <1>4, <2>1, ResetsStay
  <1>9. visits' \in 0 .. MaxVisits /\ faults' \in 0 .. MaxFaults
    BY <1>3 DEF AccountsInv, AccountsTypeOK
  <1>10. /\ Written(x.at) = {} /\ x.at \notin {"password", "mark"}
         /\ users'[x.email] # NoUser /\ x.after \subseteq TokenIds'
         /\ \A t \in tokens' : t.user = x.email /\ t.id \in x.after => t.used
    BY <1>2, <1>3, <1>5, <1>6, <1>7 DEF Written
  <1>11. \A d \in Emails : /\ users'[d] # NoUser <=> users[d] # NoUser
                          /\ users'[d].tenant = users[d].tenant
    BY <1>3
  <1>12. /\ users' \in [Emails -> Users \cup {NoUser}] /\ tokens' = {g[t] : t \in tokens}
         /\ visit' = [visit EXCEPT ![v] = x]
         /\ UNCHANGED <<tenants, furnished, plans, sessions>>
    BY <1>1, <1>3
  <1>13. QED
    BY <1>4, <1>6, <1>8, <1>9, <1>10, <1>11, <1>12, ResetInv

\* If that fails, the new token comes after none.
LEMMA InvalidateFailsInv ==
    ASSUME AccountsInv, NEW v \in Visitors, InvalidateFails(v)
    PROVE  AccountsInv'
  <1> DEFINE x == [visit[v] EXCEPT !.at = "store", !.wrote = visit[v].wrote]
  <1>1. visit[v] \in Visits /\ Fits(visit[v]) /\ plans \subseteq Slugs
    BY DEF AccountsInv, AccountsTypeOK
  <1>2. visit' = [visit EXCEPT ![v] = x]
    BY NextStatement DEF InvalidateFails
  <1>3. Fits(x) /\ x.wrote = {} /\ x.at = "store" /\ visit[v].at # "mark"
    BY <1>1 DEF InvalidateFails, Fits, Visits, Written
  <1> HIDE DEF x
  <1>4. QED
    BY <1>1, <1>2, <1>3, GoOnInv DEF InvalidateFails

\* A new token has a new number.
LEMMA StoreTokenInv ==
    ASSUME AccountsInv, NEW v \in Visitors, StoreToken(v)
    PROVE  AccountsInv'
  <1> DEFINE n == [id |-> Cardinality(tokens) + 1, user |-> visit[v].email, used |-> FALSE,
                   expired |-> FALSE, after |-> visit[v].after,
                   uses |-> 0, shared |-> FALSE, unmarked |-> FALSE]
  <1>1. /\ visit \in [Visitors -> Visits] /\ visit[v] \in Visits /\ Fits(visit[v])
        /\ visit[v].at = "store" /\ IsFiniteSet(tokens) /\ tokens \subseteq Tokens
    BY DEF AccountsInv, AccountsTypeOK, TokensCounted, StoreToken
  <1>2. /\ tokens' = tokens \cup {n} /\ visit' = [visit EXCEPT ![v] = NoVisit]
        /\ UNCHANGED <<tenants, furnished, plans, users, sessions, visits, faults>>
    BY DEF StoreToken, Answer
  <1>3. Cardinality(tokens) \in Nat
    BY <1>1, FS_CardinalityType
  <1>4. /\ n \in Tokens /\ n.id = Cardinality(tokens) + 1 /\ n.user = visit[v].email
        /\ ~n.used /\ n.uses = 0 /\ n.after = visit[v].after /\ users[n.user] # NoUser
    BY <1>1, <1>3 DEF Tokens, Visits, Fits
  <1> HIDE DEF n
  <1>5. n.id \notin TokenIds /\ n \notin tokens
    BY <1>3, <1>4 DEF AccountsInv, TokensCounted, TokenIds
  <1>6. /\ IsFiniteSet(tokens') /\ Cardinality(tokens') = Cardinality(tokens) + 1
    BY <1>1, <1>2, <1>5, FS_AddElement
  <1>7. TokenIds \subseteq TokenIds' /\ n.id \in TokenIds'
    BY <1>3, <1>4, <1>6 DEF TokenIds
  <1>8. /\ visit' \in [Visitors -> Visits] /\ visit'[v] = NoVisit
        /\ \A w \in Visitors \ {v} : visit'[w] = visit[w]
    BY <1>1, <1>2, NoOne
  <1>9. AccountsTypeOK'
    <2>1. \A s, t \in tokens' : s.id = t.id => s = t
      BY <1>2, <1>5 DEF AccountsInv, AccountsTypeOK, TokensCounted
    <2>2. QED
      BY <1>1, <1>2, <1>4, <1>8, <2>1 DEF AccountsInv, AccountsTypeOK
  <1>10. TokensCounted'
    <2>1. \A t \in tokens' : t.id \in TokenIds' /\ t.after \subseteq TokenIds' /\ users[t.user] # NoUser
      BY <1>1, <1>2, <1>4, <1>7 DEF AccountsInv, TokensCounted, Fits
    <2>2. QED
      BY <1>2, <1>6, <2>1 DEF TokensCounted
  <1>11. (\A w \in Visitors : Fits(visit[w]))'
    <2>1. ASSUME NEW x, Fits(x) PROVE Fits(x)'
      <3>1. \A t \in tokens' : t.user = x.email /\ t.id \in x.after => t.used
        BY <1>2, <1>5, <2>1 DEF Fits
      <3>2. QED
        BY <1>2, <1>7, <2>1, <3>1 DEF Fits
    <2>2. ASSUME NEW w \in Visitors, NEW x, x = visit'[w] PROVE Fits(x)'
      BY <1>8, <2>1, <2>2, NothingFits DEF AccountsInv
    <2>3. QED
      BY <2>2 DEF Fits
  <1>12. UsersApart'
    BY <1>8 DEF AccountsInv, UsersApart, Holds, NoVisit
  <1>13. TenantsComplete'
    BY <1>2 DEF AccountsInv, AccountsConsistent, TenantsComplete
  <1>14. OnlyOverlappingTokensLive'
    <2>1. \A s \in tokens : s.user = n.user /\ ~s.used => s.id \notin n.after
      BY <1>1, <1>4 DEF Fits
    <2>2. \A t \in tokens' : n.id \notin t.after
      BY <1>1, <1>2, <1>4, <1>5 DEF AccountsInv, TokensCounted, Fits
    <2>3. QED
      BY <1>2, <2>1, <2>2 DEF AccountsInv, AccountsConsistent, OnlyOverlappingTokensLive
  <1>15. ResetsFit' /\ ResetAgainOnlyByOverlap'
    <2>1. \A w \in Visitors : \/ visit'[w] = visit[w]
                              \/ /\ visit[w].at \notin {"password", "mark"}
                                 /\ visit'[w].at \notin {"password", "mark"}
      BY <1>1, <1>8 DEF NoVisit
    <2>2. \A w \in Visitors : visit'[w].at \in {"password", "mark"} => visit'[w].token # n.id
      BY <1>5, <2>1 DEF AccountsInv, Fits
    <2>3. ResetAgainOnlyByOverlap'
      BY <1>2, <1>4 DEF AccountsInv, AccountsConsistent, ResetAgainOnlyByOverlap
    <2>4. ASSUME NEW t \in tokens PROVE ResetFits(t, visit')
      <3>1. \A w \in Visitors :
                /\ At(visit', w, "mark", t) <=> At(visit, w, "mark", t)
                /\ At(visit', w, "password", t) <=> At(visit, w, "password", t)
                /\ Busy(visit', w, t) <=> Busy(visit, w, t)
        BY <2>1 DEF At, Busy
      <3>2. ResetFits(t, visit)
        BY DEF AccountsInv, ResetsFit
      <3>3. QED
        BY <3>1, <3>2 DEF ResetFits
    <2>5. ResetFits(n, visit')
      <3>1. \A w \in Visitors : ~At(visit', w, "password", n) /\ ~Busy(visit', w, n)
        BY <2>2 DEF At, Busy
      <3>2. QED
        BY <1>4, <3>1 DEF ResetFits
    <2>6. \A t \in tokens' : ResetFits(t, visit')
      BY <1>2, <2>4, <2>5
    <2>7. QED
      BY <2>3, <2>6 DEF ResetsFit, ResetFits, At, Busy
  <1>16. QED
    BY <1>9, <1>10, <1>11, <1>12, <1>13, <1>14, <1>15 DEF AccountsInv, AccountsConsistent

\* A token that expires is otherwise the same.
LEMMA ExpireTokenInv ==
    ASSUME AccountsInv, NEW o \in tokens, ExpireToken(o)
    PROVE  AccountsInv'
  <1> DEFINE p == [o EXCEPT !.expired = TRUE]
             g == [t \in tokens |-> IF t = o THEN p ELSE t]
  <1>1. /\ tokens \subseteq Tokens
        /\ tokens' = (tokens \ {o}) \cup {p}
        /\ UNCHANGED <<tenants, furnished, plans, users, sessions, visit, visits, faults>>
    BY DEF AccountsInv, AccountsTypeOK, ExpireToken
  <1>2. p \in Tokens /\ p.id = o.id /\ p.user = o.user /\ p.used = o.used /\ p.after = o.after
        /\ p.uses = o.uses /\ p.shared = o.shared /\ p.unmarked = o.unmarked
    BY <1>1 DEF Tokens
  <1> HIDE DEF p
  <1>3. /\ g \in [tokens -> Tokens]
        /\ \A t \in tokens : /\ g[t].id = t.id /\ g[t].user = t.user /\ g[t].after = t.after
                             /\ (t.used => g[t].used)
                             /\ (g[t].used => t.used) /\ g[t].uses = t.uses
                             /\ g[t].shared = t.shared /\ g[t].unmarked = t.unmarked
    BY <1>1, <1>2
  <1>4. tokens' = {g[t] : t \in tokens}
    BY <1>1
  <1> HIDE DEF g
  <1>5. /\ IsFiniteSet(tokens') /\ TokenIds' = TokenIds
        /\ tokens' \subseteq Tokens
        /\ \A s, t \in tokens' : s.id = t.id => s = t
    BY <1>3, <1>4, TokensChanged
  <1>6. AccountsTypeOK'
    BY <1>1, <1>5 DEF AccountsInv, AccountsTypeOK
  <1>7. TokensCounted'
    <2>1. \A t \in tokens' : t.id \in TokenIds' /\ t.after \subseteq TokenIds' /\ users[t.user] # NoUser
      BY <1>3, <1>4, <1>5 DEF AccountsInv, TokensCounted
    <2>2. QED
      BY <1>1, <1>5, <2>1 DEF TokensCounted
  <1>8. (\A w \in Visitors : Fits(visit[w]))'
    <2>1. ASSUME NEW x, Fits(x) PROVE Fits(x)'
      <3>1. \A t \in tokens' : t.user = x.email /\ t.id \in x.after => t.used
        BY <1>3, <1>4, <2>1 DEF Fits
      <3>2. QED
        BY <1>1, <1>5, <2>1, <3>1 DEF Fits
    <2>2. ASSUME NEW w \in Visitors, NEW x, x = visit'[w] PROVE Fits(x)'
      BY <1>1, <2>1, <2>2 DEF AccountsInv
    <2>3. QED
      BY <2>2 DEF Fits
  <1>9. UsersApart'
    BY <1>1 DEF AccountsInv, UsersApart, Holds
  <1>10. TenantsComplete'
    BY <1>1 DEF AccountsInv, AccountsConsistent, TenantsComplete
  <1>11. OnlyOverlappingTokensLive'
    BY <1>3, <1>4 DEF AccountsInv, AccountsConsistent, OnlyOverlappingTokensLive
  <1>12. ResetsFit' /\ ResetAgainOnlyByOverlap'
    BY <1>1, <1>3, <1>4, ResetsStay
  <1>13. QED
    BY <1>6, <1>7, <1>8, <1>9, <1>10, <1>11, <1>12 DEF AccountsInv, AccountsConsistent

\* A reset finds a token that is not used; if it is alone with it, no password
\* has been set with the token, unless one could not mark it.
LEMMA ResetPasswordInv ==
    ASSUME AccountsInv, NEW v \in Visitors, NEW o \in tokens, ResetPassword(v, o)
    PROVE  AccountsInv'
  <1> DEFINE m(t) == [t EXCEPT !.shared = TRUE]
             met == \E w \in Visitors : Resetting(w, o)
             g == [t \in tokens |-> IF t = o /\ met THEN m(t) ELSE t]
             x == [NoVisit EXCEPT !.at = "password", !.email = o.user, !.token = o.id]
  <1>1. /\ visit \in [Visitors -> Visits] /\ tokens \subseteq Tokens /\ visits \in 0 .. MaxVisits
        /\ users \in [Emails -> Users \cup {NoUser}] /\ users[o.user] # NoUser
        /\ o.id \in TokenIds /\ faults \in 0 .. MaxFaults
        /\ \A s, t \in tokens : s.id = t.id => s = t
    BY DEF AccountsInv, AccountsTypeOK, TokensCounted
  <1>2. /\ ~o.used /\ visit[v].at = "idle" /\ visits < MaxVisits /\ visits' = visits + 1
        /\ visit' = [visit EXCEPT ![v] = x]
        /\ tokens' = {g[t] : t \in tokens}
        /\ UNCHANGED <<tenants, furnished, plans, users, sessions, faults>>
    BY DEF ResetPassword, Enter
  <1>3. x \in Visits /\ x.wrote = {} /\ x.after = {} /\ x.at = "password" /\ x.email = o.user
        /\ x.token = o.id
    BY <1>1, NoOne DEF Visits, NoVisit, Tokens
  <1>4. /\ g \in [tokens -> Tokens]
        /\ \A t \in tokens : /\ SameToken(t, g[t]) /\ g[t].used = t.used
                             /\ g[t].uses = t.uses /\ g[t].unmarked = t.unmarked
                             /\ t.shared => g[t].shared
                             /\ t = o /\ met => g[t].shared
                             /\ t # o => g[t].shared = t.shared
    <2>1. \A t \in tokens : t \in Tokens /\ SharedNow(t, m(t))
      BY <1>1, Marking
    <2> HIDE DEF m, met
    <2>2. QED
      BY <2>1 DEF SharedNow, SameToken
  <1> HIDE DEF m, g, x
  <1>5. \A t \in tokens : /\ g[t].id = t.id /\ g[t].user = t.user /\ g[t].after = t.after
                          /\ t.used => g[t].used
    BY <1>4 DEF SameToken
  <1>6. TokenIds' = TokenIds
    BY <1>2, <1>4, <1>5, TokensChanged
  <1>7. /\ visit'[v] = x
        /\ \A w \in Visitors \ {v} : visit'[w] = visit[w]
    BY <1>1, <1>2
  <1>8. ASSUME NEW t \in tokens
        PROVE  ResetFits(g[t], visit')
    <2>1. /\ ResetFits(t, visit)
          /\ t.uses > 0 => t.used \/ t.unmarked \/ \E w \in Visitors : At(visit, w, "mark", t)
          /\ ~t.shared => \A u, w \in Visitors : Busy(visit, u, t) /\ Busy(visit, w, t) => u = w
          /\ ~t.shared /\ ~t.unmarked =>
                \A w \in Visitors : At(visit, w, "password", t) => t.uses = 0
          /\ t.uses > 1 => t.shared \/ t.unmarked
      BY DEF AccountsInv, ResetsFit, ResetFits
    <2>2. \A w \in Visitors \ {v} : /\ At(visit', w, "mark", g[t]) <=> At(visit, w, "mark", t)
                                    /\ At(visit', w, "password", g[t]) <=> At(visit, w, "password", t)
                                    /\ Busy(visit', w, g[t]) <=> Busy(visit, w, t)
      BY <1>5, <1>7 DEF At, Busy
    <2>3. /\ ~At(visit, v, "mark", t) /\ ~At(visit, v, "password", t) /\ ~Busy(visit, v, t)
          /\ ~At(visit', v, "mark", g[t])
      BY <1>2, <1>3, <1>7 DEF At, Busy
    <2>4. g[t].used = t.used /\ g[t].uses = t.uses /\ g[t].unmarked = t.unmarked
          /\ (t.shared => g[t].shared)
      BY <1>4
    <2>5. CASE t # o
      <3>1. ~At(visit', v, "password", g[t]) /\ ~Busy(visit', v, g[t])
        BY <1>1, <1>3, <1>5, <1>7, <2>5 DEF At, Busy
      <3>2. QED
        BY <2>1, <2>2, <2>3, <2>4, <3>1 DEF ResetFits
    <2>6. CASE t = o /\ met
      <3>1. g[t].shared
        BY <1>4, <2>6
      <3>2. QED
        BY <2>1, <2>2, <2>3, <2>4, <3>1 DEF ResetFits
    <2>7. CASE t = o /\ ~met
      <3>1. \A w \in Visitors : ~Busy(visit, w, t) /\ ~At(visit, w, "mark", t)
        BY <2>7 DEF met, Resetting, At, Busy
      <3>2. \A u, w \in Visitors : Busy(visit', u, g[t]) /\ Busy(visit', w, g[t]) => u = w
        BY <2>2, <3>1
      <3>3. ~g[t].unmarked => ~(t.uses > 0)
        BY <1>2, <2>1, <2>4, <2>7, <3>1
      <3>4. t.uses \in Nat
        BY <1>1 DEF Tokens
      <3>5. ~g[t].unmarked => g[t].uses = 0
        BY <2>4, <3>3, <3>4
      <3>6. QED
        BY <2>1, <2>2, <2>3, <2>4, <3>1, <3>2, <3>5 DEF ResetFits
    <2>8. QED
      BY <2>5, <2>6, <2>7
  <1>9. ResetsFit' /\ ResetAgainOnlyByOverlap'
    BY <1>2, <1>4, <1>8, ResetsChanged
  <1>10. /\ visits' \in 0 .. MaxVisits /\ faults' \in 0 .. MaxFaults
         /\ users' \in [Emails -> Users \cup {NoUser}] /\ users' = users
         /\ users'[x.email] # NoUser
    BY <1>1, <1>2, <1>3, VisitBoundsAssumption
  <1>11. /\ Written(x.at) = {} /\ x.after \subseteq TokenIds' /\ x.token \in TokenIds'
         /\ \A t \in tokens' : t.user = x.email /\ t.id \in x.after => t.used
         /\ \A e \in Emails : /\ users'[e] # NoUser <=> users[e] # NoUser
                              /\ users'[e].tenant = users[e].tenant
    BY <1>1, <1>3, <1>6, <1>10 DEF Written
  <1>12. QED
    BY <1>2, <1>3, <1>4, <1>5, <1>9, <1>10, <1>11, ResetInv

\* The second password of a token is that of two resets that met, or follows one
\* that could not mark it; and its request is about to mark it.
LEMMA SetPasswordInv ==
    ASSUME AccountsInv, NEW v \in Visitors, SetPassword(v)
    PROVE  AccountsInv'
  <1> DEFINE e == visit[v].email
             k == visit[v].token
             n == [users[e] EXCEPT !.password = k]
             m(t) == [t EXCEPT !.uses = @ + 1]
             g == [t \in tokens |-> IF t.id = k THEN m(t) ELSE t]
             x == [visit[v] EXCEPT !.at = "mark", !.wrote = visit[v].wrote]
  <1>1. /\ visit \in [Visitors -> Visits] /\ visit[v] \in Visits /\ tokens \subseteq Tokens
        /\ users \in [Emails -> Users \cup {NoUser}] /\ Fits(visit[v])
    BY DEF AccountsInv, AccountsTypeOK
  <1>2. /\ visit[v].at = "password" /\ visit[v].wrote = {} /\ e \in Emails /\ k \in Nat
        /\ users[e] \in Users /\ k \in TokenIds
    BY <1>1 DEF SetPassword, Fits, Written, Visits
  <1>3. /\ tokens' = {g[t] : t \in tokens}
        /\ UNCHANGED <<tenants, furnished, plans, sessions, visits, faults>>
    BY DEF SetPassword
  <1>4. /\ g \in [tokens -> Tokens]
        /\ \A t \in tokens : /\ SameToken(t, g[t]) /\ g[t].used = t.used
                             /\ g[t].shared = t.shared /\ g[t].unmarked = t.unmarked
                             /\ t.id = k => g[t].uses = t.uses + 1
                             /\ t.id # k => g[t].uses = t.uses
    <2>1. \A t \in tokens : t \in Tokens /\ SpentNow(t, m(t))
      BY <1>1, Marking
    <2> HIDE DEF m
    <2>2. QED
      BY <2>1 DEF SpentNow, SameToken
  <1>5. \A t \in tokens : /\ g[t].id = t.id /\ g[t].user = t.user /\ g[t].after = t.after
                          /\ t.used => g[t].used
    BY <1>4 DEF SameToken
  <1>6. users' = [users EXCEPT ![e] = n]
    BY <1>1, <1>2 DEF SetPassword
  <1>7. n \in Users /\ n # NoUser /\ n.tenant = users[e].tenant
    BY <1>2, NoOne DEF Users
  <1>8. visit' = [visit EXCEPT ![v] = x]
    BY NextStatement DEF SetPassword
  <1>9. x \in Visits /\ x.wrote = {} /\ x.at = "mark" /\ x.token = k /\ x.email = e
        /\ x.after = visit[v].after
    BY <1>1, <1>2 DEF Visits
  <1> HIDE DEF n, m, g, x
  <1>10. /\ users' \in [Emails -> Users \cup {NoUser}]
         /\ \A d \in Emails : /\ users'[d] # NoUser <=> users[d] # NoUser
                              /\ users'[d].tenant = users[d].tenant
    BY <1>1, <1>2, <1>6, <1>7, NoOne
  <1>11. /\ x.after \subseteq TokenIds' /\ x.token \in TokenIds'
         /\ users'[x.email] # NoUser
         /\ \A t \in tokens' : t.user = x.email /\ t.id \in x.after => t.used
    <2>1. TokenIds' = TokenIds
      BY <1>3, <1>4, <1>5, TokensChanged
    <2>2. \A t \in tokens' : t.user = x.email /\ t.id \in x.after => t.used
      BY <1>1, <1>3, <1>4, <1>5, <1>9 DEF Fits
    <2>3. QED
      BY <1>1, <1>2, <1>6, <1>7, <1>9, <2>1, <2>2 DEF Fits
  <1>12. /\ visit'[v] = x
         /\ \A w \in Visitors \ {v} : visit'[w] = visit[w]
    BY <1>1, <1>8
  <1>13. ASSUME NEW t \in tokens
         PROVE  ResetFits(g[t], visit')
    <2>1. /\ ResetFits(t, visit)
          /\ t.uses > 0 => t.used \/ t.unmarked \/ \E w \in Visitors : At(visit, w, "mark", t)
          /\ ~t.shared => \A u, w \in Visitors : Busy(visit, u, t) /\ Busy(visit, w, t) => u = w
          /\ ~t.shared /\ ~t.unmarked =>
                \A w \in Visitors : At(visit, w, "password", t) => t.uses = 0
          /\ t.uses > 1 => t.shared \/ t.unmarked
      BY DEF AccountsInv, ResetsFit, ResetFits
    <2>2. \A w \in Visitors \ {v} : /\ At(visit', w, "mark", g[t]) <=> At(visit, w, "mark", t)
                                    /\ At(visit', w, "password", g[t]) <=> At(visit, w, "password", t)
                                    /\ Busy(visit', w, g[t]) <=> Busy(visit, w, t)
      BY <1>5, <1>12 DEF At, Busy
    <2>3. /\ ~At(visit, v, "mark", t) /\ ~At(visit', v, "password", g[t])
          /\ Busy(visit', v, g[t]) <=> t.id = k
          /\ Busy(visit, v, t) <=> t.id = k
          /\ At(visit, v, "password", t) <=> t.id = k
          /\ At(visit', v, "mark", g[t]) <=> t.id = k
      BY <1>2, <1>5, <1>9, <1>12 DEF At, Busy
    <2>4. /\ g[t].used = t.used /\ g[t].shared = t.shared /\ g[t].unmarked = t.unmarked
          /\ t.id = k => g[t].uses = t.uses + 1
          /\ t.id # k => g[t].uses = t.uses
          /\ t.uses \in Nat
      BY <1>1, <1>4 DEF Tokens
    <2>5. ~g[t].shared =>
              \A u, w \in Visitors : Busy(visit', u, g[t]) /\ Busy(visit', w, g[t]) => u = w
      BY <2>1, <2>2, <2>3, <2>4
    <2>6. CASE t.id # k
      <3>1. g[t].uses > 0 => g[t].used \/ g[t].unmarked \/ \E w \in Visitors : At(visit', w, "mark", g[t])
        BY <2>1, <2>2, <2>3, <2>4, <2>6
      <3>2. ~g[t].shared /\ ~g[t].unmarked =>
                \A w \in Visitors : At(visit', w, "password", g[t]) => g[t].uses = 0
        BY <2>1, <2>2, <2>3, <2>4, <2>6
      <3>3. QED
        BY <2>1, <2>4, <2>5, <2>6, <3>1, <3>2 DEF ResetFits
    <2>7. CASE t.id = k
      <3>1. \E w \in Visitors : At(visit', w, "mark", g[t])
        BY <2>3, <2>7
      <3>2. ~t.shared => \A w \in Visitors : ~At(visit', w, "password", g[t])
        <4>1. \A w \in Visitors : At(visit, w, "password", t) => Busy(visit, w, t)
          BY DEF At, Busy
        <4>2. QED
          BY <2>1, <2>2, <2>3, <2>7, <4>1
      <3>3. ~t.shared /\ ~t.unmarked => t.uses = 0
        BY <2>1, <2>3, <2>7
      <3>4. g[t].uses > 1 => g[t].shared \/ g[t].unmarked
        BY <2>4, <2>7, <3>3
      <3>5. QED
        BY <2>4, <2>5, <3>1, <3>2, <3>4 DEF ResetFits
    <2>8. QED
      BY <2>6, <2>7
  <1>14. ResetsFit' /\ ResetAgainOnlyByOverlap'
    BY <1>3, <1>4, <1>13, ResetsChanged
  <1>15. visits' \in 0 .. MaxVisits /\ faults' \in 0 .. MaxFaults
    BY <1>3 DEF AccountsInv, AccountsTypeOK
  <1>16. QED
    BY <1>3, <1>4, <1>5, <1>8, <1>9, <1>10, <1>11, <1>14, <1>15, ResetInv DEF Written

\* Who leaves the mark behind has used the token, or left it unmarked.
LEMMA MarkInv ==
    ASSUME AccountsInv, NEW v \in Visitors, visit[v].at = "mark",
           NEW g \in [tokens -> Tokens], tokens' = {g[t] : t \in tokens},
           \A t \in tokens : /\ SameToken(t, g[t]) /\ g[t].uses = t.uses /\ g[t].shared = t.shared
                             /\ t.used => g[t].used
                             /\ t.unmarked => g[t].unmarked
                             /\ t.id = visit[v].token => g[t].used \/ g[t].unmarked,
           visit' = [visit EXCEPT ![v] = NoVisit],
           UNCHANGED <<tenants, furnished, plans, users, sessions, visits>>,
           faults' \in 0 .. MaxFaults
    PROVE  AccountsInv'
  <1>1. /\ visit \in [Visitors -> Visits] /\ tokens \subseteq Tokens
        /\ users \in [Emails -> Users \cup {NoUser}] /\ visits' \in 0 .. MaxVisits
    BY DEF AccountsInv, AccountsTypeOK
  <1>2. \A t \in tokens : g[t].id = t.id /\ g[t].user = t.user /\ g[t].after = t.after
    BY DEF SameToken
  <1>3. /\ NoVisit.after = {} /\ Written(NoVisit.at) = {} /\ NoVisit.wrote = {}
        /\ NoVisit.at \notin {"invalidate", "store", "password", "mark"}
    BY DEF NoVisit, Written
  <1>4. /\ visit'[v] = NoVisit
        /\ \A w \in Visitors \ {v} : visit'[w] = visit[w]
    BY <1>1
  <1>5. ASSUME NEW t \in tokens
        PROVE  ResetFits(g[t], visit')
    <2>1. /\ ResetFits(t, visit)
          /\ t.uses > 0 => t.used \/ t.unmarked \/ \E w \in Visitors : At(visit, w, "mark", t)
          /\ ~t.shared => \A u, w \in Visitors : Busy(visit, u, t) /\ Busy(visit, w, t) => u = w
          /\ ~t.shared /\ ~t.unmarked =>
                \A w \in Visitors : At(visit, w, "password", t) => t.uses = 0
          /\ t.uses > 1 => t.shared \/ t.unmarked
      BY DEF AccountsInv, ResetsFit, ResetFits
    <2>2. \A w \in Visitors \ {v} : /\ At(visit', w, "mark", g[t]) <=> At(visit, w, "mark", t)
                                    /\ At(visit', w, "password", g[t]) <=> At(visit, w, "password", t)
                                    /\ Busy(visit', w, g[t]) <=> Busy(visit, w, t)
      BY <1>2, <1>4 DEF At, Busy
    <2>3. /\ ~At(visit', v, "password", g[t]) /\ ~Busy(visit', v, g[t])
          /\ At(visit, v, "mark", t) => t.id = visit[v].token
      BY <1>3, <1>4 DEF At, Busy
    <2>4. /\ g[t].uses = t.uses /\ g[t].shared = t.shared
          /\ t.used => g[t].used
          /\ t.unmarked => g[t].unmarked
          /\ t.id = visit[v].token => g[t].used \/ g[t].unmarked
      OBVIOUS
    <2>5. g[t].uses > 0 => g[t].used \/ g[t].unmarked \/ \E w \in Visitors : At(visit', w, "mark", g[t])
      <3>1. CASE t.id = visit[v].token
        BY <2>4, <3>1
      <3>2. CASE t.id # visit[v].token
        BY <2>1, <2>2, <2>3, <2>4, <3>2
      <3>3. QED
        BY <3>1, <3>2
    <2>6. ~g[t].shared /\ ~g[t].unmarked =>
              \A w \in Visitors : At(visit', w, "password", g[t]) => g[t].uses = 0
      BY <2>1, <2>2, <2>3, <2>4
    <2>7. ~g[t].shared =>
              \A u, w \in Visitors : Busy(visit', u, g[t]) /\ Busy(visit', w, g[t]) => u = w
      BY <2>1, <2>2, <2>3, <2>4
    <2>8. QED
      BY <2>1, <2>4, <2>5, <2>6, <2>7 DEF ResetFits
  <1>6. ResetsFit' /\ ResetAgainOnlyByOverlap'
    BY <1>5, ResetsChanged
  <1>7. users' \in [Emails -> Users \cup {NoUser}] /\ users' = users
    BY <1>1
  <1>8. QED
    BY <1>1, <1>2, <1>3, <1>6, <1>7, NoOne, ResetInv

\* The token is used.
LEMMA MarkUsedInv ==
    ASSUME AccountsInv, NEW v \in Visitors, MarkUsed(v)
    PROVE  AccountsInv'
  <1> DEFINE k == visit[v].token
             m(t) == [t EXCEPT !.used = TRUE]
             g == [t \in tokens |-> IF t.id = k THEN m(t) ELSE t]
  <1>1. tokens \subseteq Tokens /\ faults \in 0 .. MaxFaults
    BY DEF AccountsInv, AccountsTypeOK
  <1>2. /\ tokens' = {g[t] : t \in tokens} /\ visit' = [visit EXCEPT ![v] = NoVisit]
        /\ visit[v].at = "mark"
        /\ UNCHANGED <<tenants, furnished, plans, users, sessions, visits, faults>>
    BY DEF MarkUsed, Answer
  <1>3. /\ g \in [tokens -> Tokens]
        /\ \A t \in tokens : /\ SameToken(t, g[t]) /\ g[t].uses = t.uses /\ g[t].shared = t.shared
                             /\ t.used => g[t].used
                             /\ t.unmarked => g[t].unmarked
                             /\ t.id = k => g[t].used \/ g[t].unmarked
    <2>1. \A t \in tokens : t \in Tokens /\ UsedNow(t, m(t))
      BY <1>1, Marking
    <2> HIDE DEF m
    <2>2. QED
      BY <2>1 DEF UsedNow, SameToken
  <1> HIDE DEF m, g
  <1>4. QED
    BY <1>1, <1>2, <1>3, MarkInv

\* The token stays good, and is known to.
LEMMA MarkFailsInv ==
    ASSUME AccountsInv, NEW v \in Visitors, MarkFails(v)
    PROVE  AccountsInv'
  <1> DEFINE k == visit[v].token
             m(t) == [t EXCEPT !.unmarked = TRUE]
             g == [t \in tokens |-> IF t.id = k THEN m(t) ELSE t]
  <1>1. tokens \subseteq Tokens /\ faults \in 0 .. MaxFaults
    BY DEF AccountsInv, AccountsTypeOK
  <1>2. /\ tokens' = {g[t] : t \in tokens} /\ visit' = [visit EXCEPT ![v] = NoVisit]
        /\ visit[v].at = "mark" /\ faults' \in 0 .. MaxFaults
        /\ UNCHANGED <<tenants, furnished, plans, users, sessions, visits>>
    BY <1>1, VisitBoundsAssumption DEF MarkFails, Answer
  <1>3. /\ g \in [tokens -> Tokens]
        /\ \A t \in tokens : /\ SameToken(t, g[t]) /\ g[t].uses = t.uses /\ g[t].shared = t.shared
                             /\ t.used => g[t].used
                             /\ t.unmarked => g[t].unmarked
                             /\ t.id = k => g[t].used \/ g[t].unmarked
    <2>1. \A t \in tokens : t \in Tokens /\ UnmarkedNow(t, m(t))
      BY <1>1, Marking
    <2> HIDE DEF m
    <2>2. QED
      BY <2>1 DEF UnmarkedNow, SameToken
  <1> HIDE DEF m, g
  <1>4. QED
    BY <1>1, <1>2, <1>3, MarkInv

-----------------------------------------------------------------------------
\* Every step keeps the invariant.
LEMMA NextAccounts == AccountsInv /\ [AccountsNext]_accountVars => AccountsInv'
  <1> SUFFICES ASSUME AccountsInv, [AccountsNext]_accountVars PROVE AccountsInv'
    OBVIOUS
  <1>1. ASSUME NEW v \in Visitors, NEW s \in Slugs, NEW e \in Emails, Register(v, s, e)
        PROVE  AccountsInv'
    BY <1>1, RegisterInv
  <1>2. ASSUME NEW v \in Visitors, NEW e \in Emails, Login(v, e)
        PROVE  AccountsInv'
    BY <1>2, SessionInv DEF Login
  <1>3. ASSUME NEW v \in Visitors, NEW e \in Emails, UpdateCashier(v, e)
        PROVE  AccountsInv'
    BY <1>3, UpdateCashierInv
  <1>4. ASSUME NEW v \in Visitors, NEW e \in Emails, RequestPasswordReset(v, e)
        PROVE  AccountsInv'
    BY <1>4, RequestResetInv
  <1>5. ASSUME NEW v \in Visitors, NEW e \in sessions, RefreshToken(v, e)
        PROVE  AccountsInv'
    <2>1. e \in Emails
      BY DEF AccountsInv, AccountsTypeOK
    <2>2. QED
      BY <1>5, <2>1, SessionInv DEF RefreshToken
  <1>6. ASSUME NEW v \in Visitors, NEW t \in tokens, ResetPassword(v, t)
        PROVE  AccountsInv'
    BY <1>6, ResetPasswordInv
  <1>7. ASSUME NEW v \in Visitors, AccountStep(v)
        PROVE  AccountsInv'
    BY <1>7, RegistrationInv, CommitRegistrationInv, EndInv, InvalidateInv, InvalidateFailsInv,
       StoreTokenInv, SetPasswordInv, MarkUsedInv, MarkFailsInv DEF AccountStep
  <1>8. ASSUME NEW t \in tokens, ExpireToken(t)
        PROVE  AccountsInv'
    BY <1>8, ExpireTokenInv
  <1>9. CASE UNCHANGED accountVars
    BY <1>9 DEF accountVars, AccountsInv, AccountsTypeOK, TokensCounted, TokenIds, Fits, UsersApart, Holds,
       AccountsConsistent, TenantsComplete, OnlyOverlappingTokensLive, ResetAgainOnlyByOverlap,
       ResetsFit, ResetFits, At, Busy
  <1>10. QED
    BY <1>1, <1>2, <1>3, <1>4, <1>5, <1>6, <1>7, <1>8, <1>9 DEF AccountsNext

\* It holds always.
LEMMA AccountsInvariant == AccountsSpec => []AccountsInv
  BY InitAccounts, NextAccounts, PTL DEF AccountsSpec

\* Every variable of accounts keeps its type: no two tokens have one number, and
\* no session is of a user who was never stored (auth_service.go:133-153).
THEOREM AccountsTypeCorrect == AccountsSpec => []AccountsTypeOK
  <1>1. AccountsInv => AccountsTypeOK
    BY DEF AccountsInv
  <1>2. QED
    BY <1>1, AccountsInvariant, PTL

\* A tenant is there whole or not at all; and only requests that overlap or
\* statements that fail leave two good tokens of one user, or let one token set
\* two passwords.  That a token works once is not so: resets that overlap both
\* set the password (auth_service.go:31-346).
THEOREM AccountsStayConsistent == AccountsSpec => []AccountsConsistent
  <1>1. AccountsInv => AccountsConsistent
    BY DEF AccountsInv
  <1>2. QED
    BY <1>1, AccountsInvariant, PTL

-----------------------------------------------------------------------------
(***************************************************************************)
(* The limiters.                                                           *)
(***************************************************************************)
\* What passed is finite, and what memory still holds of a client covers all
\* that passed in the window, and is within the limit.
Covered ==
    \A l \in Limiters, k \in Clients :
        /\ IsFiniteSet(passed[l][k])
        /\ IsFiniteSet(counted[l][k])
        /\ IsFiniteSet(attempts[l][k])
        /\ Cardinality(attempts[l][k]) <= Max[l]
        /\ InWindow(passed[l][k]) \subseteq attempts[l][k]

LimiterInv == LimiterTypeOK /\ Covered

-----------------------------------------------------------------------------
\* A subset of a finite set is finite and no larger.
LEMMA SmallerIsFewer ==
    ASSUME NEW S, IsFiniteSet(S), NEW T \in SUBSET S
    PROVE  IsFiniteSet(T) /\ Cardinality(T) \in Nat /\ Cardinality(T) <= Cardinality(S)
  BY FS_Subset, FS_CardinalityType

\* One more element makes a set larger by at most one.
LEMMA OneMore ==
    ASSUME NEW S, IsFiniteSet(S), NEW x
    PROVE  /\ IsFiniteSet(S \cup {x})
           /\ Cardinality(S \cup {x}) <= Cardinality(S) + 1
  <1>1. Cardinality(S) \in Nat
    BY FS_CardinalityType
  <1>2. /\ IsFiniteSet(S \cup {x})
        /\ Cardinality(S \cup {x}) = IF x \in S THEN Cardinality(S) ELSE Cardinality(S) + 1
    BY FS_AddElement
  <1>3. QED
    BY <1>1, <1>2

\* The attempt that is recorded next is one.
LEMMA NewIsAttempt ==
    ASSUME NEW S, IsFiniteSet(S), clock \in Nat
    PROVE  New(S) \in Attempts
  BY FS_CardinalityType DEF New, Attempts

\* Nothing has passed at the start.
LEMMA InitCovered == LimiterInit => LimiterInv
  <1>1. IsFiniteSet({}) /\ Cardinality({}) = 0
    BY FS_EmptySet
  <1> SUFFICES ASSUME LimiterInit PROVE LimiterInv
    OBVIOUS
  <1>2. LimiterTypeOK
    BY DEF LimiterInit, LimiterTypeOK, NoAttempts
  <1>3. Covered
    BY <1>1, MaxAssumption DEF LimiterInit, Covered, NoAttempts, InWindow
  <1>4. QED
    BY <1>2, <1>3 DEF LimiterInv

-----------------------------------------------------------------------------
\* An attempt is let through if, after the cutoff, there is room.
LEMMA AllowCovered ==
    ASSUME LimiterInv, NEW l \in Limiters, NEW k \in Clients, AllowMemory(l, k)
    PROVE  LimiterInv'
  <1> DEFINE kept == Recent(attempts[l][k])
             new == New(passed[l][k])
  <1> USE MaxAssumption, WindowAssumption
  <1>1. /\ kept \subseteq attempts[l][k] /\ kept \subseteq passed[l][k]
        /\ IsFiniteSet(kept) /\ Cardinality(kept) \in Nat
        /\ Cardinality(kept) <= Max[l]
    <2>1. kept \subseteq attempts[l][k]
      BY DEF Recent
    <2>2. IsFiniteSet(kept) /\ Cardinality(kept) \in Nat
            /\ Cardinality(kept) <= Cardinality(attempts[l][k])
      BY <2>1, SmallerIsFewer DEF LimiterInv, Covered
    <2>3. Cardinality(attempts[l][k]) \in Nat
      BY FS_CardinalityType DEF LimiterInv, Covered
    <2>4. QED
      BY <2>1, <2>2, <2>3 DEF LimiterInv, LimiterTypeOK, Covered
  <1>2. InWindow(passed[l][k]) \subseteq kept
    BY DEF LimiterInv, Covered, InWindow, Recent
  <1>3. CASE Cardinality(kept) >= Max[l]
    <2>1. attempts' = [attempts EXCEPT ![l][k] = kept]
            /\ UNCHANGED <<passed, backend, clock, counter, expiry, opening, counted, outages>>
      BY <1>3 DEF AllowMemory
    <2>2. LimiterTypeOK'
      BY <1>1, <2>1 DEF LimiterInv, LimiterTypeOK
    <2>3. Covered'
      BY <1>1, <1>2, <2>1 DEF LimiterInv, LimiterTypeOK, Covered, InWindow
    <2>4. QED
      BY <2>2, <2>3 DEF LimiterInv
  <1>4. CASE ~(Cardinality(kept) >= Max[l])
    <2>1. /\ attempts' = [attempts EXCEPT ![l][k] = kept \cup {new}]
          /\ passed' = [passed EXCEPT ![l][k] = @ \cup {new}]
          /\ UNCHANGED <<backend, clock, counter, expiry, opening, counted, outages>>
      BY <1>4 DEF AllowMemory
    <2>2. new \in Attempts
      BY NewIsAttempt DEF LimiterInv, LimiterTypeOK, Covered
    <2>3. LimiterTypeOK'
      BY <1>1, <2>1, <2>2 DEF LimiterInv, LimiterTypeOK
    <2>4. IsFiniteSet(kept \cup {new}) /\ Cardinality(kept \cup {new}) <= Cardinality(kept) + 1
      BY <1>1, OneMore
    <2>5. IsFiniteSet(passed[l][k] \cup {new})
      BY OneMore DEF LimiterInv, Covered
    <2>6. Cardinality(kept \cup {new}) <= Max[l]
      <3>1. Cardinality(kept \cup {new}) \in Nat
        BY <2>4, FS_CardinalityType
      <3>2. QED
        BY <1>1, <1>4, <2>4, <3>1
    <2>7. InWindow(passed[l][k] \cup {new}) \subseteq kept \cup {new}
      BY <1>2 DEF InWindow
    <2>8. Covered'
      BY <2>1, <2>4, <2>5, <2>6, <2>7 DEF LimiterInv, LimiterTypeOK, Covered, InWindow
    <2>9. QED
      BY <2>3, <2>8 DEF LimiterInv
  <1>5. QED
    BY <1>3, <1>4

\* A cleanup drops only what is outside of the window.
LEMMA CleanupCovered ==
    ASSUME LimiterInv, NEW l \in Limiters, Cleanup(l)
    PROVE  LimiterInv'
  <1>1. \A k \in Clients :
           /\ Recent(attempts[l][k]) \subseteq attempts[l][k]
           /\ IsFiniteSet(Recent(attempts[l][k]))
           /\ Cardinality(Recent(attempts[l][k])) <= Max[l]
    <2> TAKE k \in Clients
    <2>1. Recent(attempts[l][k]) \subseteq attempts[l][k]
      BY DEF Recent
    <2>2. IsFiniteSet(Recent(attempts[l][k])) /\ Cardinality(Recent(attempts[l][k])) \in Nat
            /\ Cardinality(Recent(attempts[l][k])) <= Cardinality(attempts[l][k])
      BY <2>1, SmallerIsFewer DEF LimiterInv, Covered
    <2>3. Cardinality(attempts[l][k]) \in Nat
      BY FS_CardinalityType DEF LimiterInv, Covered
    <2>4. QED
      BY <2>1, <2>2, <2>3, MaxAssumption DEF LimiterInv, Covered
  <1>2. \A k \in Clients : InWindow(passed[l][k]) \subseteq Recent(attempts[l][k])
    BY DEF LimiterInv, Covered, InWindow, Recent
  <1>3. LimiterTypeOK'
    BY <1>1 DEF LimiterInv, LimiterTypeOK, Cleanup
  <1>4. Covered'
    BY <1>1, <1>2 DEF LimiterInv, LimiterTypeOK, Covered, InWindow, Cleanup
  <1>5. QED
    BY <1>3, <1>4 DEF LimiterInv

\* Memory takes no part in what Redis counts.
LEMMA IncrCovered ==
    ASSUME LimiterInv, NEW l \in Limiters, NEW k \in Clients, Incr(l, k)
    PROVE  LimiterInv'
  <1> DEFINE new == New(counted[l][k])
  <1>1. new \in Attempts
    BY NewIsAttempt DEF LimiterInv, LimiterTypeOK, Covered
  <1>2. \/ counted' = counted
        \/ counted' = [counted EXCEPT ![l][k] = @ \cup {new}]
    BY DEF Incr
  <1>3. IsFiniteSet(counted[l][k] \cup {new})
    BY OneMore DEF LimiterInv, Covered
  <1>4. LimiterTypeOK'
    BY <1>1, <1>2 DEF LimiterInv, LimiterTypeOK, Incr
  <1>5. Covered'
    BY <1>2, <1>3 DEF LimiterInv, LimiterTypeOK, Covered, InWindow, Incr
  <1>6. QED
    BY <1>4, <1>5 DEF LimiterInv

\* Time only moves attempts out of the window.
LEMMA TickCovered ==
    ASSUME LimiterInv, Tick
    PROVE  LimiterInv'
  <1>1. LimiterTypeOK'
    BY DEF LimiterInv, LimiterTypeOK, Tick
  <1>2. \A l \in Limiters, k \in Clients : InWindow(passed[l][k])' \subseteq InWindow(passed[l][k])
    BY WindowAssumption DEF LimiterInv, LimiterTypeOK, Tick, InWindow, Attempts
  <1>3. Covered'
    BY <1>2 DEF LimiterInv, Covered, Tick
  <1>4. QED
    BY <1>1, <1>3 DEF LimiterInv

\* What is kept of a client covers the window as long as only the counters change.
LEMMA CountersAside ==
    ASSUME LimiterInv, LimiterTypeOK', UNCHANGED <<clock, attempts, passed, counted>>
    PROVE  LimiterInv'
  <1>1. Covered'
    BY DEF LimiterInv, Covered, InWindow
  <1>2. QED
    BY <1>1 DEF LimiterInv

\* Every step keeps the invariant.
LEMMA NextCovered == LimiterInv /\ [LimiterNext]_limiterVars => LimiterInv'
  <1> SUFFICES ASSUME LimiterInv, [LimiterNext]_limiterVars PROVE LimiterInv'
    OBVIOUS
  <1>1. ASSUME NEW l \in Limiters, NEW k \in Clients, AllowMemory(l, k) PROVE LimiterInv'
    BY <1>1, AllowCovered
  <1>2. ASSUME NEW l \in Limiters, NEW k \in Clients, Incr(l, k) PROVE LimiterInv'
    BY <1>2, IncrCovered
  <1>3. ASSUME NEW l \in Limiters, Cleanup(l) PROVE LimiterInv'
    BY <1>3, CleanupCovered
  <1>4. ASSUME NEW k \in Clients, Expire(k) \/ ExpireFails(k) PROVE LimiterInv'
    <2>1. UNCHANGED <<clock, attempts, passed, counted>>
      BY <1>4 DEF Expire, ExpireFails
    <2>2. UNCHANGED <<backend, counter>> /\ outages' \in Nat /\ opening' \subseteq Clients
      BY <1>4 DEF LimiterInv, LimiterTypeOK, Expire, ExpireFails
    <2>3. expiry' \in [Clients -> Nat \cup {Never}]
      <3>1. expiry \in [Clients -> Nat \cup {Never}] /\ clock + Window \in Nat
        BY WindowAssumption DEF LimiterInv, LimiterTypeOK
      <3>2. expiry' = expiry \/ expiry' = [expiry EXCEPT ![k] = clock + Window]
        BY <1>4 DEF Expire, ExpireFails
      <3>3. QED
        BY <3>1, <3>2
    <2>4. LimiterTypeOK'
      BY <2>1, <2>2, <2>3 DEF LimiterInv, LimiterTypeOK
    <2>5. QED
      BY <2>1, <2>4, CountersAside
  <1>5. ASSUME NEW l \in Limiters, NEW k \in Clients, IncrFails(l, k) PROVE LimiterInv'
    <2>1. UNCHANGED <<backend, clock, attempts, expiry, opening, passed, counted>>
      BY <1>5 DEF IncrFails
    <2>2. counter' \in [Clients -> Nat] /\ outages' \in Nat
      BY <1>5 DEF LimiterInv, LimiterTypeOK, IncrFails
    <2>3. LimiterTypeOK'
      BY <2>1, <2>2 DEF LimiterInv, LimiterTypeOK
    <2>4. QED
      BY <2>1, <2>3, CountersAside
  <1>6. CASE Tick
    BY <1>6, TickCovered
  <1>7. CASE Restart
    <2>1. IsFiniteSet({}) /\ Cardinality({}) = 0
      BY FS_EmptySet
    <2>2. LimiterTypeOK'
      BY <1>7 DEF LimiterInv, LimiterTypeOK, Restart, NoAttempts
    <2>3. Covered'
      BY <1>7, <2>1, MaxAssumption DEF LimiterInv, Covered, InWindow, Restart, NoAttempts
    <2>4. QED
      BY <2>2, <2>3 DEF LimiterInv
  <1>8. CASE UNCHANGED limiterVars
    <2>1. LimiterTypeOK'
      BY <1>8 DEF LimiterInv, LimiterTypeOK, limiterVars
    <2>2. QED
      BY <1>8, <2>1, CountersAside DEF limiterVars
  <1>9. QED
    BY <1>1, <1>2, <1>3, <1>4, <1>5, <1>6, <1>7, <1>8 DEF LimiterNext

\* It holds always.
LEMMA LimiterInvariant == LimiterSpec => []LimiterInv
  BY InitCovered, NextCovered, PTL DEF LimiterSpec

-----------------------------------------------------------------------------
\* The variables of the limiters keep their types, and memory holds nothing that
\* it did not let through (ratelimit.go:26-91).
THEOREM LimiterTypeCorrect == LimiterSpec => []LimiterTypeOK
  <1>1. LimiterInv => LimiterTypeOK
    BY DEF LimiterInv
  <1>2. QED
    BY <1>1, LimiterInvariant, PTL

\* A limiter in memory lets no client pass more than Max times in any window,
\* for every limit and window (ratelimit.go:49-91).
THEOREM MemoryBoundHolds == LimiterSpec => []MemoryBound
  <1>1. LimiterInv => MemoryBound
    <2> SUFFICES ASSUME LimiterInv, NEW l \in Limiters, NEW k \in Clients
                 PROVE  Cardinality(InWindow(passed[l][k])) <= Max[l]
      BY DEF MemoryBound
    <2>1. Cardinality(attempts[l][k]) \in Nat
      BY FS_CardinalityType DEF LimiterInv, Covered
    <2>2. /\ Cardinality(InWindow(passed[l][k])) \in Nat
          /\ Cardinality(InWindow(passed[l][k])) <= Cardinality(attempts[l][k])
      BY SmallerIsFewer DEF LimiterInv, Covered
    <2>3. QED
      BY <2>1, <2>2, MaxAssumption DEF LimiterInv, Covered
  <1>2. QED
    BY <1>1, LimiterInvariant, PTL

-----------------------------------------------------------------------------
(***************************************************************************)
(* Redis.  A period of a counter begins with the attempt that counts to 1  *)
(* and ends when the counter is dropped, a window after EXPIRE at the      *)
(* earliest.                                                               *)
(***************************************************************************)
Current(S, b) == {a \in S : a.t >= b}
Before(S, b) == {a \in S : a.t < b /\ a.t > b - Window}

\* The period began at b: it has counted no more than the limit, and so had the
\* one before it in the window that ended at b.
Period(l, k, b) ==
    /\ b <= clock
    /\ Cardinality(Current(counted[l][k], b)) <= counter[k]
    /\ Cardinality(Current(counted[l][k], b)) <= Max[l]
    /\ Cardinality(Before(counted[l][k], b)) <= Max[l]
    /\ expiry[k] # Never => b + Window <= expiry[k]

\* Without a counter, the last period is over.
Over(l, k) ==
    /\ \A a \in counted[l][k] : a.t < clock
    /\ Cardinality(InWindow(counted[l][k])) <= Max[l]

PeriodsOK ==
    \A l \in Limiters, k \in Clients :
        IF counter[k] = 0 THEN Over(l, k) ELSE \E b \in Nat : Period(l, k, b)

OpeningsOK ==
    \A k \in Clients :
        /\ k \in opening => counter[k] > 0 /\ expiry[k] = Never
        /\ counter[k] = 0 => expiry[k] = Never

PastOnly ==
    \A l \in Limiters, k \in Clients : \A a \in counted[l][k] : a.t <= clock

RedisInv == LimiterInv /\ PastOnly /\ PeriodsOK /\ OpeningsOK /\ OpenCountersExpire

\* What Redis has counted can be counted.
LEMMA CountedFinite ==
    ASSUME LimiterInv, NEW l \in Limiters, NEW k \in Clients, NEW T \in SUBSET counted[l][k]
    PROVE  IsFiniteSet(T) /\ Cardinality(T) \in Nat
  BY SmallerIsFewer DEF LimiterInv, Covered

\* Without a counter there is no period.
LEMMA InitRedis == LimiterInit => RedisInv
  <1> SUFFICES ASSUME LimiterInit PROVE RedisInv
    OBVIOUS
  <1>1. PeriodsOK
    BY FS_EmptySet, MaxAssumption DEF LimiterInit, PeriodsOK, Over, NoAttempts, InWindow
  <1>2. PastOnly /\ OpeningsOK /\ OpenCountersExpire
    BY DEF LimiterInit, PastOnly, NoAttempts, OpeningsOK, OpenCountersExpire
  <1>3. QED
    BY <1>1, <1>2, InitCovered DEF RedisInv

\* Periods end by time alone.
LEMMA PeriodsKept ==
    ASSUME PeriodsOK, UNCHANGED <<clock, counter, counted>>,
           \A k \in Clients : \/ expiry'[k] = expiry[k]
                              \/ expiry'[k] = clock + Window,
           clock \in Nat
    PROVE  PeriodsOK'
  <1>1. ASSUME NEW l \in Limiters, NEW k \in Clients, NEW b \in Nat, Period(l, k, b)
        PROVE  Period(l, k, b)'
    BY <1>1, WindowAssumption DEF Period, Current, Before
  <1>2. ASSUME NEW l \in Limiters, NEW k \in Clients
        PROVE  Over(l, k)' = Over(l, k)
    BY DEF Over, InWindow
  <1>3. QED
    BY <1>1, <1>2 DEF PeriodsOK

\* A count that opens a period, or goes on with one, without an attempt of this
\* limiter.
LEMMA PeriodCounted ==
    ASSUME RedisInv, NEW g \in Limiters, NEW k \in Clients,
           counted'[g][k] = counted[g][k], counter'[k] = counter[k] + 1,
           UNCHANGED <<clock, expiry>>
    PROVE  \E b \in Nat : Period(g, k, b)'
  <1>1. /\ Max[g] \in Nat /\ clock \in Nat /\ counter[k] \in Nat
        /\ counted \in [Limiters -> [Clients -> SUBSET Attempts]]
    BY MaxAssumption DEF RedisInv, LimiterInv, LimiterTypeOK
  <1>2. CASE counter[k] = 0
    <2>1. Over(g, k) /\ expiry[k] = Never /\ counted[g][k] \subseteq Attempts
      BY <1>1, <1>2 DEF RedisInv, PeriodsOK, OpeningsOK
    <2>2. Current(counted[g][k], clock) = {} /\ Before(counted[g][k], clock) = InWindow(counted[g][k])
      BY <1>1, <2>1 DEF Over, Current, Before, InWindow, Attempts
    <2>3. ASSUME NEW b \in Nat, b = clock PROVE Period(g, k, b)'
      <3>1. /\ Cardinality(Current(counted[g][k], b)) = 0
            /\ Cardinality(Before(counted[g][k], b)) <= Max[g]
        BY <2>1, <2>2, <2>3, FS_EmptySet DEF Over
      <3>2. b <= clock' /\ counter'[k] = 1 /\ expiry'[k] = Never
        BY <1>1, <1>2, <2>1, <2>3
      <3>3. /\ Cardinality(Current(counted'[g][k], b)) = 0
            /\ Cardinality(Before(counted'[g][k], b)) <= Max[g]
        BY <3>1
      <3>4. QED
        BY <1>1, <3>2, <3>3 DEF Period, Current, Before
    <2>4. QED
      BY <1>1, <2>3
  <1>3. CASE counter[k] # 0
    <2>1. PICK b \in Nat : Period(g, k, b)
      BY <1>3 DEF RedisInv, PeriodsOK
    <2>2. Cardinality(Current(counted[g][k], b)) \in Nat
      BY CountedFinite DEF RedisInv, Current
    <2>3. Period(g, k, b)'
      BY <1>1, <2>1, <2>2 DEF Period, Current, Before
    <2>4. QED
      BY <2>3
  <1>4. QED
    BY <1>2, <1>3

\* The first attempt of a period, and the others.
LEMMA IncrRedis ==
    ASSUME RedisInv, NEW l \in Limiters, NEW k \in Clients, Incr(l, k)
    PROVE  PeriodsOK' /\ OpeningsOK' /\ OpenCountersExpire'
  <1>1. /\ counter' = [counter EXCEPT ![k] = @ + 1]
        /\ opening' = IF counter[k] = 0 THEN opening \cup {k} ELSE opening
        /\ clock' = clock /\ expiry' = expiry /\ outages' = outages
        /\ counter \in [Clients -> Nat] /\ opening \subseteq Clients /\ clock \in Nat
        /\ counted \in [Limiters -> [Clients -> SUBSET Attempts]]
        /\ Max[l] \in Nat
    BY MaxAssumption DEF Incr, RedisInv, LimiterInv, LimiterTypeOK
  <1>2. /\ counter'[k] = counter[k] + 1 /\ counter'[k] > 0
        /\ \A j \in Clients \ {k} : counter'[j] = counter[j]
    BY <1>1
  <1>3. OpeningsOK' /\ OpenCountersExpire'
    BY <1>1, <1>2 DEF RedisInv, OpeningsOK, OpenCountersExpire
  <1> DEFINE S == counted[l][k]
             new == New(S)
             T == S \cup {new}
  <1>4. /\ counter[k] + 1 <= Max[l] => counted'[l][k] = T
        /\ ~(counter[k] + 1 <= Max[l]) => counted'[l][k] = S
        /\ \A g \in Limiters, j \in Clients : g # l \/ j # k => counted'[g][j] = counted[g][j]
    BY <1>1 DEF Incr
  <1>5. S \subseteq Attempts /\ new.t = clock
    BY <1>1 DEF New
  <1>6. \A b \in Nat : /\ IsFiniteSet(Current(S, b)) /\ Cardinality(Current(S, b)) \in Nat
                       /\ Cardinality(Before(S, b)) \in Nat
    BY CountedFinite DEF RedisInv, Current, Before
  <1>7. \A b \in Nat : b <= clock =>
           /\ Current(T, b) = Current(S, b) \cup {new}
           /\ Before(T, b) = Before(S, b)
    BY <1>1, <1>5 DEF Current, Before
  <1>8. \A b \in Nat : b <= clock =>
           /\ Cardinality(Current(T, b)) \in Nat
           /\ Cardinality(Current(T, b)) <= Cardinality(Current(S, b)) + 1
    BY <1>6, <1>7, OneMore, FS_CardinalityType
  <1>9. \E b \in Nat : Period(l, k, b)'
    <2> DEFINE Began(b) == /\ b <= clock
                           /\ Cardinality(Current(S, b)) <= counter[k]
                           /\ Cardinality(Current(S, b)) <= Max[l]
                           /\ Cardinality(Before(S, b)) <= Max[l]
                           /\ expiry[k] # Never => b + Window <= expiry[k]
    <2>1. \E b \in Nat : Began(b)
      <3>1. CASE counter[k] = 0
        <4>1. Over(l, k) /\ expiry[k] = Never
          BY <3>1 DEF RedisInv, PeriodsOK, OpeningsOK
        <4>2. Current(S, clock) = {} /\ Before(S, clock) = InWindow(S)
          BY <1>1, <1>5, <4>1 DEF Over, Current, Before, InWindow, Attempts
        <4>3. Began(clock)
          BY <1>1, <3>1, <4>1, <4>2, FS_EmptySet DEF Over
        <4>4. QED
          BY <1>1, <4>3
      <3>2. CASE counter[k] # 0
        BY <3>2 DEF RedisInv, PeriodsOK, Period
      <3>3. QED
        BY <3>1, <3>2
    <2>2. PICK b \in Nat : Began(b)
      BY <2>1
    <2> DEFINE c == Cardinality(Current(S, b))
               d == Cardinality(Current(T, b))
    <2>3. c \in Nat /\ d \in Nat /\ d <= c + 1 /\ c <= counter[k] /\ c <= Max[l]
      BY <1>6, <1>8, <2>2
    <2>4. CASE counter[k] + 1 <= Max[l]
      <3>1. counted'[l][k] = T /\ Before(T, b) = Before(S, b)
        BY <1>4, <1>7, <2>2, <2>4
      <3>2. d <= counter[k] + 1 /\ d <= Max[l]
        <4> HIDE DEF c, d
        <4>1. QED
          BY <1>1, <2>3, <2>4
      <3>3. QED
        BY <1>1, <1>2, <2>2, <3>1, <3>2 DEF Period, Current, Before
    <2>5. CASE ~(counter[k] + 1 <= Max[l])
      <3>1. counted'[l][k] = S
        BY <1>4, <2>5
      <3>2. c <= counter[k] + 1
        <4> HIDE DEF c, d
        <4>1. QED
          BY <1>1, <2>3
      <3>3. QED
        BY <1>1, <1>2, <2>2, <3>1, <3>2 DEF Period, Current, Before
    <2>6. QED
      BY <2>4, <2>5
  <1>10. ASSUME NEW g \in Limiters, NEW j \in Clients, j # k
         PROVE  IF counter'[j] = 0 THEN Over(g, j)' ELSE \E b \in Nat : Period(g, j, b)'
    BY <1>1, <1>2, <1>4, <1>10 DEF RedisInv, PeriodsOK, Over, Period, Current, Before, InWindow
  <1>11. ASSUME NEW g \in Limiters, g # l
         PROVE  \E b \in Nat : Period(g, k, b)'
    BY <1>1, <1>2, <1>4, <1>11, PeriodCounted
  <1>12. QED
    BY <1>2, <1>3, <1>9, <1>10, <1>11 DEF PeriodsOK

\* An INCR whose answer is lost counts an attempt that no limiter has counted.
LEMMA LostIncrRedis ==
    ASSUME RedisInv, NEW l \in Limiters, NEW k \in Clients, IncrFails(l, k),
           counter' = [counter EXCEPT ![k] = @ + 1]
    PROVE  PeriodsOK' /\ OpeningsOK' /\ OpenCountersExpire'
  <1>1. /\ UNCHANGED <<clock, expiry, opening, counted>>
        /\ outages' = outages + 1 /\ outages \in Nat
        /\ counter \in [Clients -> Nat]
    BY DEF IncrFails, RedisInv, LimiterInv, LimiterTypeOK
  <1>2. /\ counter'[k] = counter[k] + 1 /\ counter'[k] # 0 /\ counter'[k] > 0
        /\ \A j \in Clients \ {k} : counter'[j] = counter[j]
    BY <1>1
  <1>3. OpeningsOK' /\ OpenCountersExpire'
    BY <1>1, <1>2 DEF RedisInv, OpeningsOK, OpenCountersExpire
  <1>4. ASSUME NEW g \in Limiters PROVE \E b \in Nat : Period(g, k, b)'
    BY <1>1, <1>2, PeriodCounted
  <1>5. ASSUME NEW g \in Limiters, NEW j \in Clients, j # k
        PROVE  IF counter'[j] = 0 THEN Over(g, j)' ELSE \E b \in Nat : Period(g, j, b)'
    BY <1>1, <1>2, <1>5 DEF RedisInv, PeriodsOK, Over, Period, Current, Before, InWindow
  <1>6. QED
    BY <1>2, <1>3, <1>4, <1>5 DEF PeriodsOK

\* A counter is dropped when the period before its own is out of the window.
LEMMA TickRedis ==
    ASSUME RedisInv, Tick
    PROVE  PeriodsOK' /\ OpeningsOK' /\ OpenCountersExpire'
  <1> USE WindowAssumption
  <1>1. /\ clock' = clock + 1 /\ clock \in Nat
        /\ counted' = counted /\ opening' = opening /\ outages' = outages
        /\ counted \in [Limiters -> [Clients -> SUBSET Attempts]]
        /\ counter \in [Clients -> Nat] /\ expiry \in [Clients -> Nat \cup {Never}]
    BY DEF Tick, RedisInv, LimiterInv, LimiterTypeOK
  <1>2. ASSUME NEW k \in Clients, expiry[k] # Never, expiry[k] <= clock + 1
        PROVE  counter'[k] = 0 /\ expiry'[k] = Never
    BY <1>2 DEF Tick
  <1>3. ASSUME NEW k \in Clients, ~(expiry[k] # Never /\ expiry[k] <= clock + 1)
        PROVE  counter'[k] = counter[k] /\ expiry'[k] = expiry[k]
    BY <1>3 DEF Tick
  <1>4. OpeningsOK' /\ OpenCountersExpire'
    BY <1>1, <1>2, <1>3 DEF RedisInv, OpeningsOK, OpenCountersExpire
  <1>5. ASSUME NEW l \in Limiters, NEW k \in Clients
        PROVE  IF counter'[k] = 0 THEN Over(l, k)' ELSE \E b \in Nat : Period(l, k, b)'
    <2> DEFINE S == counted[l][k]
               w == {a \in S : a.t > clock + 1 - Window}
    <2>1. S \subseteq Attempts /\ Max[l] \in Nat
      BY <1>1, MaxAssumption
    <2>2. CASE counter[k] = 0
      <3>1. Over(l, k) /\ counter'[k] = 0
        BY <1>3, <2>2 DEF RedisInv, PeriodsOK, OpeningsOK
      <3>2. w \subseteq InWindow(S)
        BY <1>1, <2>1 DEF InWindow, Attempts
      <3>3. Cardinality(w) <= Cardinality(InWindow(S)) /\ Cardinality(w) \in Nat
        <4>1. IsFiniteSet(InWindow(S))
          BY CountedFinite DEF RedisInv, InWindow
        <4>2. QED
          BY <3>2, <4>1, SmallerIsFewer
      <3>4. Cardinality(InWindow(S)) \in Nat
        BY CountedFinite DEF RedisInv, InWindow
      <3>5. Over(l, k)'
        <4>1. \A a \in S : a.t < clock + 1
          BY <1>1, <2>1, <3>1 DEF Over, Attempts
        <4>2. Cardinality(w) <= Max[l]
          BY <2>1, <3>1, <3>3, <3>4 DEF Over
        <4>3. QED
          BY <1>1, <4>1, <4>2 DEF Over, InWindow
      <3>6. QED
        BY <3>1, <3>5
    <2>3. CASE counter[k] # 0
      <3>1. PICK b \in Nat : Period(l, k, b)
        BY <2>3 DEF RedisInv, PeriodsOK
      <3>2. CASE expiry[k] # Never /\ expiry[k] <= clock + 1
        <4>1. counter'[k] = 0
          BY <1>2, <3>2
        <4>2. expiry[k] \in Nat /\ b + Window <= clock + 1
          BY <1>1, <3>1, <3>2 DEF Period
        <4>3. w \subseteq Current(S, b)
          BY <1>1, <2>1, <4>2 DEF Current, Attempts
        <4>4. IsFiniteSet(Current(S, b)) /\ Cardinality(Current(S, b)) \in Nat
          BY CountedFinite DEF RedisInv, Current
        <4>5. Cardinality(w) <= Cardinality(Current(S, b)) /\ Cardinality(w) \in Nat
          BY <4>3, <4>4, SmallerIsFewer
        <4>6. Cardinality(w) <= Max[l]
          BY <2>1, <3>1, <4>4, <4>5 DEF Period
        <4>7. \A a \in S : a.t < clock + 1
          BY <1>1, <2>1 DEF RedisInv, PastOnly, Attempts
        <4>8. QED
          BY <1>1, <4>1, <4>6, <4>7 DEF Over, InWindow
      <3>3. CASE ~(expiry[k] # Never /\ expiry[k] <= clock + 1)
        <4>1. counter'[k] = counter[k] /\ expiry'[k] = expiry[k]
          BY <1>3, <3>3
        <4>2. Period(l, k, b)'
          BY <1>1, <3>1, <4>1 DEF Period, Current, Before
        <4>3. QED
          BY <2>3, <4>1, <4>2
      <3>4. QED
        BY <3>2, <3>3
    <2>4. QED
      BY <2>2, <2>3
  <1>6. QED
    BY <1>4, <1>5 DEF PeriodsOK

\* Every step keeps the invariant of Redis.
LEMMA NextRedis == RedisInv /\ [LimiterNext]_limiterVars => RedisInv'
  <1> SUFFICES ASSUME RedisInv, [LimiterNext]_limiterVars PROVE RedisInv'
    OBVIOUS
  <1>1. LimiterInv'
    BY NextCovered DEF RedisInv
  <1>2. /\ clock \in Nat /\ outages \in Nat /\ opening \subseteq Clients
        /\ expiry \in [Clients -> Nat \cup {Never}]
        /\ counted \in [Limiters -> [Clients -> SUBSET Attempts]]
    BY DEF RedisInv, LimiterInv, LimiterTypeOK
  <1>3. ASSUME UNCHANGED <<clock, counter, expiry, counted>>, outages' \in Nat, outages' >= outages,
               \/ opening' = opening
               \/ opening' \subseteq opening /\ outages' > outages
        PROVE  PastOnly' /\ PeriodsOK' /\ OpeningsOK' /\ OpenCountersExpire'
    <2>1. PeriodsOK'
      BY <1>2, <1>3, PeriodsKept DEF RedisInv
    <2>2. PastOnly' /\ OpeningsOK'
      BY <1>3 DEF RedisInv, PastOnly, OpeningsOK
    <2>3. OpenCountersExpire'
      BY <1>2, <1>3 DEF RedisInv, OpenCountersExpire
    <2>4. QED
      BY <2>1, <2>2, <2>3
  <1>4. ASSUME NEW l \in Limiters, NEW k \in Clients, AllowMemory(l, k)
        PROVE  RedisInv'
    <2>1. UNCHANGED <<clock, counter, expiry, counted, opening, outages>>
      BY <1>4 DEF AllowMemory
    <2>2. QED
      BY <1>1, <1>2, <1>3, <2>1 DEF RedisInv
  <1>5. ASSUME NEW l \in Limiters, NEW k \in Clients, Incr(l, k) PROVE RedisInv'
    <2>1. PastOnly'
      BY <1>2, <1>5 DEF Incr, RedisInv, PastOnly, New
    <2>2. QED
      BY <1>1, <1>5, <2>1, IncrRedis DEF RedisInv
  <1>6. ASSUME NEW k \in Clients, Expire(k) PROVE RedisInv'
    <2>1. /\ UNCHANGED <<clock, counter, counted, outages>>
          /\ opening' = opening \ {k} /\ k \in opening
          /\ expiry'[k] = clock + Window
          /\ \A j \in Clients \ {k} : expiry'[j] = expiry[j]
      BY <1>2, <1>6 DEF Expire
    <2>2. PeriodsOK'
      BY <1>2, <2>1, PeriodsKept DEF RedisInv
    <2>3. PastOnly' /\ OpeningsOK' /\ OpenCountersExpire'
      BY <1>2, <2>1, WindowAssumption DEF RedisInv, PastOnly, OpeningsOK, OpenCountersExpire, Never
    <2>4. QED
      BY <1>1, <2>2, <2>3 DEF RedisInv
  <1>7. ASSUME NEW k \in Clients, ExpireFails(k) PROVE RedisInv'
    <2>1. /\ UNCHANGED <<clock, counter, expiry, counted>>
          /\ outages' = outages + 1
          /\ opening' \subseteq opening
      BY <1>7 DEF ExpireFails
    <2>2. QED
      BY <1>1, <1>2, <1>3, <2>1 DEF RedisInv
  <1>8. CASE Tick
    <2>1. PastOnly'
      BY <1>2, <1>8 DEF Tick, RedisInv, PastOnly, Attempts
    <2>2. QED
      BY <1>1, <1>8, <2>1, TickRedis DEF RedisInv
  <1>9. CASE UNCHANGED limiterVars
    BY <1>1, <1>2, <1>3, <1>9 DEF RedisInv, limiterVars
  <1>10. CASE Restart \/ \E l \in Limiters : Cleanup(l)
    <2>1. /\ UNCHANGED <<clock, counter, expiry, counted>>
          /\ outages' \in Nat /\ outages' >= outages
          /\ \/ opening' = opening
             \/ opening' \subseteq opening /\ outages' > outages
      BY <1>2, <1>10 DEF Restart, Cleanup
    <2>2. QED
      BY <1>1, <1>3, <2>1 DEF RedisInv
  <1>11. ASSUME NEW l \in Limiters, NEW k \in Clients, IncrFails(l, k) PROVE RedisInv'
    <2>1. UNCHANGED <<clock, expiry, counted, opening>> /\ outages' = outages + 1
      BY <1>11 DEF IncrFails
    <2>2. CASE UNCHANGED counter
      <3>1. PastOnly' /\ PeriodsOK' /\ OpeningsOK' /\ OpenCountersExpire'
        BY <1>2, <1>3, <2>1, <2>2
      <3>2. QED
        BY <1>1, <3>1 DEF RedisInv
    <2>3. CASE counter' = [counter EXCEPT ![k] = @ + 1]
      <3>1. PastOnly'
        BY <2>1 DEF RedisInv, PastOnly
      <3>2. QED
        BY <1>1, <1>11, <2>3, <3>1, LostIncrRedis DEF RedisInv
    <2>4. QED
      BY <1>11, <2>2, <2>3 DEF IncrFails
  <1>12. QED
    BY <1>4, <1>5, <1>6, <1>7, <1>8, <1>9, <1>10, <1>11 DEF LimiterNext

\* With Redis no more than twice the limit pass in a window, at the end of one
\* counter and at the beginning of the next, and a counter that will not expire
\* is still being opened or was cut off, whatever commands and restarts come
\* between INCR and EXPIRE (ratelimit.go:109-130).
THEOREM RedisWindowsHold == LimiterSpec => []RedisWindows
  <1>1. RedisInv => RedisWindows
    <2> SUFFICES ASSUME RedisInv PROVE RedisBound
      BY DEF RedisWindows, RedisInv
    <2> SUFFICES ASSUME NEW l \in Limiters, NEW k \in Clients
                 PROVE  Cardinality(InWindow(counted[l][k])) <= 2 * Max[l]
      BY DEF RedisBound
    <2> DEFINE S == counted[l][k]
               w == Cardinality(InWindow(S))
    <2>1. Max[l] \in Nat /\ w \in Nat
      BY MaxAssumption, CountedFinite DEF RedisInv, InWindow
    <2>2. CASE counter[k] = 0
      <3>1. w <= Max[l]
        BY <2>2 DEF RedisInv, PeriodsOK, Over
      <3>2. QED
        BY <2>1, <3>1
    <2>3. CASE counter[k] # 0
      <3>1. PICK b \in Nat : Period(l, k, b)
        BY <2>3 DEF RedisInv, PeriodsOK
      <3> DEFINE C == Current(S, b)
                 B == Before(S, b)
      <3>2. /\ IsFiniteSet(C) /\ IsFiniteSet(B)
            /\ Cardinality(C) \in Nat /\ Cardinality(B) \in Nat
        BY CountedFinite DEF RedisInv, Current, Before
      <3>3. clock \in Nat /\ \A a \in S : a.t \in Nat
        BY DEF RedisInv, LimiterInv, LimiterTypeOK, Attempts
      <3>4. b <= clock
        BY <3>1 DEF Period
      <3>5. InWindow(S) \subseteq C \cup B
        BY <3>3, <3>4, WindowAssumption DEF InWindow, Current, Before
      <3>6. IsFiniteSet(C \cup B) /\ Cardinality(C \cup B) = Cardinality(C) + Cardinality(B)
        <4>1. C \cap B = {}
          BY <3>3 DEF Current, Before
        <4> HIDE DEF C, B
        <4>2. /\ IsFiniteSet(C \cup B)
              /\ Cardinality(C \cup B) = Cardinality(C) + Cardinality(B) - Cardinality({})
          BY <3>2, <4>1, FS_Union
        <4>3. QED
          BY <3>2, <4>2, FS_EmptySet
      <3>7. w <= Cardinality(C \cup B)
        BY <3>5, <3>6, SmallerIsFewer
      <3>8. Cardinality(C) <= Max[l] /\ Cardinality(B) <= Max[l]
        BY <3>1 DEF Period
      <3> DEFINE c == Cardinality(C)
                 d == Cardinality(B)
      <3>9. w <= c + d /\ c <= Max[l] /\ d <= Max[l] /\ c \in Nat /\ d \in Nat
        BY <3>2, <3>6, <3>7, <3>8
      <3>10. w <= 2 * Max[l]
        <4> HIDE DEF c, d, w
        <4>1. QED
          BY <2>1, <3>9
      <3>11. QED
        BY <3>10
    <2>4. QED
      BY <2>2, <2>3
  <1>2. LimiterSpec => []RedisInv
    BY InitRedis, NextRedis, PTL DEF LimiterSpec
  <1>3. QED
    BY <1>1, <1>2, PTL

-----------------------------------------------------------------------------
(***************************************************************************)
(* Records.  The inductive invariant.                                      *)
(***************************************************************************)
\* The tables whose rows are edited by a SELECT and an UPDATE.
Edited == Keyed \cup Paged \cup {"zone"}

Stored == Rows \cup {Absent, Gone}
Steps == {"idle", "read", "merge", "delete", "check", "insert", "count", "page",
          "upsert", "overrides", "flag", "fee", "done", "failed"}
Ops == {"none", "update", "delete", "status", "create", "owner create", "list", "price",
        "quick add", "override", "pickup"}
Jobs == [op: Ops,
         table: Tables \cup {"none"}, ids: Seq(Ids), key: {NoKey} \cup Keys \cup Ids, ask: Asks,
         read: Stored, total: Nat, page: SUBSET Ids]
Works == [Tables -> [Ids -> Stored \cup {Unwritten}]]

Shapes ==
    /\ pc \in [Requests -> Steps] /\ job \in [Requests -> Jobs] /\ work \in [Requests -> Works]
    /\ \A r \in Requests : pc[r] = "merge" => job[r].read \in Rows

Existing(t) == {i \in Ids : row[t][i] \in Rows}

\* What a table may hold: only flags are gone, a pickup has a fee that its zone
\* has had in use, and so has the zone.
RowFits(t, i) ==
    /\ row[t][i] = Gone => t = "flag"
    /\ t = "pickup" /\ row[t][i] \in Rows =>
          row[t][i].key \in Ids /\ row[t][i].data \in listed[row[t][i].key]
    /\ t = "zone" /\ row[t][i].active => row[t][i].data \in listed[i]

\* What a request may have written over it: a key is not changed, and an override
\* is of a flag that is there.
WriteFits(t, i, x) ==
    /\ x \in Stored
    /\ x = Absent => t = "override"
    /\ x = Gone => t = "flag"
    /\ t \in Edited /\ x \in Rows =>
          row[t][i] = Absent \/ (row[t][i] \in Rows /\ row[t][i].key = x.key)
    /\ t = "override" /\ x \in Rows => row["flag"][i] \in Rows
    /\ t = "pickup" => x.key \in Ids /\ x.data \in listed[x.key]

\* An edit writes what it read with the fields it was given; a price is written
\* by a request to set it, or to mark it where there was none.
AsAsked(j, t, i, x) ==
    /\ j.op = "update" /\ t = j.table /\ i = Head(j.ids) => x = Merged(j.ask, j.read)
    /\ t = "price" => \/ j.op = "price"
                      \/ j.op = "quick add" /\ (row[t][i] \in Rows => x.data = row[t][i].data)

OneOutlet(w) ==
    \E i \in Ids : \A t \in Tables, k \in Ids : w[t][k] # Unwritten => t = "outlet" /\ k = i

JobFits(at, j) ==
    /\ at = "idle" => j = NoJob
    /\ at \in {"read", "merge"} => j.op = "update" /\ j.table \in Edited /\ j.ids # <<>>
    /\ at = "merge" => /\ row[j.table][Head(j.ids)] # Absent
                       /\ row[j.table][Head(j.ids)] \in Rows =>
                             row[j.table][Head(j.ids)].key = j.read.key
    /\ at = "delete" => /\ j.op \in {"delete", "status"} /\ j.table \in Edited \cup {"pickup"}
                        /\ j.ids # <<>> /\ j.ask \in [active: BOOLEAN]
    /\ at = "check" => \/ j.op = "create" /\ j.table \in Keyed /\ j.key \in Keys
                       \/ j.op = "owner create" /\ j.table = "outlet" /\ j.key = NoKey
    /\ at = "insert" =>
          \/ /\ j.op = "pickup" /\ j.key \in Ids
             /\ j.read \in Rows /\ j.read.data \in listed[j.key]
          \/ j.op = "create" /\ j.table \in Edited /\ j.key \in {NoKey} \cup Keys
          \/ j.op = "owner create" /\ j.table = "outlet" /\ j.key = NoKey
    /\ at \in {"count", "page"} => j.op = "list" /\ j.table \in Paged
    /\ at = "page" => j.total <= Cardinality(Existing(j.table))
    /\ at = "done" /\ j.op = "list" => j.total <= Cardinality(j.page)
    /\ at = "upsert" => /\ j.ids # <<>> /\ j.op \in {"price", "quick add", "override"}
                        /\ j.op # "price" => j.ask \in [active: BOOLEAN]
    /\ at \in {"overrides", "flag"} => j.op = "delete" /\ j.table = "flag" /\ j.ids # <<>>
    /\ at = "fee" => j.op = "pickup" /\ j.key \in Ids
    /\ at = "done" /\ j.op = "price" => j.ids = <<>>
    /\ at = "done" /\ j.op = "update" => j.table \in Edited /\ j.ids # <<>>

WorkFits(at, j, w) ==
    /\ at \notin {"upsert", "flag", "done"} => w = NoWork
    /\ at = "upsert" /\ j.op # "price" => w = NoWork
    /\ \A t \in Tables, i \in Ids :
          w[t][i] # Unwritten => WriteFits(t, i, w[t][i]) /\ AsAsked(j, t, i, w[t][i])
    /\ \A i \in Ids : w["flag"][i] = Gone => w["override"][i] = Absent
    /\ j.op = "owner create" => OneOutlet(w)

\* A row that is written is held; two rows with one key are never written, or
\* one written while the other is there; nobody makes an override while the flag
\* is going.
WritersApart ==
    \A q, r \in Requests, t \in Tables, i \in Ids :
        work[q][t][i] # Unwritten /\ work[r][t][i] # Unwritten => q = r

KeysApart ==
    \A t \in Keyed, q \in Requests, i \in Ids :
        work[q][t][i] \in Rows =>
            /\ \A j \in Ids : row[t][j] \in Rows /\ row[t][j].key = work[q][t][i].key => i = j
            /\ \A r \in Requests, j \in Ids :
                  work[r][t][j] \in Rows /\ work[r][t][j].key = work[q][t][i].key => i = j

GoneAlone ==
    \A q, r \in Requests, i \in Ids :
        q # r /\ work[q]["flag"][i] = Gone => work[r]["override"][i] = Unwritten

\* Outlets that count against the plan, and requests that have found room for
\* one more: when the plan is used up, both together are within the bound.
Used == {i \in Ids \ exempt : row["outlet"][i].active}
Coming == {r \in Requests : job[r].op = "owner create" /\ (pc[r] = "insert" \/ work[r] # NoWork)}
RoomLeft ==
    Cardinality(Used) >= MaxOutlets =>
        Cardinality(Used) + Cardinality(Coming) <= MaxOutlets + Cardinality(Requests) - 1

RecordsInv ==
    /\ RecordsTypeOK
    /\ Shapes
    /\ \A t \in Tables, i \in Ids : RowFits(t, i)
    /\ \A r \in Requests : JobFits(pc[r], job[r]) /\ WorkFits(pc[r], job[r], work[r])
    /\ WritersApart
    /\ KeysApart
    /\ KeysUnique
    /\ GoneAlone
    /\ OverridesHaveFlags
    /\ RoomLeft

-----------------------------------------------------------------------------
\* The marks are no rows, and tell nothing that a row may be in use.
LEMMA Marks ==
    /\ Absent \notin Rows /\ Gone \notin Rows /\ Unwritten \notin Stored
    /\ Absent # Gone /\ Absent # Unwritten /\ Gone # Unwritten
    /\ Absent.active = FALSE /\ Gone.active = FALSE /\ Absent \in Stored /\ Gone \in Stored
    /\ \A x \in Stored : Exists(x) <=> x \in Rows
    /\ \A x \in Rows : x.key \in {NoKey} \cup Keys \cup Ids /\ x.data \in 0 .. 1 /\ x.active \in BOOLEAN
  <1>1. Absent.data = 2 /\ Gone.data = 3 /\ Unwritten.data = 4
    BY DEF Absent, Gone, Unwritten
  <1>2. \A x \in Rows : x.data \in 0 .. 1
    BY DEF Rows
  <1>3. Absent \notin Rows /\ Gone \notin Rows /\ Unwritten \notin Rows
    BY <1>1, <1>2
  <1>4. Absent # Gone /\ Absent # Unwritten /\ Gone # Unwritten
    BY <1>1
  <1>5. Absent.active = FALSE /\ Gone.active = FALSE
    BY DEF Absent, Gone
  <1>6. \A x \in Stored : Exists(x) <=> x \in Rows
    BY <1>3 DEF Stored, Exists
  <1>7. \A x \in Rows : x.key \in {NoKey} \cup Keys \cup Ids /\ x.data \in 0 .. 1 /\ x.active \in BOOLEAN
    BY DEF Rows
  <1>8. QED
    BY <1>3, <1>4, <1>5, <1>6, <1>7 DEF Stored

\* Nothing is written in NoWork.
LEMMA Blank ==
    NoWork \in Works /\ \A t \in Tables, i \in Ids : NoWork[t][i] = Unwritten
  BY DEF NoWork, Works

\* A request that is not there has a job of the right shape.
LEMMA NoJobFits == NoJob \in Jobs
  <1>1. <<>> \in Seq(Ids) /\ [data |-> 0] \in Asks /\ Absent \in Stored
    BY Marks DEF Asks
  <1>2. QED
    BY <1>1 DEF NoJob, Jobs, Ops

\* A request whose work is blank fits as soon as its job does.
LEMMA BlankFits ==
    ASSUME NEW at, NEW j
    PROVE  WorkFits(at, j, NoWork)
  <1>1. Gone # Unwritten /\ 1 \in Ids /\ "flag" \in Tables
    BY Marks, IdsAssumption DEF Tables, Keyed
  <1>2. OneOutlet(NoWork)
    BY <1>1, Blank DEF OneOutlet
  <1>3. QED
    BY <1>1, <1>2, Blank DEF WorkFits

\* The outlets that count and the requests that found room can be counted.
LEMMA FiniteOnes ==
    /\ IsFiniteSet(Used) /\ IsFiniteSet(Coming)
    /\ Cardinality(Used) \in Nat /\ Cardinality(Coming) \in Nat
    /\ Cardinality(Requests) \in Nat \ {0}
    /\ Cardinality(Coming) <= Cardinality(Requests)
  <1>1. Used \subseteq Ids /\ Coming \subseteq Requests
    BY DEF Used, Coming
  <1>2. IsFiniteSet(Used) /\ IsFiniteSet(Coming) /\ Cardinality(Coming) <= Cardinality(Requests)
    BY <1>1, FS_Subset, IdsAssumption, RequestsAssumption
  <1>3. Cardinality(Requests) # 0
    BY FS_EmptySet, RequestsAssumption
  <1>4. QED
    BY <1>2, <1>3, FS_CardinalityType, RequestsAssumption

\* The plan is not used up by a subset of the outlets that use it, with the
\* requests that have found room no more than one for each.
LEMMA RoomKept ==
    ASSUME RoomLeft, Used' \subseteq Used,
           \/ Coming' \subseteq Coming
           \/ Cardinality(Used) < MaxOutlets
    PROVE  RoomLeft'
  <1>1. /\ IsFiniteSet(Used) /\ IsFiniteSet(Coming)
        /\ Cardinality(Used) \in Nat /\ Cardinality(Coming) \in Nat
        /\ Cardinality(Requests) \in Nat \ {0}
    BY FiniteOnes
  <1>2. Cardinality(Used') <= Cardinality(Used) /\ Cardinality(Used') \in Nat
    BY <1>1, FS_Subset, FS_CardinalityType
  <1>3. CASE Coming' \subseteq Coming
    <2>1. Cardinality(Coming') <= Cardinality(Coming) /\ Cardinality(Coming') \in Nat
      BY <1>1, <1>3, FS_Subset, FS_CardinalityType
    <2>2. QED
      BY <1>1, <1>2, <2>1, OutletsAssumption DEF RoomLeft
  <1>4. CASE Cardinality(Used) < MaxOutlets
    BY <1>1, <1>2, <1>4, OutletsAssumption DEF RoomLeft
  <1>5. QED
    BY <1>3, <1>4

-----------------------------------------------------------------------------
\* The invariant holds at the start: each table has one row, and nobody writes.
LEMMA InitRecords == RecordsInit => RecordsInv
  <1> SUFFICES ASSUME RecordsInit PROVE RecordsInv
    OBVIOUS
  <1> DEFINE first(t) == [key |-> IF t \in Keyed THEN CHOOSE k \in Keys : TRUE ELSE NoKey,
                          data |-> 0, active |-> TRUE]
  <1>1. \A t : first(t) \in Rows /\ first(t).data = 0
    <2>1. (CHOOSE k \in Keys : TRUE) \in Keys
      BY KeysAssumption
    <2>2. QED
      BY <2>1 DEF Rows
  <1>2. \A t \in Tables, i \in Ids : row[t][i] = IF i = 1 /\ Seeded(t) THEN first(t) ELSE Absent
    BY DEF RecordsInit
  <1> HIDE DEF first
  <1>3. row \in [Tables -> [Ids -> Stored]]
    <2>1. \A t \in Tables, i \in Ids : row[t][i] \in Stored
      BY <1>1, <1>2, Marks DEF Stored
    <2>2. row = [t \in Tables |-> [i \in Ids |-> row[t][i]]]
      BY DEF RecordsInit
    <2>3. QED
      BY <2>1, <2>2
  <1>4. Shapes
    BY Blank, NoJobFits DEF RecordsInit, Shapes, Steps
  <1>5. RecordsTypeOK
    <2>1. listed \in [Ids -> SUBSET (0 .. 1)]
      BY DEF RecordsInit
    <2>2. \A r \in Requests :
             /\ pc[r] \in Steps /\ job[r].ids \in Seq(Ids) /\ job[r].ask \in Asks
             /\ job[r].read \in Stored /\ pc[r] # "merge"
      <3>1. \A r \in Requests : pc[r] = "idle" /\ job[r] = NoJob
        BY DEF RecordsInit
      <3>2. QED
        BY <3>1, NoJobFits DEF Jobs, Steps
    <2>3. work \in [Requests -> [Tables -> [Ids -> Rows \cup {Absent, Gone, Unwritten}]]]
      BY <1>4 DEF Shapes, Works, Stored
    <2>4. scope \in Scopes /\ edits \in 0 .. MaxEdits /\ exempt \subseteq Ids
      BY RecordBoundsAssumption DEF RecordsInit
    <2>5. QED
      BY <1>3, <2>1, <2>2, <2>3, <2>4 DEF RecordsTypeOK, Stored, Steps
  <1>6. \A t \in Tables, i \in Ids : RowFits(t, i)
    <2> SUFFICES ASSUME NEW t \in Tables, NEW i \in Ids PROVE RowFits(t, i)
      OBVIOUS
    <2>1. CASE i = 1 /\ Seeded(t)
      <3>1. t # "pickup"
        BY <2>1 DEF Seeded, Keyed, Paged
      <3>2. listed[1] = {0}
        BY <2>1 DEF RecordsInit
      <3>3. QED
        BY <1>1, <1>2, <2>1, <3>1, <3>2, Marks DEF RowFits
    <2>2. CASE ~(i = 1 /\ Seeded(t))
      BY <1>2, <2>2, Marks DEF RowFits
    <2>3. QED
      BY <2>1, <2>2
  <1>7. \A r \in Requests : JobFits(pc[r], job[r]) /\ WorkFits(pc[r], job[r], work[r])
    <2> SUFFICES ASSUME NEW r \in Requests
                 PROVE  JobFits(pc[r], job[r]) /\ WorkFits(pc[r], job[r], work[r])
      OBVIOUS
    <2>1. pc[r] = "idle" /\ job[r] = NoJob /\ work[r] = NoWork
      BY DEF RecordsInit
    <2>2. QED
      BY <2>1, BlankFits DEF JobFits
  <1>8. \A r \in Requests, t \in Tables, i \in Ids : work[r][t][i] = Unwritten
    BY Blank DEF RecordsInit
  <1>9. WritersApart /\ KeysApart /\ GoneAlone
    <2>1. "override" \in Tables /\ "flag" \in Tables /\ Keyed \subseteq Tables
      BY DEF Tables, Keyed
    <2>2. QED
      BY <1>8, <2>1, Marks DEF WritersApart, KeysApart, GoneAlone, Stored
  <1>10. KeysUnique /\ OverridesHaveFlags
    <2>1. "override" \in Tables /\ ~Seeded("override") /\ Keyed \subseteq Tables
      BY DEF Tables, Keyed, Seeded, Paged
    <2>2. QED
      BY <1>2, <2>1, Marks DEF KeysUnique, OverridesHaveFlags
  <1>11. RoomLeft
    <2>1. Used \subseteq {1}
      BY <1>2, Marks DEF Used, Tables, Paged
    <2>2. Cardinality(Used) <= 1
      <3>1. IsFiniteSet({1}) /\ Cardinality({1}) = 1
        BY FS_Singleton
      <3>2. QED
        BY <2>1, <3>1, FS_Subset
    <2>3. Coming = {}
      BY DEF RecordsInit, Coming, NoJob
    <2>4. Cardinality(Coming) = 0
      BY <2>3, FS_EmptySet
    <2>5. QED
      BY <2>2, <2>4, FiniteOnes, OutletsAssumption DEF RoomLeft
  <1>12. QED
    BY <1>4, <1>5, <1>6, <1>7, <1>9, <1>10, <1>11 DEF RecordsInv

-----------------------------------------------------------------------------
(***************************************************************************)
(* A step of one request that commits nothing.                             *)
(***************************************************************************)
\* What the request has written that it had not keeps the writers apart, the keys
\* unique and the flags of overrides.
WritesWell(r) ==
    /\ \A t \in Tables, i \in Ids :
          work'[r][t][i] # Unwritten =>
              work[r][t][i] # Unwritten \/ \A q \in Requests \ {r} : work[q][t][i] = Unwritten
    /\ \A t \in Keyed, i \in Ids :
          work'[r][t][i] \in Rows =>
              /\ \A j \in Ids : row[t][j] \in Rows /\ row[t][j].key = work'[r][t][i].key => i = j
              /\ \A q \in Requests, j \in Ids :
                    work'[q][t][j] \in Rows /\ work'[q][t][j].key = work'[r][t][i].key => i = j
    /\ \A i \in Ids, q \in Requests \ {r} :
          /\ work'[r]["flag"][i] = Gone => work[q]["override"][i] = Unwritten
          /\ work'[r]["override"][i] # Unwritten => work[q]["flag"][i] # Gone

\* Nothing is committed, and the others stay where they are.
OnlyOf(r) ==
    /\ UNCHANGED <<scope, row, exempt, listed>>
    /\ edits' \in 0 .. MaxEdits
    /\ \A q \in Requests \ {r} : pc'[q] = pc[q] /\ job'[q] = job[q] /\ work'[q] = work[q]

\* A request that stays where it is fits while the tables do not change.
LEMMA StaysFit ==
    ASSUME RecordsInv, row' = row, listed' = listed, NEW q \in Requests,
           pc'[q] = pc[q], job'[q] = job[q], work'[q] = work[q]
    PROVE  JobFits(pc[q], job[q])' /\ WorkFits(pc[q], job[q], work[q])'
  <1>1. pc'[q] = pc[q] /\ job'[q] = job[q] /\ work'[q] = work[q] /\ row' = row /\ listed' = listed
    OBVIOUS
  <1>2. JobFits(pc[q], job[q]) /\ WorkFits(pc[q], job[q], work[q])
    BY DEF RecordsInv
  <1>3. JobFits(pc[q], job[q])'
    BY <1>1, <1>2 DEF JobFits, Existing
  <1>4. WorkFits(pc[q], job[q], work[q])'
    <2>1. PICK at, j, w : at = pc[q] /\ j = job[q] /\ w = work[q]
      OBVIOUS
    <2>2. WorkFits(at, j, w)
      BY <1>2, <2>1
    <2>3. row' = row /\ listed' = listed
      BY <1>1
    <2>4. \A t \in Tables, i \in Ids :
             w[t][i] # Unwritten =>
                 WriteFits(t, i, w[t][i])' /\ AsAsked(j, t, i, w[t][i])'
      <3> SUFFICES ASSUME NEW t \in Tables, NEW i \in Ids, NEW x, x = w[t][i], x # Unwritten
                   PROVE  WriteFits(t, i, x)' /\ AsAsked(j, t, i, x)'
        OBVIOUS
      <3>1. WriteFits(t, i, x) /\ AsAsked(j, t, i, x)
        BY <2>2 DEF WorkFits
      <3>2. QED
        BY <3>1, <2>3 DEF WriteFits, AsAsked
    <2>5. pc'[q] = at /\ job'[q] = j /\ work'[q] = w
      BY <1>1, <2>1
    <2>6. j.op = "owner create" => OneOutlet(w)
      BY <2>2 DEF WorkFits
    <2>7. \A t \in Tables, i \in Ids :
             work'[q][t][i] # Unwritten =>
                 WriteFits(t, i, work[q][t][i])' /\ AsAsked(job[q], t, i, work[q][t][i])'
      <3> SUFFICES ASSUME NEW t \in Tables, NEW i \in Ids, work'[q][t][i] # Unwritten
                   PROVE  WriteFits(t, i, work[q][t][i])' /\ AsAsked(job[q], t, i, work[q][t][i])'
        OBVIOUS
      <3>1. work'[q][t][i] = w[t][i] /\ job'[q] = j
        BY <2>5
      <3>2. WriteFits(t, i, w[t][i])' /\ AsAsked(j, t, i, w[t][i])'
        BY <2>4, <3>1
      <3>3. WriteFits(t, i, work[q][t][i])'
        BY <3>1, <3>2 DEF WriteFits
      <3>4. AsAsked(job[q], t, i, work[q][t][i])'
        BY <3>1, <3>2 DEF AsAsked
      <3>5. QED
        BY <3>3, <3>4
    <2>8. job'[q].op = "owner create" => OneOutlet(work[q])'
      BY <2>5, <2>6 DEF OneOutlet
    <2>9. QED
      BY <2>2, <2>5, <2>7, <2>8 DEF WorkFits
  <1>5. QED
    BY <1>3, <1>4

\* The invariant is kept by a step of one request that commits nothing, if what it
\* writes is well apart from the others.
LEMMA StepInv ==
    ASSUME RecordsInv, NEW r \in Requests, OnlyOf(r), Shapes', WritesWell(r),
           JobFits(pc[r], job[r])', WorkFits(pc[r], job[r], work[r])',
           r \in Coming' => r \in Coming \/ Cardinality(Used) < MaxOutlets
    PROVE  RecordsInv'
  <1>1. RecordsTypeOK'
    <2>1. \A q \in Requests : job'[q].ids \in Seq(Ids) /\ job'[q].ask \in Asks /\ job'[q].read \in Stored
      BY DEF Shapes, Jobs
    <2>2. work' \in [Requests -> [Tables -> [Ids -> Rows \cup {Absent, Gone, Unwritten}]]]
      BY DEF Shapes, Works, Stored
    <2>3. QED
      BY <2>1, <2>2 DEF RecordsInv, RecordsTypeOK, OnlyOf, Shapes, Stored, Steps
  <1>2. \A t \in Tables, i \in Ids : RowFits(t, i)'
    BY DEF RecordsInv, RowFits, OnlyOf
  <1>3. \A q \in Requests : (JobFits(pc[q], job[q]) /\ WorkFits(pc[q], job[q], work[q]))'
    BY StaysFit DEF OnlyOf
  <1>4. WritersApart'
    <2> SUFFICES ASSUME NEW p \in Requests, NEW q \in Requests, NEW t \in Tables, NEW i \in Ids,
                        work'[p][t][i] # Unwritten, work'[q][t][i] # Unwritten
                 PROVE  p = q
      BY DEF WritersApart
    <2>1. \A x, y \in Requests : work[x][t][i] # Unwritten /\ work[y][t][i] # Unwritten => x = y
      BY DEF RecordsInv, WritersApart
    <2>2. QED
      BY <2>1 DEF OnlyOf, WritesWell
  <1>5. KeysApart'
    <2> SUFFICES ASSUME NEW t \in Keyed, NEW q \in Requests, NEW i \in Ids, work'[q][t][i] \in Rows
                 PROVE  /\ \A j \in Ids : row[t][j] \in Rows /\ row[t][j].key = work'[q][t][i].key => i = j
                        /\ \A p \in Requests, j \in Ids :
                              work'[p][t][j] \in Rows /\ work'[p][t][j].key = work'[q][t][i].key => i = j
      BY DEF KeysApart, OnlyOf
    <2>1. CASE q = r
      BY <2>1 DEF WritesWell
    <2>2. CASE q # r
      <3>1. work'[q] = work[q]
        BY <2>2 DEF OnlyOf
      <3>2. \A j \in Ids : row[t][j] \in Rows /\ row[t][j].key = work'[q][t][i].key => i = j
        BY <3>1 DEF RecordsInv, KeysApart
      <3>3. \A p \in Requests \ {r}, j \in Ids :
               work'[p][t][j] \in Rows /\ work'[p][t][j].key = work'[q][t][i].key => i = j
        BY <3>1 DEF RecordsInv, KeysApart, OnlyOf
      <3>4. \A j \in Ids :
               work'[r][t][j] \in Rows /\ work'[r][t][j].key = work'[q][t][i].key => i = j
        BY DEF WritesWell
      <3>5. QED
        BY <3>2, <3>3, <3>4
    <2>3. QED
      BY <2>1, <2>2
  <1>6. GoneAlone'
    <2> SUFFICES ASSUME NEW p \in Requests, NEW q \in Requests, NEW i \in Ids,
                        p # q, work'[p]["flag"][i] = Gone
                 PROVE  work'[q]["override"][i] = Unwritten
      BY DEF GoneAlone
    <2>1. \A x, y \in Requests : x # y /\ work[x]["flag"][i] = Gone => work[y]["override"][i] = Unwritten
      BY DEF RecordsInv, GoneAlone
    <2>2. QED
      BY <2>1 DEF OnlyOf, WritesWell
  <1>7. KeysUnique' /\ OverridesHaveFlags'
    BY DEF RecordsInv, KeysUnique, OverridesHaveFlags, OnlyOf
  <1>8. RoomLeft'
    <2>1. Used' = Used
      BY DEF Used, OnlyOf
    <2>2. Coming' \subseteq Coming \cup {r}
      BY DEF Coming, OnlyOf
    <2>3. QED
      BY <2>1, <2>2, RoomKept DEF RecordsInv
  <1>9. QED
    BY <1>1, <1>2, <1>3, <1>4, <1>5, <1>6, <1>7, <1>8 DEF RecordsInv

\* A step that writes nothing, or loses what was written.
LEMMA QuietInv ==
    ASSUME RecordsInv, NEW r \in Requests, OnlyOf(r), Shapes',
           work' = work \/ work'[r] = NoWork,
           JobFits(pc[r], job[r])', WorkFits(pc[r], job[r], work[r])',
           r \in Coming' => r \in Coming \/ Cardinality(Used) < MaxOutlets
    PROVE  RecordsInv'
  <1>1. WritesWell(r)
    <2>1. "override" \in Tables /\ "flag" \in Tables /\ Keyed \subseteq Tables
      BY DEF Tables, Keyed
    <2>2. CASE work' = work
      BY <2>1, <2>2 DEF WritesWell, RecordsInv, KeysApart, GoneAlone
    <2>3. CASE work'[r] = NoWork
      BY <2>1, <2>3, Blank, Marks DEF WritesWell, Stored
    <2>4. QED
      BY <2>2, <2>3
  <1>2. QED
    BY <1>1, StepInv

\* A job that fits still does when nothing is committed.
LEMMA JobStays ==
    ASSUME NEW r \in Requests, NEW at, NEW j, JobFits(at, j), UNCHANGED <<row, listed>>,
           pc'[r] = at, job'[r] = j
    PROVE  JobFits(pc[r], job[r])'
  BY DEF JobFits, Existing

\* The shapes after a step that changes what is said of one request.
LEMMA ShapesKept ==
    ASSUME Shapes, NEW r \in Requests, NEW at \in Steps, NEW j \in Jobs, NEW w \in Works,
           pc' = [pc EXCEPT ![r] = at], job' = [job EXCEPT ![r] = j],
           work' = [work EXCEPT ![r] = w], at = "merge" => j.read \in Rows
    PROVE  Shapes' /\ pc'[r] = at /\ job'[r] = j /\ work'[r] = w
  BY DEF Shapes

\* The bound on requests leaves room for one more.
LEMMA OneMoreEdit ==
    ASSUME NEW n \in 0 .. MaxEdits, n < MaxEdits
    PROVE  n + 1 \in 0 .. MaxEdits
  BY RecordBoundsAssumption

\* A request begins.
LEMMA BeginInv ==
    ASSUME RecordsInv, NEW r \in Requests, NEW at \in Steps, NEW j \in Jobs, Begin(r, at, j),
           JobFits(at, j), at # "merge", at = "insert" => j.op # "owner create"
    PROVE  RecordsInv'
  <1>1. Shapes /\ work[r] = NoWork /\ edits \in 0 .. MaxEdits
    BY DEF RecordsInv, RecordsTypeOK, WorkFits, Begin
  <1>2. work' = [work EXCEPT ![r] = NoWork]
    BY <1>1 DEF Begin, Shapes
  <1>3. Shapes' /\ pc'[r] = at /\ job'[r] = j /\ work'[r] = NoWork
    BY <1>1, <1>2, ShapesKept, Blank DEF Begin
  <1>4. OnlyOf(r)
    <2>1. edits' \in 0 .. MaxEdits
      <3>1. edits < MaxEdits /\ edits' = edits + 1
        BY DEF Begin
      <3>2. QED
        BY <1>1, <3>1, OneMoreEdit
    <2>2. \A q \in Requests \ {r} : pc'[q] = pc[q] /\ job'[q] = job[q] /\ work'[q] = work[q]
      BY <1>1 DEF Begin, Shapes
    <2>3. QED
      BY <2>1, <2>2 DEF Begin, OnlyOf
  <1>5. JobFits(pc[r], job[r])'
    BY <1>3, JobStays DEF Begin
  <1>6. WorkFits(pc[r], job[r], work[r])'
    BY <1>3, Blank, BlankFits DEF WorkFits
  <1>7. r \notin Coming'
    BY <1>3 DEF Coming
  <1>8. QED
    BY <1>3, <1>4, <1>5, <1>6, <1>7, QuietInv

\* A statement that only reads.
LEMMA GoInv ==
    ASSUME RecordsInv, NEW r \in Requests, NEW to \in Steps, NEW j \in Jobs, Go(r, to, j),
           work[r] = NoWork, JobFits(to, j), to = "merge" => j.read \in Rows,
           to = "insert" /\ j.op = "owner create" => Cardinality(Used) < MaxOutlets
    PROVE  RecordsInv'
  <1>1. Shapes
    BY DEF RecordsInv
  <1>2. work' = [work EXCEPT ![r] = NoWork]
    BY <1>1 DEF Go, Shapes
  <1>3. Shapes' /\ pc'[r] = to /\ job'[r] = j /\ work'[r] = NoWork
    BY <1>1, <1>2, ShapesKept, Blank DEF Go
  <1>4. OnlyOf(r)
    BY <1>1 DEF Go, OnlyOf, Shapes, RecordsInv, RecordsTypeOK
  <1>5. JobFits(pc[r], job[r])'
    BY <1>3, JobStays DEF Go
  <1>6. WorkFits(pc[r], job[r], work[r])'
    BY <1>3, Blank, BlankFits DEF WorkFits
  <1>7. r \in Coming' => Cardinality(Used) < MaxOutlets
    BY <1>3 DEF Coming
  <1>8. QED
    BY <1>3, <1>4, <1>5, <1>6, <1>7, QuietInv DEF Go

-----------------------------------------------------------------------------
(***************************************************************************)
(* Requests.                                                               *)
(***************************************************************************)
\* Which groups of tables there are.
LEMMA InTables == Edited \cup {"pickup", "price", "override"} = Tables /\ Paged \subseteq Edited
                  /\ Keyed \subseteq Edited /\ {"flag"} \subseteq Keyed
                  /\ "pickup" \notin Edited /\ "price" \notin Edited /\ "override" \notin Edited
                  /\ "flag" \notin Paged
  BY DEF Edited, Tables, Paged, Keyed

\* A mark alone is something to ask for.
LEMMA AsksGiven == \A on \in BOOLEAN : [active |-> on] \in Asks /\ [active |-> on] \in [active: BOOLEAN]
  BY DEF Asks

\* An edit, a deletion, a row that is made, a listing.
LEMMA UpdatingInv ==
    ASSUME RecordsInv, NEW r \in Requests, NEW t \in Edited, NEW i \in Ids, NEW ask \in Asks,
           Updating(r, t, i, ask)
    PROVE  RecordsInv'
  <1>1. PICK j : j = [JobOn("update", t, i) EXCEPT !.ask = ask]
    OBVIOUS
  <1>2. j \in Jobs /\ j.op = "update" /\ j.table = t /\ j.ids = <<i>>
    <2>1. NoJob \in Jobs /\ <<i>> \in Seq(Ids)
      BY NoJobFits
    <2>2. QED
      BY <1>1, <2>1, InTables DEF JobOn, Jobs, Ops
  <1>3. JobFits("read", j)
    BY <1>2 DEF JobFits
  <1>4. Begin(r, "read", j) /\ "read" \in Steps
    BY <1>1 DEF Updating, Steps
  <1>5. QED
    BY <1>2, <1>3, <1>4, BeginInv

\* A deletion begins.
LEMMA DeletingInv ==
    ASSUME RecordsInv, NEW r \in Requests, NEW t \in Edited, NEW i \in Ids, Deleting(r, t, i)
    PROVE  RecordsInv'
  <1>1. PICK j : j = [JobOn("delete", t, i) EXCEPT !.ask = [active |-> FALSE]]
    OBVIOUS
  <1>2. /\ j \in Jobs /\ j.op = "delete" /\ j.table = t /\ j.ids = <<i>>
        /\ j.ask = [active |-> FALSE] /\ j.ask \in [active: BOOLEAN]
    <2>1. NoJob \in Jobs /\ <<i>> \in Seq(Ids)
      BY NoJobFits
    <2>2. QED
      BY <1>1, <2>1, InTables, AsksGiven DEF JobOn, Jobs, Ops
  <1>3. JobFits("delete", j)
    BY <1>2 DEF JobFits
  <1>4. Begin(r, "delete", j) /\ "delete" \in Steps
    BY <1>1 DEF Deleting, Steps
  <1>5. QED
    BY <1>2, <1>3, <1>4, BeginInv

\* A row without a unique key is about to be inserted.
LEMMA CreatingInv ==
    ASSUME RecordsInv, NEW r \in Requests, NEW t \in Edited, Creating(r, t)
    PROVE  RecordsInv'
  <1>1. PICK j : j = [NoJob EXCEPT !.op = "create", !.table = t]
    OBVIOUS
  <1>2. j \in Jobs /\ j.op = "create" /\ j.table = t /\ j.key = NoKey
    <2>1. NoJob \in Jobs /\ NoJob.key = NoKey
      BY NoJobFits DEF NoJob
    <2>2. QED
      BY <1>1, <2>1, InTables DEF Jobs, Ops
  <1>3. JobFits("insert", j)
    BY <1>2 DEF JobFits
  <1>4. Begin(r, "insert", j) /\ "insert" \in Steps
    BY <1>1 DEF Creating, Steps
  <1>5. QED
    BY <1>2, <1>3, <1>4, BeginInv

\* The key of a new row is about to be checked.
LEMMA CreatingKeyedInv ==
    ASSUME RecordsInv, NEW r \in Requests, NEW t \in Keyed, NEW k \in Keys, CreatingKeyed(r, t, k)
    PROVE  RecordsInv'
  <1>1. PICK j : j = [NoJob EXCEPT !.op = "create", !.table = t, !.key = k]
    OBVIOUS
  <1>2. j \in Jobs /\ j.op = "create" /\ j.table = t /\ j.key = k
    <2>1. NoJob \in Jobs /\ NoJob.key = NoKey
      BY NoJobFits DEF NoJob
    <2>2. QED
      BY <1>1, <2>1, InTables DEF Jobs, Ops
  <1>3. JobFits("check", j)
    BY <1>2 DEF JobFits
  <1>4. Begin(r, "check", j) /\ "check" \in Steps
    BY <1>1 DEF CreatingKeyed, Steps
  <1>5. QED
    BY <1>2, <1>3, <1>4, BeginInv

\* A listing begins.
LEMMA ListingInv ==
    ASSUME RecordsInv, NEW r \in Requests, NEW t \in Paged, Listing(r, t)
    PROVE  RecordsInv'
  <1>1. PICK j : j = [NoJob EXCEPT !.op = "list", !.table = t]
    OBVIOUS
  <1>2. j \in Jobs /\ j.op = "list" /\ j.table = t
    <2>1. NoJob \in Jobs /\ NoJob.key = NoKey
      BY NoJobFits DEF NoJob
    <2>2. QED
      BY <1>1, <2>1, InTables DEF Jobs, Ops
  <1>3. JobFits("count", j)
    BY <1>2 DEF JobFits
  <1>4. Begin(r, "count", j) /\ "count" \in Steps
    BY <1>1 DEF Listing, Steps
  <1>5. QED
    BY <1>2, <1>3, <1>4, BeginInv

\* A request whose work begins with an upsert.
LEMMA UpsertBegins ==
    ASSUME RecordsInv, NEW r \in Requests, NEW j \in Jobs, Begin(r, "upsert", j), j.ids # <<>>,
           \/ j.op = "price"
           \/ (j.op = "quick add" \/ j.op = "override") /\ j.ask \in [active: BOOLEAN]
    PROVE  RecordsInv'
  <1>1. JobFits("upsert", j)
    BY DEF JobFits
  <1>2. "upsert" \in Steps
    BY DEF Steps
  <1>3. QED
    BY <1>1, <1>2, BeginInv

\* Prices are about to be set, or a service marked for quick add.
LEMMA PriceRequestInv ==
    ASSUME RecordsInv, NEW r \in Requests, PriceRequest(r)
    PROVE  RecordsInv'
  <1>1. NoJob \in Jobs /\ "price" \in Tables
    BY NoJobFits DEF Tables
  <1>2. ASSUME NEW i \in Ids, SetPrice(r, i) PROVE RecordsInv'
    <2>1. PICK j : j = Priced(<<i>>)
      OBVIOUS
    <2>2. <<i>> \in Seq(Ids)
      OBVIOUS
    <2>3. j \in Jobs /\ j.op = "price" /\ j.ids # <<>>
      BY <1>1, <2>1, <2>2 DEF Priced, Jobs, Ops
    <2>4. Begin(r, "upsert", j)
      BY <1>2, <2>1 DEF SetPrice
    <2>5. QED
      BY <2>3, <2>4, UpsertBegins
  <1>3. ASSUME NEW i \in Ids, NEW k \in Ids, BulkSetPrices(r, <<i, k>>) PROVE RecordsInv'
    <2>1. PICK j : j = Priced(<<i, k>>)
      OBVIOUS
    <2>2. <<i, k>> \in Seq(Ids)
      OBVIOUS
    <2>3. j \in Jobs /\ j.op = "price" /\ j.ids # <<>>
      BY <1>1, <2>1, <2>2 DEF Priced, Jobs, Ops
    <2>4. Begin(r, "upsert", j)
      BY <1>3, <2>1 DEF BulkSetPrices
    <2>5. QED
      BY <2>3, <2>4, UpsertBegins
  <1>4. ASSUME NEW i \in Ids, NEW on \in BOOLEAN,
               Begin(r, "upsert", [JobOn("quick add", "price", i) EXCEPT !.ask = [active |-> on]])
        PROVE  RecordsInv'
    <2>1. PICK j : j = [JobOn("quick add", "price", i) EXCEPT !.ask = [active |-> on]]
      OBVIOUS
    <2>2. <<i>> \in Seq(Ids) /\ [active |-> on] \in Asks
      BY AsksGiven
    <2>3. j \in Jobs /\ j.op = "quick add" /\ j.ids # <<>> /\ j.ask \in [active: BOOLEAN]
      BY <1>1, <2>1, <2>2 DEF JobOn, Jobs, Ops
    <2>4. Begin(r, "upsert", j)
      BY <1>4, <2>1
    <2>5. QED
      BY <2>3, <2>4, UpsertBegins
  <1>5. QED
    BY <1>2, <1>3, <1>4 DEF PriceRequest

\* An override is about to be set.
LEMMA OverrideRequestInv ==
    ASSUME RecordsInv, NEW r \in Requests, OverrideRequest(r)
    PROVE  RecordsInv'
  <1>1. PICK i \in Ids, on \in BOOLEAN :
           Begin(r, "upsert", [JobOn("override", "override", i) EXCEPT !.ask = [active |-> on]])
    BY DEF OverrideRequest
  <1>2. PICK j : j = [JobOn("override", "override", i) EXCEPT !.ask = [active |-> on]]
    OBVIOUS
  <1>3. <<i>> \in Seq(Ids) /\ [active |-> on] \in Asks /\ NoJob \in Jobs /\ "override" \in Tables
    BY AsksGiven, NoJobFits DEF Tables
  <1>4. j \in Jobs /\ j.op = "override" /\ j.ids # <<>> /\ j.ask \in [active: BOOLEAN]
    BY <1>2, <1>3 DEF JobOn, Jobs, Ops
  <1>5. Begin(r, "upsert", j)
    BY <1>1, <1>2
  <1>6. QED
    BY <1>4, <1>5, UpsertBegins

\* A flag is about to be made, edited or deleted.
LEMMA FlagRequestInv ==
    ASSUME RecordsInv, NEW r \in Requests, FlagRequest(r)
    PROVE  RecordsInv'
  <1>1. "flag" \in Edited /\ "flag" \in Keyed /\ "flag" \in Tables
    BY DEF Edited, Keyed, Tables
  <1>2. ASSUME NEW k \in Keys, CreateFlag(r, k) PROVE RecordsInv'
    BY <1>1, <1>2, CreatingKeyedInv DEF CreateFlag
  <1>3. ASSUME NEW i \in Ids, NEW ask \in Asks, UpdateFlag(r, i, ask) PROVE RecordsInv'
    BY <1>1, <1>3, UpdatingInv DEF UpdateFlag
  <1>4. ASSUME NEW i \in Ids, DeleteFlag(r, i) PROVE RecordsInv'
    <2>1. PICK j : j = JobOn("delete", "flag", i)
      OBVIOUS
    <2>2. <<i>> \in Seq(Ids) /\ NoJob \in Jobs
      BY NoJobFits
    <2>3. j \in Jobs /\ j.op = "delete" /\ j.table = "flag" /\ j.ids # <<>>
      BY <1>1, <2>1, <2>2 DEF JobOn, Jobs, Ops
    <2>4. JobFits("overrides", j)
      BY <2>3 DEF JobFits
    <2>5. Begin(r, "overrides", j) /\ "overrides" \in Steps
      BY <1>4, <2>1 DEF DeleteFlag, Steps
    <2>6. QED
      BY <2>3, <2>4, <2>5, BeginInv
  <1>5. QED
    BY <1>2, <1>3, <1>4 DEF FlagRequest

\* A pickup is about to be requested, or its status set.
LEMMA PickupRequestInv ==
    ASSUME RecordsInv, NEW r \in Requests, PickupRequest(r)
    PROVE  RecordsInv'
  <1>1. NoJob \in Jobs /\ "pickup" \in Tables
    BY NoJobFits DEF Tables
  <1>2. ASSUME NEW z \in Ids, CreatePickupRequest(r, z) PROVE RecordsInv'
    <2>1. PICK j : j = [NoJob EXCEPT !.op = "pickup", !.table = "pickup", !.key = z]
      OBVIOUS
    <2>2. j \in Jobs /\ j.op = "pickup" /\ j.key = z
      BY <1>1, <2>1 DEF Jobs, Ops
    <2>3. JobFits("fee", j)
      BY <2>2 DEF JobFits
    <2>4. Begin(r, "fee", j) /\ "fee" \in Steps
      BY <1>2, <2>1 DEF CreatePickupRequest, Steps
    <2>5. QED
      BY <2>2, <2>3, <2>4, BeginInv
  <1>3. ASSUME NEW i \in Ids, NEW ask \in [active: BOOLEAN], UpdatePickupRequestStatus(r, i, ask)
        PROVE  RecordsInv'
    <2>1. PICK j : j = [JobOn("status", "pickup", i) EXCEPT !.ask = ask]
      OBVIOUS
    <2>2. <<i>> \in Seq(Ids) /\ ask \in Asks
      BY DEF Asks
    <2>3. j \in Jobs /\ j.op = "status" /\ j.table = "pickup" /\ j.ids # <<>> /\ j.ask = ask
      BY <1>1, <2>1, <2>2 DEF JobOn, Jobs, Ops
    <2>4. JobFits("delete", j)
      BY <2>3 DEF JobFits
    <2>5. Begin(r, "delete", j) /\ "delete" \in Steps
      BY <1>3, <2>1 DEF UpdatePickupRequestStatus, Steps
    <2>6. QED
      BY <2>3, <2>4, <2>5, BeginInv
  <1>4. QED
    BY <1>2, <1>3 DEF PickupRequest

\* An owner asks for one more outlet.
LEMMA OwnerCreateInv ==
    ASSUME RecordsInv, NEW r \in Requests, OwnerCreateOutlet(r)
    PROVE  RecordsInv'
  <1>1. PICK j : j = [NoJob EXCEPT !.op = "owner create", !.table = "outlet"]
    OBVIOUS
  <1>2. NoJob \in Jobs /\ NoJob.key = NoKey /\ "outlet" \in Tables
    BY NoJobFits DEF NoJob, Tables, Paged
  <1>3. j \in Jobs /\ j.op = "owner create" /\ j.table = "outlet" /\ j.key = NoKey
    BY <1>1, <1>2 DEF Jobs, Ops
  <1>4. JobFits("check", j)
    BY <1>3 DEF JobFits
  <1>5. Begin(r, "check", j) /\ "check" \in Steps
    BY <1>1 DEF OwnerCreateOutlet, Steps
  <1>6. QED
    BY <1>3, <1>4, <1>5, BeginInv

\* The requests on the other tables are edits, deletions, new rows and listings.
LEMMA PlainRequestInv ==
    ASSUME RecordsInv, NEW r \in Requests,
           \/ CategoryRequest(r) \/ TemplateRequest(r) \/ OutletRequest(r) \/ MethodRequest(r)
           \/ UserRequest(r) \/ CashierRequest(r) \/ TenantRequest(r) \/ ZoneRequest(r)
    PROVE  RecordsInv'
  <1>1. /\ {"category", "template", "outlet", "method", "user", "tenant", "zone"} \subseteq Edited
        /\ {"category", "template", "outlet", "method", "user", "tenant"} \subseteq Paged
        /\ {"user", "tenant"} \subseteq Keyed
    BY DEF Edited, Paged, Keyed
  <1>2. \A i \in Ids : [active |-> FALSE] \in Asks
    BY AsksGiven
  <1>3. CASE CategoryRequest(r)
    BY <1>1, <1>3, UpdatingInv, DeletingInv, CreatingInv, ListingInv
    DEF CategoryRequest, ListCategories, CreateCategory, UpdateCategory, DeleteCategory
  <1>4. CASE TemplateRequest(r)
    BY <1>1, <1>4, UpdatingInv, DeletingInv, CreatingInv, ListingInv
    DEF TemplateRequest, ListTemplates, CreateTemplate, UpdateTemplate, DeleteTemplate
  <1>5. CASE OutletRequest(r)
    BY <1>1, <1>5, UpdatingInv, DeletingInv, CreatingInv, ListingInv, OwnerCreateInv
    DEF OutletRequest, ListOutlets, CreateOutlet, UpdateOutlet, DeleteOutlet
  <1>6. CASE MethodRequest(r)
    BY <1>1, <1>6, UpdatingInv, DeletingInv, CreatingInv, ListingInv
    DEF MethodRequest, ListMethods, CreateMethod, UpdateMethod, DeleteMethod
  <1>7. CASE UserRequest(r)
    BY <1>1, <1>2, <1>7, UpdatingInv, CreatingKeyedInv, ListingInv
    DEF UserRequest, ListUsers, CreateUser, UpdateUser, DeleteUser
  <1>8. CASE CashierRequest(r)
    BY <1>1, <1>8, UpdatingInv, CreatingKeyedInv, ListingInv
    DEF CashierRequest, ListCashiers, CreateUser, UpdateUser
  <1>9. CASE TenantRequest(r)
    BY <1>1, <1>9, UpdatingInv, DeletingInv, CreatingKeyedInv, ListingInv
    DEF TenantRequest, ListTenants, CreateTenant, UpdateTenant, DeleteTenant
  <1>10. CASE ZoneRequest(r)
    BY <1>1, <1>10, UpdatingInv, DeletingInv, CreatingInv
    DEF ZoneRequest, CreateZone, UpdateZone, DeleteZone
  <1>11. QED
    BY <1>3, <1>4, <1>5, <1>6, <1>7, <1>8, <1>9, <1>10

-----------------------------------------------------------------------------
(***************************************************************************)
(* Statements that write.                                                  *)
(***************************************************************************)
\* The key of x is at most that of the row that it is written over, as far as
\* tables and open transactions go.
KeyFree(r, t, i, x) ==
    t \in Keyed /\ x \in Rows =>
        /\ \A j \in Ids : row[t][j] \in Rows /\ row[t][j].key = x.key => i = j
        /\ \A q \in Requests \ {r}, j \in Ids :
              work[q][t][j] \in Rows /\ work[q][t][j].key = x.key => i = j

\* One row is written by a request that had written nothing.
LEMMA WriteInv ==
    ASSUME RecordsInv, NEW r \in Requests, NEW to \in Steps, NEW t \in Tables, NEW i \in Ids,
           NEW x \in Stored, Write(r, to, t, i, x),
           work[r] = NoWork, to \in {"done", "flag"}, JobFits(to, job[r]),
           ~Held(r, t, i), WriteFits(t, i, x), AsAsked(job[r], t, i, x), KeyFree(r, t, i, x),
           t = "flag" => x # Gone,
           t = "override" => \A q \in Requests \ {r} : work[q]["flag"][i] # Gone,
           job[r].op = "owner create" => t = "outlet" /\ pc[r] = "insert"
    PROVE  RecordsInv'
  <1> DEFINE w == work'[r]
  <1>1. Shapes /\ work \in [Requests -> Works] /\ job \in [Requests -> Jobs] /\ pc \in [Requests -> Steps]
    BY DEF RecordsInv, Shapes
  <1>2. /\ w \in Works /\ w[t][i] = x
        /\ \A u \in Tables, k \in Ids : u # t \/ k # i => w[u][k] = Unwritten
    BY <1>1, Blank DEF Write, Works
  <1>3. \A q \in Requests \ {r} : work'[q] = work[q]
    BY <1>1 DEF Write
  <1>4. Shapes' /\ pc'[r] = to /\ job' = job
    <2>1. work' \in [Requests -> Works]
      BY <1>1, <1>2, <1>3 DEF Write
    <2>2. pc' \in [Requests -> Steps] /\ pc'[r] = to /\ job' = job
      BY <1>1 DEF Write
    <2>3. \A q \in Requests : pc'[q] = "merge" => job'[q].read \in Rows
      BY <1>1 DEF Write, Shapes
    <2>4. QED
      BY <1>1, <2>1, <2>2, <2>3 DEF Shapes
  <1>5. OnlyOf(r)
    BY <1>1, <1>3 DEF Write, OnlyOf, RecordsInv, RecordsTypeOK
  <1>6. Unwritten \notin Stored /\ Unwritten \notin Rows /\ Gone # Unwritten
    BY Marks DEF Stored
  <1>7. WritesWell(r)
    <2>1. \A u \in Tables, k \in Ids :
             w[u][k] # Unwritten => \A q \in Requests \ {r} : work[q][u][k] = Unwritten
      BY <1>2 DEF Held
    <2>2. \A u \in Keyed, k \in Ids :
             w[u][k] \in Rows =>
                 /\ \A j \in Ids : row[u][j] \in Rows /\ row[u][j].key = w[u][k].key => k = j
                 /\ \A q \in Requests, j \in Ids :
                       work'[q][u][j] \in Rows /\ work'[q][u][j].key = w[u][k].key => k = j
      <3> SUFFICES ASSUME NEW u \in Keyed, NEW k \in Ids, w[u][k] \in Rows
                   PROVE  /\ \A j \in Ids : row[u][j] \in Rows /\ row[u][j].key = w[u][k].key => k = j
                          /\ \A q \in Requests, j \in Ids :
                                work'[q][u][j] \in Rows /\ work'[q][u][j].key = w[u][k].key => k = j
        OBVIOUS
      <3>1. u = t /\ k = i /\ w[u][k] = x
        BY <1>2, <1>6, InTables
      <3>2. \A j \in Ids : w[u][j] \in Rows => j = i
        BY <1>2, <1>6, <3>1
      <3> HIDE DEF w
      <3>3. QED
        BY <1>3, <3>1, <3>2 DEF KeyFree, w
    <2>3. \A k \in Ids : w["flag"][k] # Gone
      BY <1>2, <1>6, InTables
    <2>4. \A k \in Ids : w["override"][k] # Unwritten => t = "override" /\ k = i
      BY <1>2, InTables
    <2>5. QED
      BY <2>1, <2>2, <2>3, <2>4 DEF WritesWell
  <1>8. JobFits(pc[r], job[r])'
    <2>1. PICK j : j = job[r]
      OBVIOUS
    <2>2. QED
      BY <1>4, <2>1, JobStays DEF Write
  <1>9. WorkFits(pc[r], job[r], work[r])'
    <2>1. PICK j : j = job[r]
      OBVIOUS
    <2>2. PICK v : v = work'[r]
      OBVIOUS
    <2>3. \A u \in Tables, k \in Ids : v[u][k] # Unwritten => u = t /\ k = i /\ v[u][k] = x
      BY <1>2, <2>2
    <2>4. WriteFits(t, i, x)'
      BY DEF WriteFits, Write
    <2>5. AsAsked(j, t, i, x)'
      BY <2>1 DEF AsAsked, Write
    <2>6. \A u \in Tables, k \in Ids : v[u][k] # Unwritten =>
             WriteFits(u, k, work[r][u][k])' /\ AsAsked(job[r], u, k, work[r][u][k])'
      <3> SUFFICES ASSUME NEW u \in Tables, NEW k \in Ids, v[u][k] # Unwritten
                   PROVE  WriteFits(u, k, work[r][u][k])' /\ AsAsked(job[r], u, k, work[r][u][k])'
        OBVIOUS
      <3>1. u = t /\ k = i /\ work'[r][u][k] = x /\ job'[r] = j
        BY <1>4, <2>1, <2>2, <2>3
      <3>2. WriteFits(u, k, work[r][u][k])'
        BY <2>4, <3>1 DEF WriteFits
      <3>3. AsAsked(job[r], u, k, work[r][u][k])'
        BY <2>5, <3>1 DEF AsAsked
      <3>4. QED
        BY <3>2, <3>3
    <2>7. \A k \in Ids : v["flag"][k] # Gone
      BY <1>6, <2>3, InTables
    <2>8. job'[r].op = "owner create" => OneOutlet(work[r])'
      BY <1>4, <2>2, <2>3 DEF OneOutlet
    <2>9. pc'[r] \in {"done", "flag"}
      BY <1>4
    <2>10. QED
      BY <2>2, <2>6, <2>7, <2>8, <2>9 DEF WorkFits
  <1>10. r \in Coming' => r \in Coming
    BY <1>4 DEF Coming
  <1>11. QED
    BY <1>4, <1>5, <1>7, <1>8, <1>9, <1>10, StepInv

\* The fields that are given replace those that were read, the key among those
\* that are never given.
LEMMA MergedFits ==
    ASSUME NEW ask \in Asks, NEW read \in Rows
    PROVE  /\ Merged(ask, read) \in Rows
           /\ Merged(ask, read).key = read.key
           /\ \A c \in {"data", "active"} : c \notin DOMAIN ask => Merged(ask, read)[c] = read[c]
  <1>1. /\ read \in [{"key", "data", "active"} -> UNION {{NoKey} \cup Keys \cup Ids, 0 .. 1, BOOLEAN}]
        /\ DOMAIN read = {"key", "data", "active"}
        /\ read.key \in {NoKey} \cup Keys \cup Ids /\ read.data \in 0 .. 1 /\ read.active \in BOOLEAN
    BY DEF Rows
  <1>2. \/ DOMAIN ask = {"data"} /\ ask.data \in 0 .. 1
        \/ DOMAIN ask = {"active"} /\ ask.active \in BOOLEAN
    BY DEF Asks
  <1>3. Merged(ask, read) = [c \in {"key", "data", "active"} |->
                                IF c \in DOMAIN ask THEN ask[c] ELSE read[c]]
    BY <1>1, <1>2 DEF Merged
  <1>4. QED
    BY <1>1, <1>2, <1>3 DEF Rows

-----------------------------------------------------------------------------
(***************************************************************************)
(* The steps of a request.                                                 *)
(***************************************************************************)
\* What is known of a request at any of its steps.
LEMMA AtStep ==
    ASSUME RecordsInv, NEW r \in Requests
    PROVE  /\ pc[r] \in Steps /\ job[r] \in Jobs /\ work[r] \in Works
           /\ JobFits(pc[r], job[r]) /\ WorkFits(pc[r], job[r], work[r])
           /\ pc[r] = "merge" => job[r].read \in Rows
           /\ pc[r] \notin {"upsert", "flag", "done"} => work[r] = NoWork
           /\ \A t \in Tables, i \in Ids : row[t][i] \in Stored
  <1>1. row \in [Tables -> [Ids -> Stored]]
    BY DEF RecordsInv, RecordsTypeOK, Stored
  <1>2. JobFits(pc[r], job[r]) /\ WorkFits(pc[r], job[r], work[r])
    BY DEF RecordsInv
  <1>3. pc[r] \notin {"upsert", "flag", "done"} => work[r] = NoWork
    BY <1>2 DEF WorkFits
  <1>4. QED
    BY <1>1, <1>2, <1>3 DEF RecordsInv, Shapes

\* The id that a request is about.
LEMMA FirstId ==
    ASSUME NEW r \in Requests, job[r] \in Jobs, job[r].ids # <<>>
    PROVE  Id(r) \in Ids
  <1>1. PICK ids : ids = job[r].ids
    OBVIOUS
  <1>2. ids \in Seq(Ids) /\ ids # <<>>
    BY <1>1 DEF Jobs
  <1>3. Head(ids) \in Ids
    BY <1>2
  <1>4. QED
    BY <1>1, <1>3 DEF Id

\* A job that is over fits, unless it is a listing or sets prices.
LEMMA DoneFits ==
    ASSUME NEW j, j.op # "list", j.op # "price",
           j.op = "update" => j.table \in Edited /\ j.ids # <<>>
    PROVE  JobFits("done", j)
  BY DEF JobFits

\* The SELECT of an edit finds a row that stays, with its key.
LEMMA ReadRowInv ==
    ASSUME RecordsInv, NEW r \in Requests, ReadRow(r)
    PROVE  RecordsInv'
  <1>1. pc[r] = "read"
    BY DEF ReadRow
  <1>2. /\ job[r] \in Jobs /\ work[r] = NoWork
        /\ job[r].op = "update" /\ job[r].table \in Edited /\ job[r].ids # <<>>
    BY <1>1, AtStep DEF JobFits
  <1>3. PICK i \in Ids, t \in Tables : i = Id(r) /\ t = Table(r) /\ t \in Edited
    BY <1>2, FirstId, InTables DEF Table
  <1>4. PICK x \in Stored : x = row[t][i]
    BY AtStep
  <1>5. PICK j : j = [job[r] EXCEPT !.read = x]
    OBVIOUS
  <1>6. /\ j \in Jobs /\ j.op = "update" /\ j.table = t /\ j.ids = job[r].ids
        /\ Head(j.ids) = i /\ j.read = x /\ j.ids # <<>>
    BY <1>2, <1>3, <1>5 DEF Jobs, Id, Table
  <1>7. CASE x \in Rows
    <2>1. Go(r, "merge", j) /\ "merge" \in Steps
      BY <1>3, <1>4, <1>5, <1>7, Marks DEF ReadRow, Steps
    <2>2. row[j.table][Head(j.ids)] = x /\ x # Absent
      BY <1>4, <1>6, <1>7, Marks
    <2>3. JobFits("merge", j)
      BY <1>3, <1>6, <2>2 DEF JobFits
    <2>4. QED
      BY <1>2, <1>6, <1>7, <2>1, <2>3, GoInv
  <1>8. CASE x \notin Rows
    <2>1. Go(r, "done", j) /\ "done" \in Steps
      BY <1>3, <1>4, <1>5, <1>8, Marks DEF ReadRow, Steps
    <2>2. JobFits("done", j)
      BY <1>3, <1>6, DoneFits
    <2>3. QED
      BY <1>2, <1>6, <2>1, <2>2, GoInv
  <1>9. QED
    BY <1>7, <1>8

\* A row that is there, written again with its key: nobody has that key.
LEMMA KeyOfItsOwn ==
    ASSUME RecordsInv, NEW r \in Requests, NEW t \in Tables, NEW i \in Ids, NEW x,
           row[t][i] \in Rows, row[t][i].key = x.key
    PROVE  KeyFree(r, t, i, x)
  <1> SUFFICES ASSUME t \in Keyed
               PROVE  /\ \A j \in Ids : row[t][j] \in Rows /\ row[t][j].key = x.key => i = j
                      /\ \A q \in Requests \ {r}, j \in Ids :
                            work[q][t][j] \in Rows /\ work[q][t][j].key = x.key => i = j
    BY DEF KeyFree
  <1>1. \A j \in Ids : row[t][j] \in Rows => Exists(row[t][j])
    BY Marks DEF Stored
  <1>2. \A j \in Ids : row[t][j] \in Rows /\ row[t][j].key = x.key => i = j
    BY <1>1 DEF RecordsInv, KeysUnique
  <1>3. \A q \in Requests \ {r}, j \in Ids :
           work[q][t][j] \in Rows /\ work[q][t][j].key = x.key => i = j
    BY DEF RecordsInv, KeysApart
  <1>4. QED
    BY <1>2, <1>3

\* The UPDATE of an edit writes the key that the row has.
LEMMA MergeRowInv ==
    ASSUME RecordsInv, NEW r \in Requests, MergeRow(r)
    PROVE  RecordsInv'
  <1>1. pc[r] = "merge"
    BY DEF MergeRow
  <1>2. PICK j \in Jobs : j = job[r]
    BY AtStep
  <1>3. /\ work[r] = NoWork /\ JobFits("merge", j) /\ j.read \in Rows
        /\ j.op = "update" /\ j.table \in Edited /\ j.ids # <<>>
    BY <1>1, <1>2, AtStep DEF JobFits
  <1>4. PICK i \in Ids, t \in Tables : i = Id(r) /\ t = Table(r) /\ t \in Edited
    BY <1>2, <1>3, FirstId, InTables DEF Table
  <1>5. i = Head(j.ids) /\ t = j.table
    BY <1>2, <1>4 DEF Id, Table
  <1>6. JobFits("done", j) /\ "done" \in Steps
    BY <1>3, DoneFits DEF Steps
  <1>7. CASE row[t][i] \notin Rows
    <2>1. Go(r, "done", j)
      BY <1>2, <1>4, <1>7, AtStep, Marks DEF MergeRow
    <2>2. QED
      BY <1>3, <1>6, <2>1, GoInv
  <1>8. CASE row[t][i] \in Rows
    <2>1. PICK x : x = Merged(j.ask, j.read)
      OBVIOUS
    <2>2. j.ask \in Asks
      BY DEF Jobs
    <2>3. x \in Rows /\ x.key = j.read.key
      BY <1>3, <2>1, <2>2, MergedFits
    <2>4. x.key = row[t][i].key /\ x \in Stored
      BY <1>3, <1>5, <1>8, <2>3 DEF JobFits, Stored
    <2>5. Write(r, "done", t, i, x) /\ ~Held(r, t, i)
      BY <1>2, <1>4, <1>8, <2>1, AtStep, Marks DEF MergeRow
    <2>6. WriteFits(t, i, x)
      BY <1>4, <1>8, <2>3, <2>4, InTables, Marks DEF WriteFits
    <2>7. AsAsked(j, t, i, x)
      BY <1>4, <2>1, InTables DEF AsAsked
    <2>8. KeyFree(r, t, i, x)
      BY <1>8, <2>4, KeyOfItsOwn
    <2>9. x # Gone /\ t # "override"
      BY <1>4, <2>3, InTables, Marks
    <2>10. QED
      BY <1>2, <1>3, <1>6, <2>4, <2>5, <2>6, <2>7, <2>8, <2>9, WriteInv
  <1>9. QED
    BY <1>7, <1>8

\* A deletion, and a status of a pickup, change the mark alone.
LEMMA SetActiveInv ==
    ASSUME RecordsInv, NEW r \in Requests, SetActive(r)
    PROVE  RecordsInv'
  <1>1. pc[r] = "delete"
    BY DEF SetActive
  <1>2. PICK j \in Jobs : j = job[r]
    BY AtStep
  <1>3. /\ work[r] = NoWork /\ j.op \in {"delete", "status"}
        /\ j.table \in Edited \cup {"pickup"} /\ j.ids # <<>> /\ j.ask \in [active: BOOLEAN]
    BY <1>1, <1>2, AtStep DEF JobFits
  <1>4. PICK i \in Ids, t \in Tables : i = Id(r) /\ t = Table(r) /\ t \in Edited \cup {"pickup"}
    BY <1>2, <1>3, FirstId, InTables DEF Table
  <1>5. JobFits("done", j) /\ "done" \in Steps
    BY <1>3, DoneFits DEF Steps
  <1>6. CASE row[t][i] \notin Rows
    <2>1. Go(r, "done", j)
      BY <1>2, <1>4, <1>6, AtStep, Marks DEF SetActive
    <2>2. QED
      BY <1>3, <1>5, <2>1, GoInv
  <1>7. CASE row[t][i] \in Rows
    <2>1. PICK x : x = [row[t][i] EXCEPT !.active = j.ask.active]
      OBVIOUS
    <2>2. x \in Rows /\ x.key = row[t][i].key /\ x.data = row[t][i].data /\ x \in Stored
      BY <1>3, <1>7, <2>1 DEF Rows, Stored
    <2>3. Write(r, "done", t, i, x) /\ ~Held(r, t, i)
      BY <1>2, <1>4, <1>7, <2>1, AtStep, Marks DEF SetActive
    <2>4. t = "pickup" => x.key \in Ids /\ x.data \in listed[x.key]
      BY <1>7, <2>2 DEF RecordsInv, RowFits
    <2>5. WriteFits(t, i, x)
      BY <1>4, <1>7, <2>2, <2>4, InTables, Marks DEF WriteFits
    <2>6. AsAsked(j, t, i, x)
      BY <1>3, <1>4, InTables DEF AsAsked
    <2>7. KeyFree(r, t, i, x)
      BY <1>7, <2>2, KeyOfItsOwn
    <2>8. x # Gone /\ t # "override"
      BY <1>4, <2>2, InTables, Marks
    <2>9. QED
      BY <1>2, <1>3, <1>5, <2>2, <2>3, <2>5, <2>6, <2>7, <2>8, WriteInv
  <1>8. QED
    BY <1>6, <1>7

\* The id of a new row is one that no row has.
LEMMA FreshUnused ==
    ASSUME NEW t, Unused(t) # {}
    PROVE  Fresh(t) \in Unused(t)
  <1> DEFINE R == OpToRel(<, Nat)
  <1>1. Unused(t) \subseteq Nat
    BY IdsAssumption DEF Unused
  <1>2. \E i \in Unused(t) : \A j \in Unused(t) : <<j, i>> \notin R
    <2>1. IsWellFoundedOn(R, Nat)
      BY NatLessThanWellFounded
    <2> HIDE DEF R
    <2>2. QED
      BY <1>1, <2>1, WFMin
  <1>3. PICK i \in Unused(t) : \A j \in Unused(t) : ~(j < i)
    BY <1>1, <1>2 DEF OpToRel
  <1>4. \A j \in Unused(t) : i <= j
    BY <1>1, <1>3
  <1>5. QED
    BY <1>4 DEF Fresh

\* A key is found free or taken, and nothing is written.
LEMMA CheckKeyInv ==
    ASSUME RecordsInv, NEW r \in Requests, CheckKey(r)
    PROVE  RecordsInv'
  <1>1. pc[r] = "check" /\ job[r].op = "create"
    BY DEF CheckKey
  <1>2. PICK j \in Jobs : j = job[r]
    BY AtStep
  <1>3. work[r] = NoWork /\ j.op = "create" /\ j.table \in Keyed /\ j.key \in Keys
    BY <1>1, <1>2, AtStep DEF JobFits
  <1>4. PICK to : to = IF KeyTaken(Table(r), job[r].key) THEN "done" ELSE "insert"
    OBVIOUS
  <1>5. to \in Steps /\ to \in {"done", "insert"}
    BY <1>4 DEF Steps
  <1>6. Go(r, to, j)
    BY <1>2, <1>4 DEF CheckKey
  <1>7. JobFits(to, j)
    BY <1>3, <1>5, InTables DEF JobFits
  <1>8. to # "merge" /\ j.op # "owner create"
    BY <1>3, <1>5
  <1>9. QED
    BY <1>3, <1>5, <1>6, <1>7, <1>8, GoInv

\* Room for one more outlet is found while the plan is not used up.
LEMMA CheckOutletLimitInv ==
    ASSUME RecordsInv, NEW r \in Requests, CheckOutletLimit(r)
    PROVE  RecordsInv'
  <1>1. pc[r] = "check" /\ job[r].op = "owner create"
    BY DEF CheckOutletLimit
  <1>2. PICK j \in Jobs : j = job[r]
    BY AtStep
  <1>3. work[r] = NoWork /\ j.op = "owner create" /\ j.table = "outlet" /\ j.key = NoKey
    BY <1>1, <1>2, AtStep DEF JobFits
  <1>4. PICK to : to = IF Cardinality({i \in Ids : row["outlet"][i].active}) >= MaxOutlets
                       THEN "done" ELSE "insert"
    OBVIOUS
  <1>5. to \in Steps /\ to \in {"done", "insert"}
    BY <1>4 DEF Steps
  <1>6. Go(r, to, j)
    BY <1>2, <1>4 DEF CheckOutletLimit
  <1>7. JobFits(to, j)
    BY <1>3, <1>5 DEF JobFits
  <1>8. to = "insert" => Cardinality(Used) < MaxOutlets
    <2> DEFINE open == {i \in Ids : row["outlet"][i].active}
    <2>1. IsFiniteSet(open) /\ Cardinality(open) \in Nat
      BY IdsAssumption, FS_Subset, FS_CardinalityType
    <2>2. Used \subseteq open
      BY DEF Used
    <2>3. Cardinality(Used) <= Cardinality(open) /\ Cardinality(Used) \in Nat
      BY <2>1, <2>2, FS_Subset, FiniteOnes
    <2>4. to = "insert" => ~(Cardinality(open) >= MaxOutlets)
      BY <1>4
    <2> HIDE DEF open
    <2>5. QED
      BY <2>1, <2>3, <2>4, OutletsAssumption
  <1>9. to # "merge"
    BY <1>5
  <1>10. QED
    BY <1>3, <1>5, <1>6, <1>7, <1>8, <1>9, GoInv

\* A listing counts rows that stay.
LEMMA CountRowsInv ==
    ASSUME RecordsInv, NEW r \in Requests, CountRows(r)
    PROVE  RecordsInv'
  <1>1. pc[r] = "count"
    BY DEF CountRows
  <1>2. work[r] = NoWork /\ job[r] \in Jobs /\ job[r].op = "list" /\ job[r].table \in Paged
    BY <1>1, AtStep DEF JobFits
  <1>3. {i \in Ids : Exists(row[Table(r)][i])} = Existing(Table(r))
    BY <1>2, AtStep, InTables, Marks DEF Existing, Table
  <1>4. PICK n : n = Cardinality(Existing(Table(r)))
    OBVIOUS
  <1>5. n \in Nat
    BY <1>4, IdsAssumption, FS_Subset, FS_CardinalityType DEF Existing
  <1>6. PICK j : j = [job[r] EXCEPT !.total = n]
    OBVIOUS
  <1>7. j \in Jobs /\ j.op = "list" /\ j.table = Table(r) /\ j.table \in Paged /\ j.total = n
    BY <1>2, <1>5, <1>6 DEF Jobs, Table
  <1>8. Go(r, "page", j) /\ "page" \in Steps
    BY <1>3, <1>4, <1>6 DEF CountRows, Steps
  <1>9. j.total <= Cardinality(Existing(j.table))
    BY <1>4, <1>5, <1>7
  <1>10. JobFits("page", j)
    BY <1>7, <1>9 DEF JobFits
  <1>11. QED
    BY <1>2, <1>7, <1>8, <1>10, GoInv

\* The page has every row that was counted.
LEMMA ReadPageInv ==
    ASSUME RecordsInv, NEW r \in Requests, ReadPage(r)
    PROVE  RecordsInv'
  <1>1. pc[r] = "page"
    BY DEF ReadPage
  <1>2. /\ work[r] = NoWork /\ job[r] \in Jobs /\ job[r].op = "list" /\ job[r].table \in Paged
        /\ job[r].total <= Cardinality(Existing(Table(r)))
    BY <1>1, AtStep DEF JobFits, Table
  <1>3. {i \in Ids : Exists(row[Table(r)][i])} = Existing(Table(r))
    BY <1>2, AtStep, InTables, Marks DEF Existing, Table
  <1>4. PICK p : p = Existing(Table(r))
    OBVIOUS
  <1>5. PICK j : j = [job[r] EXCEPT !.page = p]
    OBVIOUS
  <1>6. p \subseteq Ids
    BY <1>4 DEF Existing
  <1>7. j \in Jobs /\ j.op = "list" /\ j.total = job[r].total /\ j.page = p
    BY <1>2, <1>5, <1>6 DEF Jobs
  <1>8. Go(r, "done", j) /\ "done" \in Steps
    BY <1>3, <1>4, <1>5 DEF ReadPage, Steps
  <1>9. JobFits("done", j)
    BY <1>2, <1>4, <1>7 DEF JobFits
  <1>10. QED
    BY <1>2, <1>7, <1>8, <1>9, GoInv

\* A page that was cut off is not one of a request that commits.
LEMMA PageCutOffInv ==
    ASSUME RecordsInv, NEW r \in Requests, PageCutOff(r)
    PROVE  RecordsInv'
  <1>1. pc[r] = "page"
    BY DEF PageCutOff
  <1>2. work[r] = NoWork /\ job[r] \in Jobs
    BY <1>1, AtStep
  <1>3. PICK p \in SUBSET Ids : Go(r, "failed", [job[r] EXCEPT !.page = p])
    BY DEF PageCutOff
  <1>4. PICK j : j = [job[r] EXCEPT !.page = p]
    OBVIOUS
  <1>5. j \in Jobs
    BY <1>2, <1>4 DEF Jobs
  <1>6. Go(r, "failed", j) /\ "failed" \in Steps
    BY <1>3, <1>4 DEF Steps
  <1>7. JobFits("failed", j)
    BY DEF JobFits
  <1>8. QED
    BY <1>2, <1>5, <1>6, <1>7, GoInv

\* The fee of a zone in use is one that the zone has had.
LEMMA GetZoneFeeInv ==
    ASSUME RecordsInv, NEW r \in Requests, GetZoneFee(r)
    PROVE  RecordsInv'
  <1>1. pc[r] = "fee"
    BY DEF GetZoneFee
  <1>2. work[r] = NoWork /\ job[r] \in Jobs /\ job[r].op = "pickup" /\ job[r].key \in Ids
    BY <1>1, AtStep DEF JobFits
  <1>3. PICK z \in Ids : z = job[r].key
    BY <1>2
  <1>4. "zone" \in Tables
    BY DEF Tables
  <1>5. PICK x \in Stored : x = row["zone"][z]
    BY <1>4, AtStep
  <1>6. PICK j : j = [job[r] EXCEPT !.read = x]
    OBVIOUS
  <1>7. j \in Jobs /\ j.op = "pickup" /\ j.key = z /\ j.read = x
    BY <1>2, <1>3, <1>6 DEF Jobs
  <1>8. PICK to : to = IF x # Absent /\ x.active THEN "insert" ELSE "done"
    OBVIOUS
  <1>9. Go(r, to, j)
    BY <1>3, <1>5, <1>6, <1>8 DEF GetZoneFee
  <1>10. to \in Steps /\ to \in {"insert", "done"}
    BY <1>8 DEF Steps
  <1>11. to = "insert" => x \in Rows /\ x.data \in listed[z]
    <2>1. x.active => x.data \in listed[z]
      BY <1>4, <1>5 DEF RecordsInv, RowFits
    <2>2. to = "insert" => x # Absent /\ x.active
      BY <1>8
    <2>3. QED
      BY <2>1, <2>2, Marks DEF Stored
  <1>12. JobFits(to, j)
    BY <1>7, <1>10, <1>11 DEF JobFits
  <1>13. to # "merge" /\ j.op # "owner create"
    BY <1>7, <1>10
  <1>14. QED
    BY <1>2, <1>7, <1>9, <1>10, <1>12, <1>13, GoInv

\* A failed statement leaves nothing.
LEMMA BreakInv ==
    ASSUME RecordsInv, NEW r \in Requests, Break(r)
    PROVE  RecordsInv'
  <1>1. PICK j \in Jobs : j = job[r]
    BY AtStep
  <1>2. Shapes /\ "failed" \in Steps
    BY DEF RecordsInv, Steps
  <1>3. job' = [job EXCEPT ![r] = j]
    BY <1>1, <1>2 DEF Break, Shapes
  <1>4. Shapes' /\ pc'[r] = "failed" /\ job'[r] = j /\ work'[r] = NoWork
    BY <1>2, <1>3, ShapesKept, Blank DEF Break
  <1>5. OnlyOf(r)
    BY <1>2 DEF Break, OnlyOf, Shapes, RecordsInv, RecordsTypeOK
  <1>6. JobFits(pc[r], job[r])'
    BY <1>4 DEF JobFits
  <1>7. WorkFits(pc[r], job[r], work[r])'
    BY <1>4, Blank, BlankFits DEF WorkFits
  <1>8. r \notin Coming'
    BY <1>4 DEF Coming
  <1>9. QED
    BY <1>4, <1>5, <1>6, <1>7, <1>8, QuietInv

\* A new row has an id of its own and, in a keyed table, a key of its own.
LEMMA InsertRowInv ==
    ASSUME RecordsInv, NEW r \in Requests, InsertRow(r)
    PROVE  RecordsInv'
  <1>1. pc[r] = "insert" /\ job[r].op # "pickup"
    BY DEF InsertRow
  <1>2. PICK j \in Jobs : j = job[r]
    BY AtStep
  <1>3. /\ work[r] = NoWork /\ j.table \in Edited /\ j.key \in {NoKey} \cup Keys
        /\ j.op \in {"create", "owner create"}
        /\ j.op = "owner create" => j.table = "outlet"
    <2>1. work[r] = NoWork /\ JobFits("insert", j)
      BY <1>1, <1>2, AtStep
    <2>2. "outlet" \in Edited
      BY DEF Edited, Paged
    <2>3. QED
      BY <1>1, <1>2, <2>1, <2>2 DEF JobFits
  <1>4. PICK t \in Tables : t = Table(r) /\ t = j.table
    BY <1>2, <1>3, InTables DEF Table
  <1>5. CASE t \in Keyed /\ KeyTaken(t, j.key)
    BY <1>2, <1>4, <1>5, BreakInv DEF InsertRow
  <1>6. CASE ~(t \in Keyed /\ KeyTaken(t, j.key))
    <2>1. PICK i \in Ids : i = Fresh(t) /\ row[t][i] = Absent
                           /\ \A q \in Requests : work[q][t][i] = Unwritten
      BY <1>4, FreshUnused DEF InsertRow, Unused
    <2>2. PICK x : x = [key |-> j.key, data |-> 0, active |-> TRUE]
      OBVIOUS
    <2>3. x \in Rows /\ x \in Stored /\ x.key = j.key
      <3>1. j.key \in {NoKey} \cup Keys \cup Ids
        BY <1>3
      <3>2. QED
        BY <2>2, <3>1 DEF Rows, Stored
    <2>4. Write(r, "done", t, i, x) /\ "done" \in Steps
      BY <1>2, <1>4, <1>6, <2>1, <2>2 DEF InsertRow, Steps
    <2>5. ~Held(r, t, i)
      BY <2>1 DEF Held
    <2>6. WriteFits(t, i, x)
      BY <1>3, <1>4, <2>1, <2>3, InTables, Marks DEF WriteFits
    <2>7. AsAsked(j, t, i, x)
      BY <1>3, <1>4, InTables DEF AsAsked
    <2>8. KeyFree(r, t, i, x)
      <3> SUFFICES ASSUME t \in Keyed
                   PROVE  /\ \A k \in Ids : ~(row[t][k] \in Rows /\ row[t][k].key = x.key)
                          /\ \A q \in Requests \ {r}, k \in Ids :
                                ~(work[q][t][k] \in Rows /\ work[q][t][k].key = x.key)
        BY DEF KeyFree
      <3>1. \A k \in Ids : ~(row[t][k] \in Rows /\ row[t][k].key = x.key)
        BY <1>6, <2>3, Marks DEF KeyTaken, Stored
      <3>2. ~KeyHeld(r, t, j.key)
        BY <1>2, <1>4 DEF InsertRow
      <3>3. \A q \in Requests \ {r}, k \in Ids :
               ~(work[q][t][k] \in Rows /\ work[q][t][k].key = x.key)
        BY <2>3, <3>2, Marks DEF KeyHeld, Stored
      <3>4. QED
        BY <3>1, <3>3
    <2>9. x # Gone /\ t # "override"
      BY <1>3, <1>4, <2>3, InTables, Marks
    <2>10. JobFits("done", j)
      BY <1>3, DoneFits
    <2>11. QED
      BY <1>1, <1>2, <1>3, <1>4, <2>3, <2>4, <2>5, <2>6, <2>7, <2>8, <2>9, <2>10, WriteInv
  <1>7. QED
    BY <1>5, <1>6

\* A pickup takes the fee that was read.
LEMMA InsertPickupInv ==
    ASSUME RecordsInv, NEW r \in Requests, InsertPickup(r)
    PROVE  RecordsInv'
  <1>1. pc[r] = "insert" /\ job[r].op = "pickup"
    BY DEF InsertPickup
  <1>2. PICK j \in Jobs : j = job[r]
    BY AtStep
  <1>3. /\ work[r] = NoWork /\ j.op = "pickup" /\ j.key \in Ids
        /\ j.read \in Rows /\ j.read.data \in listed[j.key]
    BY <1>1, <1>2, AtStep DEF JobFits
  <1>4. PICK t : t = "pickup"
    OBVIOUS
  <1>5. t \in Tables
    BY <1>4, InTables
  <1>6. PICK i \in Ids : i = Fresh(t) /\ row[t][i] = Absent
                         /\ \A q \in Requests : work[q][t][i] = Unwritten
    BY <1>4, FreshUnused DEF InsertPickup, Unused
  <1>7. PICK x : x = [key |-> j.key, data |-> j.read.data, active |-> TRUE]
    OBVIOUS
  <1>8. x \in Rows /\ x \in Stored /\ x.key = j.key /\ x.data = j.read.data
    BY <1>3, <1>7 DEF Rows, Stored
  <1>9. Write(r, "done", t, i, x) /\ "done" \in Steps
    BY <1>2, <1>4, <1>6, <1>7 DEF InsertPickup, Steps
  <1>10. ~Held(r, t, i)
    BY <1>6 DEF Held
  <1>11. WriteFits(t, i, x)
    BY <1>3, <1>4, <1>8, InTables, Marks DEF WriteFits
  <1>12. AsAsked(j, t, i, x)
    BY <1>3, <1>4 DEF AsAsked
  <1>13. KeyFree(r, t, i, x)
    BY <1>4, InTables DEF KeyFree
  <1>14. JobFits("done", j)
    BY <1>3, DoneFits
  <1>15. t # "flag" /\ t # "override" /\ j.op # "owner create"
    BY <1>3, <1>4
  <1>16. QED
    BY <1>2, <1>3, <1>5, <1>8, <1>9, <1>10, <1>11, <1>12, <1>13, <1>14, <1>15, WriteInv

\* A mark keeps the price that there is.
LEMMA SetQuickAddInv ==
    ASSUME RecordsInv, NEW r \in Requests, SetQuickAdd(r)
    PROVE  RecordsInv'
  <1>1. pc[r] = "upsert" /\ job[r].op = "quick add"
    BY DEF SetQuickAdd
  <1>2. PICK j \in Jobs : j = job[r]
    BY AtStep
  <1>3. /\ j.op = "quick add" /\ j.ids # <<>> /\ work[r] = NoWork
        /\ j.ask \in [active: BOOLEAN]
    BY <1>1, <1>2, AtStep DEF JobFits, WorkFits
  <1>4. PICK i \in Ids : i = Id(r)
    BY <1>2, <1>3, FirstId
  <1>5. PICK t : t = "price"
    OBVIOUS
  <1>6. t \in Tables /\ "template" \in Tables
    BY <1>5, InTables DEF Tables, Paged
  <1>7. CASE ~Exists(row["template"][i])
    BY <1>4, <1>7, BreakInv DEF SetQuickAdd
  <1>8. CASE Exists(row["template"][i])
    <2>1. row["template"][i] \in Rows
      BY <1>6, <1>8, AtStep, Marks
    <2>2. PICK x : x = [key |-> NoKey, active |-> j.ask.active,
                        data |-> IF row[t][i] = Absent THEN row["template"][i].data
                                                       ELSE row[t][i].data]
      OBVIOUS
    <2>3. row[t][i] = Absent \/ row[t][i] \in Rows
      <3>1. row[t][i] \in Stored /\ row[t][i] # Gone
        BY <1>5, <1>6, AtStep DEF RecordsInv, RowFits
      <3>2. QED
        BY <3>1 DEF Stored
    <2>4. j.ask.active \in BOOLEAN
      BY <1>3
    <2>5. x \in Rows /\ x \in Stored
      BY <2>1, <2>2, <2>3, <2>4 DEF Rows, Stored
    <2>6. row[t][i] \in Rows => x.data = row[t][i].data
      BY <2>2, Marks
    <2>7. Write(r, "done", t, i, x) /\ "done" \in Steps /\ ~Held(r, t, i)
      BY <1>2, <1>4, <1>5, <1>8, <2>2 DEF SetQuickAdd, Steps
    <2>8. WriteFits(t, i, x)
      BY <1>5, <2>5, InTables, Marks DEF WriteFits
    <2>9. AsAsked(j, t, i, x)
      BY <1>3, <1>5, <2>6 DEF AsAsked
    <2>10. KeyFree(r, t, i, x)
      BY <1>5, InTables DEF KeyFree
    <2>11. JobFits("done", j)
      BY <1>3, DoneFits
    <2>12. t # "flag" /\ t # "override" /\ j.op # "owner create"
      BY <1>3, <1>5
    <2>13. QED
      BY <1>2, <1>3, <1>6, <2>5, <2>7, <2>8, <2>9, <2>10, <2>11, <2>12, WriteInv
  <1>9. QED
    BY <1>7, <1>8

\* An override is of a flag that is there and not going.
LEMMA SetTenantFlagInv ==
    ASSUME RecordsInv, NEW r \in Requests, SetTenantFlag(r)
    PROVE  RecordsInv'
  <1>1. pc[r] = "upsert" /\ job[r].op = "override"
    BY DEF SetTenantFlag
  <1>2. PICK j \in Jobs : j = job[r]
    BY AtStep
  <1>3. /\ j.op = "override" /\ j.ids # <<>> /\ work[r] = NoWork
        /\ j.ask \in [active: BOOLEAN]
    BY <1>1, <1>2, AtStep DEF JobFits, WorkFits
  <1>4. PICK i \in Ids : i = Id(r)
    BY <1>2, <1>3, FirstId
  <1>5. PICK t : t = "override"
    OBVIOUS
  <1>6. t \in Tables /\ "flag" \in Tables
    BY <1>5 DEF Tables, Keyed
  <1>7. CASE ~Exists(row["flag"][i])
    BY <1>4, <1>7, BreakInv DEF SetTenantFlag
  <1>8. CASE Exists(row["flag"][i])
    <2>1. row["flag"][i] \in Rows
      BY <1>6, <1>8, AtStep, Marks
    <2>2. PICK x : x = [key |-> NoKey, data |-> 0, active |-> j.ask.active]
      OBVIOUS
    <2>3. x \in Rows /\ x \in Stored
      <3>1. j.ask.active \in BOOLEAN
        BY <1>3
      <3>2. QED
        BY <2>2, <3>1 DEF Rows, Stored
    <2>4. Write(r, "done", t, i, x) /\ "done" \in Steps /\ ~Held(r, t, i)
      BY <1>2, <1>4, <1>5, <1>8, <2>2 DEF SetTenantFlag, Steps
    <2>5. \A q \in Requests \ {r} : work[q]["flag"][i] # Gone
      BY <1>4 DEF SetTenantFlag
    <2>6. WriteFits(t, i, x)
      BY <1>5, <2>1, <2>3, InTables, Marks DEF WriteFits
    <2>7. AsAsked(j, t, i, x)
      BY <1>3, <1>5 DEF AsAsked
    <2>8. KeyFree(r, t, i, x)
      BY <1>5, InTables DEF KeyFree
    <2>9. JobFits("done", j)
      BY <1>3, DoneFits
    <2>10. t # "flag" /\ j.op # "owner create"
      BY <1>3, <1>5
    <2>11. QED
      BY <1>2, <1>3, <1>6, <2>3, <2>4, <2>5, <2>6, <2>7, <2>8, <2>9, <2>10, WriteInv
  <1>9. QED
    BY <1>7, <1>8

\* The overrides of a flag go first.
LEMMA DeleteOverridesInv ==
    ASSUME RecordsInv, NEW r \in Requests, DeleteOverrides(r)
    PROVE  RecordsInv'
  <1>1. pc[r] = "overrides"
    BY DEF DeleteOverrides
  <1>2. PICK j \in Jobs : j = job[r]
    BY AtStep
  <1>3. j.op = "delete" /\ j.table = "flag" /\ j.ids # <<>> /\ work[r] = NoWork
    BY <1>1, <1>2, AtStep DEF JobFits
  <1>4. PICK i \in Ids : i = Id(r)
    BY <1>2, <1>3, FirstId
  <1>5. PICK t : t = "override"
    OBVIOUS
  <1>6. t \in Tables
    BY <1>5, InTables
  <1>7. JobFits("flag", j) /\ "flag" \in Steps
    BY <1>3 DEF JobFits, Steps
  <1>8. CASE row[t][i] = Absent
    <2>1. Go(r, "flag", j)
      BY <1>2, <1>4, <1>5, <1>8 DEF DeleteOverrides
    <2>2. QED
      BY <1>3, <1>7, <2>1, GoInv
  <1>9. CASE row[t][i] # Absent
    <2>1. PICK x \in Stored : x = Absent
      BY Marks
    <2>2. Write(r, "flag", t, i, x) /\ ~Held(r, t, i)
      BY <1>4, <1>5, <1>9, <2>1 DEF DeleteOverrides
    <2>3. \A q \in Requests \ {r} : work[q]["flag"][i] # Gone
      <3>1. \A q \in Requests : work[q]["flag"][i] = Gone => work[q]["override"][i] = Absent
        BY DEF RecordsInv, WorkFits
      <3>2. QED
        BY <1>5, <2>2, <3>1, Marks DEF Held
    <2>4. WriteFits(t, i, x)
      BY <1>5, <2>1, InTables, Marks DEF WriteFits
    <2>5. AsAsked(j, t, i, x)
      BY <1>3, <1>5 DEF AsAsked
    <2>6. KeyFree(r, t, i, x)
      BY <1>5, InTables DEF KeyFree
    <2>7. t # "flag" /\ j.op # "owner create"
      BY <1>3, <1>5
    <2>8. QED
      BY <1>2, <1>3, <1>6, <1>7, <2>1, <2>2, <2>3, <2>4, <2>5, <2>6, <2>7, WriteInv
  <1>10. QED
    BY <1>8, <1>9

\* What a request has written still fits when nothing is committed and its job
\* is of the same kind.
LEMMA WritesStay ==
    ASSUME NEW r \in Requests, NEW j, NEW w, UNCHANGED <<row, listed>>,
           job'[r] = j, work'[r] = w,
           \A t \in Tables, i \in Ids :
              w[t][i] # Unwritten => WriteFits(t, i, w[t][i]) /\ AsAsked(j, t, i, w[t][i])
    PROVE  \A t \in Tables, i \in Ids :
              w[t][i] # Unwritten =>
                  WriteFits(t, i, work[r][t][i])' /\ AsAsked(job[r], t, i, work[r][t][i])'
  <1> SUFFICES ASSUME NEW t \in Tables, NEW i \in Ids, NEW x, x = w[t][i], x # Unwritten
               PROVE  WriteFits(t, i, work[r][t][i])' /\ AsAsked(job[r], t, i, work[r][t][i])'
    OBVIOUS
  <1>1. WriteFits(t, i, x) /\ AsAsked(j, t, i, x) /\ work'[r][t][i] = x
    OBVIOUS
  <1>2. WriteFits(t, i, work[r][t][i])'
    BY <1>1 DEF WriteFits
  <1>3. AsAsked(job[r], t, i, work[r][t][i])'
    BY <1>1 DEF AsAsked
  <1>4. QED
    BY <1>2, <1>3

\* One price of a request that sets several.
LEMMA SetTenantPriceInv ==
    ASSUME RecordsInv, NEW r \in Requests, SetTenantPrice(r)
    PROVE  RecordsInv'
  <1>1. pc[r] = "upsert" /\ job[r].op = "price"
    BY DEF SetTenantPrice
  <1>2. PICK j \in Jobs : j = job[r]
    BY AtStep
  <1>3. PICK w \in Works : w = work[r]
    BY AtStep
  <1>4. j.op = "price" /\ j.ids # <<>> /\ WorkFits("upsert", j, w)
    BY <1>1, <1>2, <1>3, AtStep DEF JobFits
  <1>5. PICK i \in Ids : i = Id(r)
    BY <1>2, <1>4, FirstId
  <1>6. "price" \in Tables
    BY InTables
  <1>7. CASE ~Exists(row["template"][i])
    BY <1>5, <1>7, BreakInv DEF SetTenantPrice
  <1>8. CASE Exists(row["template"][i])
    <2>1. PICK x : x = [key |-> NoKey, data |-> 1, active |-> Seen(r, "price", i).active]
      OBVIOUS
    <2>2. PICK v : v = [w EXCEPT !["price"][i] = x]
      OBVIOUS
    <2>3. PICK k : k = [j EXCEPT !.ids = Tail(j.ids)]
      OBVIOUS
    <2>4. PICK to : to = IF Tail(j.ids) = <<>> THEN "done" ELSE "upsert"
      OBVIOUS
    <2>5. x \in Rows /\ x \in Stored
      <3>1. Seen(r, "price", i) \in Stored
        <4>1. w["price"][i] # Unwritten => w["price"][i] \in Stored
          BY <1>6 DEF Works
        <4>2. QED
          BY <1>3, <1>6, <4>1, AtStep DEF Seen
      <3>2. Seen(r, "price", i).active \in BOOLEAN
        BY <3>1, Marks DEF Stored
      <3>3. QED
        BY <2>1, <3>2 DEF Rows, Stored
    <2>6. v \in Works /\ v["price"][i] = x
          /\ \A t \in Tables, l \in Ids : t # "price" \/ l # i => v[t][l] = w[t][l]
      BY <1>6, <2>2, <2>5 DEF Works
    <2>7. k \in Jobs /\ k.op = "price" /\ k.ids = Tail(j.ids)
      <3>1. j.ids \in Seq(Ids)
        BY DEF Jobs
      <3>2. Tail(j.ids) \in Seq(Ids)
        BY <1>4, <3>1
      <3>3. QED
        BY <1>4, <2>3, <3>2 DEF Jobs
    <2>8. /\ to \in Steps /\ to \in {"done", "upsert"} /\ to # "merge"
          /\ to = "done" <=> Tail(j.ids) = <<>>
      BY <2>4 DEF Steps
    <2>9. /\ work' = [work EXCEPT ![r] = v] /\ job' = [job EXCEPT ![r] = k]
          /\ pc' = [pc EXCEPT ![r] = to] /\ UNCHANGED <<scope, row, edits, exempt, listed>>
          /\ ~Held(r, "price", i)
      BY <1>2, <1>3, <1>5, <1>8, <2>1, <2>2, <2>3, <2>4 DEF SetTenantPrice
    <2>10. Shapes' /\ pc'[r] = to /\ job'[r] = k /\ work'[r] = v
      BY <2>6, <2>7, <2>8, <2>9, ShapesKept DEF RecordsInv
    <2>11. OnlyOf(r)
      BY <2>9 DEF OnlyOf, RecordsInv, RecordsTypeOK, Shapes
    <2>12. JobFits(pc[r], job[r])'
      <3>1. JobFits(to, k)
        BY <2>7, <2>8 DEF JobFits
      <3>2. QED
        BY <2>9, <2>10, <3>1, JobStays
    <2>13. WorkFits(pc[r], job[r], work[r])'
      <3>1. \A t \in Tables, l \in Ids :
               v[t][l] # Unwritten => WriteFits(t, l, v[t][l]) /\ AsAsked(k, t, l, v[t][l])
        <4> SUFFICES ASSUME NEW t \in Tables, NEW l \in Ids, v[t][l] # Unwritten
                     PROVE  WriteFits(t, l, v[t][l]) /\ AsAsked(k, t, l, v[t][l])
          OBVIOUS
        <4>1. CASE t = "price" /\ l = i
          <5>1. WriteFits(t, l, x)
            BY <2>5, <4>1, InTables, Marks DEF WriteFits
          <5>2. AsAsked(k, t, l, x)
            BY <2>7 DEF AsAsked
          <5>3. QED
            BY <2>6, <4>1, <5>1, <5>2
        <4>2. CASE ~(t = "price" /\ l = i)
          <5>1. v[t][l] = w[t][l]
            BY <2>6, <4>2
          <5>2. WriteFits(t, l, v[t][l])
            BY <1>4, <5>1 DEF WorkFits
          <5>3. AsAsked(k, t, l, v[t][l])
            BY <2>7 DEF AsAsked
          <5>4. QED
            BY <5>2, <5>3
        <4>3. QED
          BY <4>1, <4>2
      <3>2. \A t \in Tables, l \in Ids :
               v[t][l] # Unwritten =>
                   WriteFits(t, l, work[r][t][l])' /\ AsAsked(job[r], t, l, work[r][t][l])'
        BY <2>9, <2>10, <3>1, WritesStay
      <3>3. \A l \in Ids : v["flag"][l] = Gone => v["override"][l] = Absent
        BY <1>4, <2>6, InTables DEF WorkFits
      <3>4. QED
        BY <2>7, <2>8, <2>10, <3>2, <3>3 DEF WorkFits
    <2>14. WritesWell(r)
      <3>1. \A t \in Tables, l \in Ids :
               v[t][l] # Unwritten =>
                   w[t][l] # Unwritten \/ \A q \in Requests \ {r} : work[q][t][l] = Unwritten
        BY <2>6, <2>9 DEF Held
      <3>2. \A t \in Keyed, l \in Ids : v[t][l] = w[t][l]
        BY <2>6, InTables
      <3>3. \A q \in Requests \ {r} : work'[q] = work[q]
        BY <2>11 DEF OnlyOf
      <3>4. \A t \in Keyed, l \in Ids :
               v[t][l] \in Rows =>
                   /\ \A m \in Ids : row[t][m] \in Rows /\ row[t][m].key = v[t][l].key => l = m
                   /\ \A q \in Requests, m \in Ids :
                         work'[q][t][m] \in Rows /\ work'[q][t][m].key = v[t][l].key => l = m
        BY <1>3, <2>10, <3>2, <3>3 DEF RecordsInv, KeysApart
      <3>5. \A l \in Ids : v["flag"][l] = w["flag"][l] /\ v["override"][l] = w["override"][l]
        BY <2>6, InTables
      <3>6. \A l \in Ids, q \in Requests \ {r} :
               /\ v["flag"][l] = Gone => work[q]["override"][l] = Unwritten
               /\ v["override"][l] # Unwritten => work[q]["flag"][l] # Gone
        BY <1>3, <3>5 DEF RecordsInv, GoneAlone
      <3>7. QED
        BY <1>3, <2>10, <3>1, <3>4, <3>6 DEF WritesWell
    <2>15. r \notin Coming'
      BY <2>7, <2>10 DEF Coming
    <2>16. QED
      BY <2>10, <2>11, <2>12, <2>13, <2>14, <2>15, StepInv
  <1>9. QED
    BY <1>7, <1>8

\* A flag goes with its overrides.
LEMMA DeleteFlagRowInv ==
    ASSUME RecordsInv, NEW r \in Requests, DeleteFlagRow(r)
    PROVE  RecordsInv'
  <1>1. pc[r] = "flag"
    BY DEF DeleteFlagRow
  <1>2. PICK j \in Jobs : j = job[r]
    BY AtStep
  <1>3. PICK w \in Works : w = work[r]
    BY AtStep
  <1>4. j.op = "delete" /\ j.table = "flag" /\ j.ids # <<>> /\ WorkFits("flag", j, w)
    BY <1>1, <1>2, <1>3, AtStep DEF JobFits
  <1>5. PICK i \in Ids : i = Id(r)
    BY <1>2, <1>4, FirstId
  <1>6. "flag" \in Tables /\ "override" \in Tables
    BY InTables
  <1>7. JobFits("done", j) /\ "done" \in Steps
    BY <1>4, DoneFits DEF Steps
  <1>8. CASE ~Exists(row["flag"][i])
    <2>1. Go(r, "done", j)
      BY <1>2, <1>5, <1>8 DEF DeleteFlagRow
    <2>2. work' = [work EXCEPT ![r] = w] /\ work' = work
      BY <1>3, <2>1 DEF Go, RecordsInv, Shapes
    <2>3. Shapes' /\ pc'[r] = "done" /\ job'[r] = j /\ work'[r] = w
      BY <1>7, <2>1, <2>2, ShapesKept DEF Go, RecordsInv
    <2>4. OnlyOf(r)
      BY <2>1 DEF Go, OnlyOf, RecordsInv, RecordsTypeOK, Shapes
    <2>5. JobFits(pc[r], job[r])'
      BY <1>7, <2>1, <2>3, JobStays DEF Go
    <2>6. \A t \in Tables, l \in Ids :
             w[t][l] # Unwritten =>
                 WriteFits(t, l, work[r][t][l])' /\ AsAsked(job[r], t, l, work[r][t][l])'
      BY <1>4, <2>1, <2>3, WritesStay DEF Go, WorkFits
    <2>7. WorkFits(pc[r], job[r], work[r])'
      BY <1>4, <2>3, <2>6 DEF WorkFits
    <2>8. r \notin Coming'
      BY <1>4, <2>3 DEF Coming
    <2>9. QED
      BY <2>2, <2>3, <2>4, <2>5, <2>7, <2>8, QuietInv
  <1>9. CASE Exists(row["flag"][i])
    <2>1. PICK v : v = [w EXCEPT !["flag"][i] = Gone, !["override"][i] = Absent]
      OBVIOUS
    <2>2. /\ v \in Works /\ v["flag"][i] = Gone /\ v["override"][i] = Absent
          /\ \A t \in Tables, l \in Ids :
                l # i \/ t \notin {"flag", "override"} => v[t][l] = w[t][l]
      BY <1>6, <2>1, Marks DEF Works
    <2>3. /\ work' = [work EXCEPT ![r] = v] /\ job' = [job EXCEPT ![r] = j]
          /\ pc' = [pc EXCEPT ![r] = "done"] /\ UNCHANGED <<scope, row, edits, exempt, listed>>
          /\ ~Held(r, "flag", i) /\ ~Held(r, "override", i)
      <3>1. job' = [job EXCEPT ![r] = j]
        BY <1>2, <1>5, <1>9 DEF DeleteFlagRow, RecordsInv, Shapes
      <3>2. work' = [work EXCEPT ![r]["flag"][i] = Gone, ![r]["override"][i] = Absent]
        BY <1>5, <1>9 DEF DeleteFlagRow
      <3>3. work' = [work EXCEPT ![r] = v]
        BY <1>3, <2>1, <3>2 DEF RecordsInv, Shapes
      <3>4. QED
        BY <1>5, <1>9, <3>1, <3>3 DEF DeleteFlagRow
    <2>4. Shapes' /\ pc'[r] = "done" /\ job'[r] = j /\ work'[r] = v
      BY <1>7, <2>2, <2>3, ShapesKept DEF RecordsInv
    <2>5. OnlyOf(r)
      BY <2>3 DEF OnlyOf, RecordsInv, RecordsTypeOK, Shapes
    <2>6. JobFits(pc[r], job[r])'
      BY <1>7, <2>3, <2>4, JobStays
    <2>7. \A t \in Tables, l \in Ids :
             v[t][l] # Unwritten => WriteFits(t, l, v[t][l]) /\ AsAsked(j, t, l, v[t][l])
      <3> SUFFICES ASSUME NEW t \in Tables, NEW l \in Ids, v[t][l] # Unwritten
                   PROVE  WriteFits(t, l, v[t][l]) /\ AsAsked(j, t, l, v[t][l])
        OBVIOUS
      <3>1. CASE l = i /\ t \in {"flag", "override"}
        <4>1. PICK x : x = v[t][l]
          OBVIOUS
        <4>2. (t = "flag" /\ x = Gone) \/ (t = "override" /\ x = Absent)
          BY <2>2, <3>1, <4>1
        <4>3. WriteFits(t, l, x)
          BY <4>2, InTables, Marks DEF WriteFits
        <4>4. AsAsked(j, t, l, x)
          BY <1>4, <3>1 DEF AsAsked
        <4>5. QED
          BY <4>1, <4>3, <4>4
      <3>2. CASE ~(l = i /\ t \in {"flag", "override"})
        <4>1. v[t][l] = w[t][l]
          BY <2>2, <3>2
        <4>2. QED
          BY <1>4, <4>1 DEF WorkFits
      <3>3. QED
        BY <3>1, <3>2
    <2>8. WorkFits(pc[r], job[r], work[r])'
      <3>1. \A t \in Tables, l \in Ids :
               v[t][l] # Unwritten =>
                   WriteFits(t, l, work[r][t][l])' /\ AsAsked(job[r], t, l, work[r][t][l])'
        BY <2>3, <2>4, <2>7, WritesStay
      <3>2. \A l \in Ids : v["flag"][l] = Gone => v["override"][l] = Absent
        BY <1>4, <1>6, <2>2 DEF WorkFits
      <3>3. QED
        BY <1>4, <2>4, <3>1, <3>2 DEF WorkFits
    <2>9. WritesWell(r)
      <3>1. \A t \in Tables, l \in Ids :
               v[t][l] # Unwritten =>
                   w[t][l] # Unwritten \/ \A q \in Requests \ {r} : work[q][t][l] = Unwritten
        BY <2>2, <2>3 DEF Held
      <3>2. \A t \in Keyed, l \in Ids : v[t][l] \in Rows => v[t][l] = w[t][l]
        BY <2>2, InTables, Marks
      <3>3. \A q \in Requests \ {r} : work'[q] = work[q]
        BY <2>5 DEF OnlyOf
      <3>4. \A t \in Keyed, l \in Ids :
               v[t][l] \in Rows =>
                   /\ \A m \in Ids : row[t][m] \in Rows /\ row[t][m].key = v[t][l].key => l = m
                   /\ \A q \in Requests, m \in Ids :
                         work'[q][t][m] \in Rows /\ work'[q][t][m].key = v[t][l].key => l = m
        BY <1>3, <2>4, <3>2, <3>3 DEF RecordsInv, KeysApart
      <3>5. \A l \in Ids : l # i => v["flag"][l] = w["flag"][l] /\ v["override"][l] = w["override"][l]
        BY <1>6, <2>2
      <3>6. \A q \in Requests \ {r} :
               work[q]["override"][i] = Unwritten /\ work[q]["flag"][i] = Unwritten
        BY <2>3 DEF Held
      <3>7. \A l \in Ids, q \in Requests \ {r} :
               /\ w["flag"][l] = Gone => work[q]["override"][l] = Unwritten
               /\ work[q]["flag"][l] = Gone => w["override"][l] = Unwritten
        BY <1>3 DEF RecordsInv, GoneAlone
      <3>8. \A l \in Ids, q \in Requests \ {r} :
               /\ v["flag"][l] = Gone => work[q]["override"][l] = Unwritten
               /\ v["override"][l] # Unwritten => work[q]["flag"][l] # Gone
        BY <3>5, <3>6, <3>7, Marks
      <3>9. QED
        BY <1>3, <2>4, <3>1, <3>4, <3>8 DEF WritesWell
    <2>10. r \notin Coming'
      BY <1>4, <2>4 DEF Coming
    <2>11. QED
      BY <2>4, <2>5, <2>6, <2>8, <2>9, <2>10, StepInv
  <1>10. QED
    BY <1>8, <1>9

\* What is rolled back was never there.
LEMMA RollBackInv ==
    ASSUME RecordsInv, NEW r \in Requests, RollBack(r)
    PROVE  RecordsInv'
  <1>1. Shapes /\ "idle" \in Steps
    BY DEF RecordsInv, Steps
  <1>2. Shapes' /\ pc'[r] = "idle" /\ job'[r] = NoJob /\ work'[r] = NoWork
    BY <1>1, ShapesKept, Blank, NoJobFits DEF RollBack, End
  <1>3. OnlyOf(r)
    BY <1>1 DEF RollBack, End, OnlyOf, Shapes, RecordsInv, RecordsTypeOK
  <1>4. JobFits(pc[r], job[r])'
    BY <1>2 DEF JobFits
  <1>5. WorkFits(pc[r], job[r], work[r])'
    BY <1>2, Blank, BlankFits DEF WorkFits
  <1>6. r \notin Coming'
    BY <1>2 DEF Coming
  <1>7. QED
    BY <1>2, <1>3, <1>4, <1>5, <1>6, QuietInv

-----------------------------------------------------------------------------
(***************************************************************************)
(* The commit.                                                             *)
(***************************************************************************)
\* What a commit makes of the tables.
LEMMA CommitMakes ==
    ASSUME RecordsInv, NEW r \in Requests, Commit(r)
    PROVE  /\ row' \in [Tables -> [Ids -> Stored]]
           /\ \A t \in Tables, i \in Ids :
                 /\ work[r][t][i] = Unwritten => row'[t][i] = row[t][i]
                 /\ work[r][t][i] # Unwritten => /\ row'[t][i] = work[r][t][i]
                                                 /\ WriteFits(t, i, work[r][t][i])
                                                 /\ AsAsked(job[r], t, i, work[r][t][i])
           /\ \A z \in Ids : listed[z] \subseteq listed'[z]
                             /\ (row'["zone"][z].active => row'["zone"][z].data \in listed'[z])
           /\ listed' \in [Ids -> SUBSET (0 .. 1)]
  <1>1. PICK w \in Works : w = work[r]
    BY AtStep
  <1>2. WorkFits(pc[r], job[r], w)
    BY <1>1, AtStep
  <1>3. \A t \in Tables, i \in Ids : row'[t][i] = IF w[t][i] = Unwritten THEN row[t][i] ELSE w[t][i]
    BY <1>1 DEF Commit, Seen
  <1>4. \A t \in Tables, i \in Ids : row'[t][i] \in Stored
    BY <1>3, AtStep DEF Works
  <1>5. row' \in [Tables -> [Ids -> Stored]]
    <2>1. row' = [t \in Tables |-> [i \in Ids |-> row'[t][i]]]
      BY DEF Commit
    <2>2. QED
      BY <1>4, <2>1
  <1>6. "zone" \in Tables
    BY DEF Tables
  <1>7. \A z \in Ids : row'["zone"][z].active => row'["zone"][z].data \in 0 .. 1
    BY <1>4, <1>6, Marks DEF Stored
  <1>8. \A z \in Ids : listed[z] \in SUBSET (0 .. 1)
    BY DEF RecordsInv, RecordsTypeOK
  <1>9. listed' = [z \in Ids |-> IF row'["zone"][z].active
                                 THEN listed[z] \cup {row'["zone"][z].data} ELSE listed[z]]
    BY DEF Commit
  <1>10. listed' \in [Ids -> SUBSET (0 .. 1)]
    <2>1. \A z \in Ids : (IF row'["zone"][z].active
                          THEN listed[z] \cup {row'["zone"][z].data} ELSE listed[z]) \in SUBSET (0 .. 1)
      BY <1>7, <1>8
    <2>2. QED
      BY <1>9, <2>1
  <1>11. \A z \in Ids : listed[z] \subseteq listed'[z]
                        /\ (row'["zone"][z].active => row'["zone"][z].data \in listed'[z])
    BY <1>9
  <1>12. \A t \in Tables, i \in Ids :
            w[t][i] # Unwritten => WriteFits(t, i, w[t][i]) /\ AsAsked(job[r], t, i, w[t][i])
    BY <1>2 DEF WorkFits
  <1>13. QED
    BY <1>1, <1>3, <1>5, <1>10, <1>11, <1>12

\* Rows stay where they are kept, with their keys.
LEMMA CommitKeeps ==
    ASSUME RecordsInv, NEW r \in Requests, Commit(r), NEW t \in Edited, NEW i \in Ids
    PROVE  /\ row[t][i] # Absent => row'[t][i] # Absent
           /\ row[t][i] # Absent /\ row'[t][i] \in Rows =>
                 row[t][i] \in Rows /\ row'[t][i].key = row[t][i].key
           /\ t # "flag" /\ row[t][i] \in Rows => row'[t][i] \in Rows
  <1>1. t \in Tables /\ t # "override"
    BY InTables
  <1>2. CASE work[r][t][i] = Unwritten
    BY <1>1, <1>2, CommitMakes
  <1>3. CASE work[r][t][i] # Unwritten
    <2>1. PICK x : x = work[r][t][i]
      OBVIOUS
    <2>2. row'[t][i] = x /\ WriteFits(t, i, x)
      BY <1>1, <1>3, <2>1, CommitMakes
    <2>3. /\ x \in Stored /\ x # Absent /\ (x = Gone => t = "flag")
          /\ (x \in Rows => row[t][i] = Absent \/ (row[t][i] \in Rows /\ row[t][i].key = x.key))
      BY <1>1, <2>2 DEF WriteFits
    <2>4. QED
      BY <2>2, <2>3, Marks DEF Stored
  <1>4. QED
    BY <1>2, <1>3

\* Where the others stand, a commit changes nothing.
LEMMA CommitSpares ==
    ASSUME RecordsInv, NEW r \in Requests, Commit(r), NEW q \in Requests, q # r
    PROVE  /\ pc'[q] = pc[q] /\ job'[q] = job[q] /\ work'[q] = work[q]
           /\ \A t \in Tables, i \in Ids : work[q][t][i] # Unwritten => row'[t][i] = row[t][i]
           /\ JobFits(pc[q], job[q])' /\ WorkFits(pc[q], job[q], work[q])'
  <1>1. pc'[q] = pc[q] /\ job'[q] = job[q] /\ work'[q] = work[q]
    BY DEF Commit, End, RecordsInv, Shapes
  <1>2. \A t \in Tables, i \in Ids : work[q][t][i] # Unwritten => row'[t][i] = row[t][i]
    BY CommitMakes DEF RecordsInv, WritersApart
  <1>3. PICK at, j, w : at = pc[q] /\ j = job[q] /\ w = work[q]
    OBVIOUS
  <1>4. pc'[q] = at /\ job'[q] = j /\ work'[q] = w /\ at \in Steps /\ j \in Jobs /\ w \in Works
        /\ JobFits(at, j) /\ WorkFits(at, j, w) /\ (at = "merge" => j.read \in Rows)
    BY <1>1, <1>3, AtStep
  <1>5. JobFits(pc[q], job[q])'
    <2>1. at = "merge" => /\ row'[j.table][Head(j.ids)] # Absent
                          /\ row'[j.table][Head(j.ids)] \in Rows =>
                                row'[j.table][Head(j.ids)].key = j.read.key
      <3> SUFFICES ASSUME at = "merge"
                   PROVE  /\ row'[j.table][Head(j.ids)] # Absent
                          /\ row'[j.table][Head(j.ids)] \in Rows =>
                                row'[j.table][Head(j.ids)].key = j.read.key
        OBVIOUS
      <3>1. /\ j.table \in Edited /\ j.ids # <<>>
            /\ row[j.table][Head(j.ids)] # Absent
            /\ row[j.table][Head(j.ids)] \in Rows => row[j.table][Head(j.ids)].key = j.read.key
        BY <1>4 DEF JobFits
      <3>2. j.ids \in Seq(Ids)
        BY <1>4 DEF Jobs
      <3>3. Head(j.ids) \in Ids
        BY <3>1, <3>2
      <3>4. PICK t \in Edited, i \in Ids : t = j.table /\ i = Head(j.ids)
        BY <3>1, <3>3
      <3>5. QED
        BY <3>1, <3>4, CommitKeeps
    <2>2. at = "page" => j.total <= Cardinality(Existing(j.table)')
      <3> SUFFICES ASSUME at = "page" PROVE j.total <= Cardinality(Existing(j.table)')
        OBVIOUS
      <3>1. j.table \in Paged /\ j.total <= Cardinality(Existing(j.table)) /\ j.total \in Nat
        BY <1>4 DEF JobFits, Jobs
      <3>2. PICK t \in Paged : t = j.table
        BY <3>1
      <3>3. \A i \in Ids : row[t][i] \in Rows => row'[t][i] \in Rows
        BY CommitKeeps, InTables
      <3>4. Existing(t) \subseteq Existing(t)'
        BY <3>3 DEF Existing
      <3>5. IsFiniteSet(Existing(t)')
        BY IdsAssumption, FS_Subset DEF Existing
      <3>6. Cardinality(Existing(t)) <= Cardinality(Existing(t)')
            /\ Cardinality(Existing(t)) \in Nat /\ Cardinality(Existing(t)') \in Nat
        BY <3>4, <3>5, FS_Subset, FS_CardinalityType
      <3>7. QED
        BY <3>1, <3>2, <3>6
    <2>3. at = "insert" =>
            \/ /\ j.op = "pickup" /\ j.key \in Ids
               /\ j.read \in Rows /\ j.read.data \in listed'[j.key]
            \/ j.op = "create" /\ j.table \in Edited /\ j.key \in {NoKey} \cup Keys
            \/ j.op = "owner create" /\ j.table = "outlet" /\ j.key = NoKey
      BY <1>4, CommitMakes DEF JobFits
    <2>4. QED
      BY <1>4, <2>1, <2>2, <2>3 DEF JobFits
  <1>6. WorkFits(pc[q], job[q], work[q])'
    <2>1. \A t \in Tables, i \in Ids :
             w[t][i] # Unwritten =>
                 WriteFits(t, i, work[q][t][i])' /\ AsAsked(job[q], t, i, work[q][t][i])'
      <3> SUFFICES ASSUME NEW t \in Tables, NEW i \in Ids, NEW x, x = w[t][i], x # Unwritten
                   PROVE  WriteFits(t, i, work[q][t][i])' /\ AsAsked(job[q], t, i, work[q][t][i])'
        OBVIOUS
      <3>1. row'[t][i] = row[t][i] /\ work'[q][t][i] = x /\ job'[q] = j
        BY <1>2, <1>3, <1>4
      <3>2. WriteFits(t, i, x) /\ AsAsked(j, t, i, x)
        BY <1>4 DEF WorkFits
      <3>3. t = "override" /\ x \in Rows => row'["flag"][i] \in Rows
        <4> SUFFICES ASSUME t = "override", x \in Rows PROVE row'["flag"][i] \in Rows
          OBVIOUS
        <4>1. row["flag"][i] \in Rows
          BY <3>2 DEF WriteFits
        <4>2. work[r]["flag"][i] # Gone
          BY <1>3 DEF RecordsInv, GoneAlone
        <4>3. "flag" \in Tables
          BY InTables
        <4>4. CASE work[r]["flag"][i] = Unwritten
          BY <4>1, <4>3, <4>4, CommitMakes
        <4>5. CASE work[r]["flag"][i] # Unwritten
          <5>1. PICK y : y = work[r]["flag"][i]
            OBVIOUS
          <5>2. row'["flag"][i] = y /\ WriteFits("flag", i, y)
            BY <4>3, <4>5, <5>1, CommitMakes
          <5>3. y \in Stored /\ y # Absent
            BY <5>2 DEF WriteFits
          <5>4. QED
            BY <4>2, <5>1, <5>2, <5>3 DEF Stored
        <4>6. QED
          BY <4>4, <4>5
      <3>4. t = "pickup" => x.key \in Ids /\ x.data \in listed'[x.key]
        BY <3>2, CommitMakes DEF WriteFits
      <3>5. WriteFits(t, i, work[q][t][i])'
        BY <3>1, <3>2, <3>3, <3>4 DEF WriteFits
      <3>6. AsAsked(job[q], t, i, work[q][t][i])'
        BY <3>1, <3>2 DEF AsAsked
      <3>7. QED
        BY <3>5, <3>6
    <2>2. j.op = "owner create" => OneOutlet(w)
      BY <1>4 DEF WorkFits
    <2>3. job'[q].op = "owner create" => OneOutlet(work[q])'
      BY <1>4, <2>2 DEF OneOutlet
    <2>4. QED
      BY <1>4, <2>1, <2>3 DEF WorkFits
  <1>7. QED
    BY <1>1, <1>2, <1>5, <1>6

\* What the tables promise of themselves holds of what is committed.
LEMMA CommitTables ==
    ASSUME RecordsInv, NEW r \in Requests, Commit(r)
    PROVE  /\ \A t \in Tables, i \in Ids : RowFits(t, i)'
           /\ KeysUnique' /\ OverridesHaveFlags'
  <1>1. \A t \in Tables, i \in Ids : RowFits(t, i)'
    <2> SUFFICES ASSUME NEW t \in Tables, NEW i \in Ids PROVE RowFits(t, i)'
      OBVIOUS
    <2>1. RowFits(t, i)
      BY DEF RecordsInv
    <2>2. t = "zone" /\ row'[t][i].active => row'[t][i].data \in listed'[i]
      BY CommitMakes
    <2>3. \A z \in Ids : listed[z] \subseteq listed'[z]
      BY CommitMakes
    <2>4. CASE work[r][t][i] = Unwritten
      <3>1. row'[t][i] = row[t][i]
        BY <2>4, CommitMakes
      <3>2. QED
        BY <2>1, <2>2, <2>3, <3>1 DEF RowFits
    <2>5. CASE work[r][t][i] # Unwritten
      <3>1. PICK x : x = work[r][t][i]
        OBVIOUS
      <3>2. row'[t][i] = x /\ WriteFits(t, i, x)
        BY <2>5, <3>1, CommitMakes
      <3>3. /\ x = Gone => t = "flag"
            /\ t = "pickup" => x.key \in Ids /\ x.data \in listed[x.key]
        BY <3>2 DEF WriteFits
      <3>4. QED
        BY <2>2, <2>3, <3>2, <3>3 DEF RowFits
    <2>6. QED
      BY <2>4, <2>5
  <1>2. KeysUnique'
    <2> SUFFICES ASSUME NEW t \in Keyed, NEW i \in Ids, NEW j \in Ids,
                        Exists(row'[t][i]), Exists(row'[t][j]), row'[t][i].key = row'[t][j].key
                 PROVE  i = j
      BY DEF KeysUnique
    <2>1. t \in Tables
      BY InTables
    <2>2. row'[t][i] \in Rows /\ row'[t][j] \in Rows
      BY <2>1, CommitMakes, Marks
    <2>3. /\ work[r][t][i] = Unwritten => row'[t][i] = row[t][i]
          /\ work[r][t][i] # Unwritten => row'[t][i] = work[r][t][i]
          /\ work[r][t][j] = Unwritten => row'[t][j] = row[t][j]
          /\ work[r][t][j] # Unwritten => row'[t][j] = work[r][t][j]
      BY <2>1, CommitMakes
    <2>4. \A k, l \in Ids :
             /\ work[r][t][k] \in Rows /\ row[t][l] \in Rows /\ row[t][l].key = work[r][t][k].key => k = l
             /\ work[r][t][k] \in Rows /\ work[r][t][l] \in Rows
                /\ work[r][t][l].key = work[r][t][k].key => k = l
      BY DEF RecordsInv, KeysApart
    <2>5. row[t][i] \in Rows /\ row[t][j] \in Rows /\ row[t][i].key = row[t][j].key => i = j
      BY <2>1, AtStep, Marks DEF RecordsInv, KeysUnique
    <2>6. QED
      BY <2>2, <2>3, <2>4, <2>5
  <1>3. OverridesHaveFlags'
    <2> SUFFICES ASSUME NEW i \in Ids, Exists(row'["override"][i])
                 PROVE  Exists(row'["flag"][i])
      BY DEF OverridesHaveFlags
    <2>1. "override" \in Tables /\ "flag" \in Tables
      BY InTables
    <2>2. row'["override"][i] \in Rows
      BY <2>1, CommitMakes, Marks
    <2>3. row["flag"][i] \in Rows /\ work[r]["flag"][i] # Gone
      <3>1. work[r]["flag"][i] = Gone => work[r]["override"][i] = Absent
        BY AtStep DEF WorkFits
      <3>2. CASE work[r]["override"][i] = Unwritten
        <4>1. row["override"][i] \in Rows
          BY <2>1, <2>2, <3>2, CommitMakes
        <4>2. row["flag"][i] \in Rows
          BY <2>1, <4>1, AtStep, Marks DEF RecordsInv, OverridesHaveFlags
        <4>3. QED
          BY <3>1, <3>2, <4>2, Marks
      <3>3. CASE work[r]["override"][i] # Unwritten
        <4>1. PICK x : x = work[r]["override"][i]
          OBVIOUS
        <4>2. x = row'["override"][i] /\ WriteFits("override", i, x)
          BY <2>1, <3>3, <4>1, CommitMakes
        <4>3. row["flag"][i] \in Rows
          BY <2>2, <4>2 DEF WriteFits
        <4>4. QED
          BY <2>2, <3>1, <4>1, <4>2, <4>3, Marks
      <3>4. QED
        BY <3>2, <3>3
    <2>4. CASE work[r]["flag"][i] = Unwritten
      BY <2>1, <2>3, <2>4, CommitMakes, Marks
    <2>5. CASE work[r]["flag"][i] # Unwritten
      <3>1. PICK y : y = work[r]["flag"][i]
        OBVIOUS
      <3>2. row'["flag"][i] = y /\ WriteFits("flag", i, y)
        BY <2>1, <2>5, <3>1, CommitMakes
      <3>3. y # Absent
        BY <3>2 DEF WriteFits
      <3>4. QED
        BY <2>3, <3>1, <3>2, <3>3 DEF Exists
    <2>6. QED
      BY <2>4, <2>5
  <1>4. QED
    BY <1>1, <1>2, <1>3

\* Those that go on are as far apart from the tables, and from one another.
LEMMA CommitApart ==
    ASSUME RecordsInv, NEW r \in Requests, Commit(r)
    PROVE  WritersApart' /\ KeysApart' /\ GoneAlone'
  <1>1. work'[r] = NoWork
    BY DEF Commit, End, RecordsInv, Shapes
  <1>2. \A q \in Requests : q # r => work'[q] = work[q]
    BY CommitSpares
  <1>3. "override" \in Tables /\ "flag" \in Tables /\ Keyed \subseteq Tables
    BY InTables
  <1>4. \A t \in Tables, i \in Ids : work'[r][t][i] = Unwritten
    BY <1>1, Blank
  <1>5. Unwritten \notin Rows /\ Unwritten # Gone
    BY Marks DEF Stored
  <1>6. WritersApart'
    <2> SUFFICES ASSUME NEW p \in Requests, NEW q \in Requests, NEW t \in Tables, NEW i \in Ids,
                        work'[p][t][i] # Unwritten, work'[q][t][i] # Unwritten
                 PROVE  p = q
      BY DEF WritersApart
    <2>1. p # r /\ q # r
      BY <1>4
    <2>2. QED
      BY <1>2, <2>1 DEF RecordsInv, WritersApart
  <1>7. KeysApart'
    <2> SUFFICES ASSUME NEW t \in Keyed, NEW q \in Requests, NEW i \in Ids, work'[q][t][i] \in Rows
                 PROVE  /\ \A j \in Ids : row'[t][j] \in Rows /\ row'[t][j].key = work'[q][t][i].key => i = j
                        /\ \A p \in Requests, j \in Ids :
                              work'[p][t][j] \in Rows /\ work'[p][t][j].key = work'[q][t][i].key => i = j
      BY DEF KeysApart
    <2>1. t \in Tables /\ q # r
      BY <1>3, <1>4, <1>5
    <2>2. work'[q] = work[q]
      BY <1>2, <2>1
    <2>3. /\ \A j \in Ids : row[t][j] \in Rows /\ row[t][j].key = work[q][t][i].key => i = j
          /\ \A p \in Requests, j \in Ids :
                work[p][t][j] \in Rows /\ work[p][t][j].key = work[q][t][i].key => i = j
      BY <2>2 DEF RecordsInv, KeysApart
    <2>4. \A j \in Ids : row'[t][j] = row[t][j] \/ row'[t][j] = work[r][t][j]
      BY <2>1, CommitMakes
    <2>5. \A p \in Requests, j \in Ids : work'[p][t][j] \in Rows => work'[p][t][j] = work[p][t][j]
      BY <1>2, <1>4, <1>5, <2>1
    <2>6. QED
      BY <2>2, <2>3, <2>4, <2>5
  <1>8. GoneAlone'
    <2> SUFFICES ASSUME NEW q \in Requests, NEW p \in Requests, NEW i \in Ids,
                        q # p, work'[q]["flag"][i] = Gone
                 PROVE  work'[p]["override"][i] = Unwritten
      BY DEF GoneAlone
    <2>1. q # r
      BY <1>3, <1>4, <1>5
    <2>2. work[q]["flag"][i] = Gone
      BY <1>2, <2>1
    <2>3. work[p]["override"][i] = Unwritten
      BY <2>2 DEF RecordsInv, GoneAlone
    <2>4. QED
      BY <1>2, <1>3, <1>4, <2>3
  <1>9. QED
    BY <1>6, <1>7, <1>8

\* An owner's outlet takes the room that its request was counted for; any other
\* outlet put in use is exempt.
LEMMA CommitRoom ==
    ASSUME RecordsInv, NEW r \in Requests, Commit(r)
    PROVE  RoomLeft'
  <1>1. job'[r] = NoJob
    BY DEF Commit, End, RecordsInv, Shapes
  <1>2. NoJob.op # "owner create"
    BY DEF NoJob
  <1>3. Coming' \subseteq Coming \ {r}
    BY <1>1, <1>2, CommitSpares DEF Coming
  <1>4. "outlet" \in Tables
    BY DEF Tables, Paged
  <1>5. RoomLeft
    BY DEF RecordsInv
  <1>6. CASE job[r].op # "owner create"
    <2>1. exempt' = exempt \cup {i \in Ids : row'["outlet"][i].active /\ ~row["outlet"][i].active}
      BY <1>6 DEF Commit
    <2>2. Used' \subseteq Used
      BY <2>1 DEF Used
    <2>3. QED
      BY <1>3, <1>5, <2>2, RoomKept
  <1>7. CASE job[r].op = "owner create" /\ work[r] = NoWork
    <2>1. exempt' = exempt
      BY <1>7 DEF Commit
    <2>2. \A i \in Ids : row'["outlet"][i] = row["outlet"][i]
      BY <1>4, <1>7, Blank, CommitMakes
    <2>3. Used' \subseteq Used
      BY <2>1, <2>2 DEF Used
    <2>4. QED
      BY <1>3, <1>5, <2>3, RoomKept
  <1>8. CASE job[r].op = "owner create" /\ work[r] # NoWork
    <2>1. exempt' = exempt
      BY <1>8 DEF Commit
    <2>2. r \in Coming
      BY <1>8 DEF Coming
    <2>3. OneOutlet(work[r])
      BY <1>8, AtStep DEF WorkFits
    <2>4. PICK i \in Ids : \A t \in Tables, k \in Ids : work[r][t][k] # Unwritten => t = "outlet" /\ k = i
      BY <2>3 DEF OneOutlet
    <2>5. \A k \in Ids : k # i => row'["outlet"][k] = row["outlet"][k]
      BY <1>4, <2>4, CommitMakes
    <2>6. Used' \subseteq Used \cup {i}
      BY <2>1, <2>5 DEF Used
    <2>7. IsFiniteSet(Used \cup {i}) /\ Cardinality(Used \cup {i}) <= Cardinality(Used) + 1
          /\ Cardinality(Used \cup {i}) \in Nat
      <3>1. IsFiniteSet(Used \cup {i})
            /\ \/ Cardinality(Used \cup {i}) = Cardinality(Used)
               \/ Cardinality(Used \cup {i}) = Cardinality(Used) + 1
        BY FiniteOnes, FS_AddElement
      <3>2. QED
        BY <3>1, FiniteOnes
    <2>8. Cardinality(Used') <= Cardinality(Used) + 1 /\ Cardinality(Used') \in Nat
      <3>1. IsFiniteSet(Used') /\ Cardinality(Used') <= Cardinality(Used \cup {i})
        BY <2>6, <2>7, FS_Subset
      <3>2. Cardinality(Used') \in Nat
        BY <3>1, FS_CardinalityType
      <3>3. QED
        BY <2>7, <3>1, <3>2, FiniteOnes
    <2>9. Cardinality(Coming') <= Cardinality(Coming) - 1 /\ Cardinality(Coming') \in Nat
      <3>1. IsFiniteSet(Coming \ {r}) /\ Cardinality(Coming \ {r}) = Cardinality(Coming) - 1
        BY <2>2, FiniteOnes, FS_RemoveElement
      <3>2. IsFiniteSet(Coming') /\ Cardinality(Coming') <= Cardinality(Coming \ {r})
        BY <1>3, <3>1, FS_Subset
      <3>3. Cardinality(Coming') \in Nat
        BY <3>2, FS_CardinalityType
      <3>4. QED
        BY <3>1, <3>2, <3>3
    <2>10. QED
      BY <1>5, <2>8, <2>9, FiniteOnes, OutletsAssumption DEF RoomLeft
  <1>9. QED
    BY <1>6, <1>7, <1>8

\* A commit keeps the invariant.
LEMMA CommitInv ==
    ASSUME RecordsInv, NEW r \in Requests, Commit(r)
    PROVE  RecordsInv'
  <1>1. Shapes /\ "idle" \in Steps
    BY DEF RecordsInv, Steps
  <1>2. Shapes' /\ pc'[r] = "idle" /\ job'[r] = NoJob /\ work'[r] = NoWork
    BY <1>1, ShapesKept, Blank, NoJobFits DEF Commit, End
  <1>3. \A q \in Requests : (JobFits(pc[q], job[q]) /\ WorkFits(pc[q], job[q], work[q]))'
    <2>1. JobFits(pc[r], job[r])'
      BY <1>2 DEF JobFits
    <2>2. WorkFits(pc[r], job[r], work[r])'
      BY <1>2, Blank, BlankFits DEF WorkFits
    <2>3. QED
      BY <2>1, <2>2, CommitSpares
  <1>4. RecordsTypeOK'
    <2>1. \A q \in Requests : job'[q].ids \in Seq(Ids) /\ job'[q].ask \in Asks /\ job'[q].read \in Stored
      BY <1>2 DEF Shapes, Jobs
    <2>2. work' \in [Requests -> [Tables -> [Ids -> Rows \cup {Absent, Gone, Unwritten}]]]
      BY <1>2 DEF Shapes, Works, Stored
    <2>3. row' \in [Tables -> [Ids -> Rows \cup {Absent, Gone}]] /\ listed' \in [Ids -> SUBSET (0 .. 1)]
      BY CommitMakes DEF Stored
    <2>4. scope' \in Scopes /\ edits' \in 0 .. MaxEdits /\ exempt' \subseteq Ids
      BY DEF RecordsInv, RecordsTypeOK, Commit, End
    <2>5. \A q \in Requests : pc'[q] \in Steps /\ (pc'[q] = "merge" => job'[q].read \in Rows)
      BY <1>2 DEF Shapes
    <2>6. QED
      BY <2>1, <2>2, <2>3, <2>4, <2>5 DEF RecordsTypeOK, Stored, Steps
  <1>5. QED
    BY <1>2, <1>3, <1>4, CommitTables, CommitApart, CommitRoom DEF RecordsInv

-----------------------------------------------------------------------------
\* One of two requests that wait for each other fails.
LEMMA DeadlockVictimInv ==
    ASSUME RecordsInv, NEW r \in Requests, DeadlockVictim(r)
    PROVE  RecordsInv'
  BY BreakInv DEF DeadlockVictim

\* The invariant is inductive.
LEMMA NextRecords == RecordsInv /\ [RecordsNext]_recordVars => RecordsInv'
  <1> SUFFICES ASSUME RecordsInv, [RecordsNext]_recordVars PROVE RecordsInv'
    OBVIOUS
  <1>1. CASE RecordsNext
    <2>1. PICK r \in Requests :
             \/ CategoryRequest(r) \/ TemplateRequest(r) \/ PriceRequest(r)
             \/ OutletRequest(r) \/ MethodRequest(r)
             \/ UserRequest(r) \/ CashierRequest(r) \/ TenantRequest(r)
             \/ FlagRequest(r) \/ OverrideRequest(r)
             \/ ZoneRequest(r) \/ PickupRequest(r)
             \/ RecordsStep(r)
      BY <1>1 DEF RecordsNext
    <2>2. CASE RecordsStep(r)
      BY <2>2, ReadRowInv, MergeRowInv, SetActiveInv, CheckKeyInv, CheckOutletLimitInv, InsertRowInv,
         CountRowsInv, ReadPageInv, PageCutOffInv, SetTenantPriceInv, SetQuickAddInv, SetTenantFlagInv,
         DeleteOverridesInv, DeleteFlagRowInv, GetZoneFeeInv, InsertPickupInv,
         DeadlockVictimInv, CommitInv, RollBackInv DEF RecordsStep
    <2>3. CASE ~RecordsStep(r)
      BY <2>1, <2>3, PlainRequestInv, PriceRequestInv, FlagRequestInv, OverrideRequestInv,
         PickupRequestInv
    <2>4. QED
      BY <2>2, <2>3
  <1>2. CASE UNCHANGED recordVars
    <2>1. /\ scope' = scope /\ row' = row /\ work' = work /\ pc' = pc /\ job' = job
          /\ edits' = edits /\ exempt' = exempt /\ listed' = listed
      BY <1>2 DEF recordVars
    <2>2. RecordsTypeOK' /\ Shapes'
      BY <2>1 DEF RecordsInv, RecordsTypeOK, Shapes
    <2>3. \A t \in Tables, i \in Ids : RowFits(t, i)'
      BY <2>1 DEF RecordsInv, RowFits
    <2>4. \A q \in Requests : (JobFits(pc[q], job[q]) /\ WorkFits(pc[q], job[q], work[q]))'
      BY <2>1, StaysFit
    <2>6. WritersApart' /\ KeysApart' /\ KeysUnique' /\ GoneAlone' /\ OverridesHaveFlags'
      BY <2>1 DEF RecordsInv, WritersApart, KeysApart, KeysUnique, GoneAlone, OverridesHaveFlags
    <2>7. RoomLeft'
      BY <2>1 DEF RecordsInv, RoomLeft, Used, Coming
    <2>8. QED
      BY <2>2, <2>3, <2>4, <2>6, <2>7 DEF RecordsInv
  <1>3. QED
    BY <1>1, <1>2

\* It holds of every behaviour.
LEMMA RecordsInvariant == RecordsSpec => []RecordsInv
  BY InitRecords, NextRecords, PTL DEF RecordsSpec

\* Each request holds a job of its step, and each table rows of its kind.
THEOREM RecordsTypeCorrect == RecordsSpec => []RecordsTypeOK
  <1>1. RecordsInv => RecordsTypeOK
    BY DEF RecordsInv
  <1>2. QED
    BY <1>1, RecordsInvariant, PTL

\* No key, no override and no fee is out of place, a whole page shows what was counted,
\* and the plan is exceeded by no more than the requests in progress
\* (tenant_service.go:85-93, feature_flag_service.go:110-126,
\* owner/outlet_handler.go:42-69, delivery_service.go:254-307).
THEOREM RecordsStayConsistent == RecordsSpec => []RecordsConsistent
  <1>1. RecordsInv => RecordsConsistent
    <2> SUFFICES ASSUME RecordsInv PROVE RecordsConsistent
      OBVIOUS
    <2>1. KeysUnique /\ OverridesHaveFlags
      BY DEF RecordsInv
    <2>2. PageCoversCount
      <3>1. \A r \in Requests : JobFits(pc[r], job[r])
        BY DEF RecordsInv
      <3>2. QED
        BY <3>1 DEF PageCoversCount, JobFits
    <2>3. OutletOvershootBounded
      <3>1. Cardinality(Used) <= MaxOutlets + Cardinality(Requests) - 1
        BY FiniteOnes, OutletsAssumption DEF RecordsInv, RoomLeft
      <3>2. QED
        BY <3>1 DEF OutletOvershootBounded, Used
    <2>4. PickupFeeWasListed
      <3>1. "pickup" \in Tables
        BY InTables
      <3>2. \A i \in Ids : row["pickup"][i] \in Stored /\ RowFits("pickup", i)
        BY <3>1, AtStep, RequestsAssumption DEF RecordsInv
      <3>3. QED
        BY <3>2, Marks DEF PickupFeeWasListed, RowFits
    <2>5. QED
      BY <2>1, <2>2, <2>3, <2>4 DEF RecordsConsistent
  <1>2. QED
    BY <1>1, RecordsInvariant, PTL

-----------------------------------------------------------------------------
(***************************************************************************)
(* What a step may change.                                                 *)
(***************************************************************************)
\* The tables change by commits alone.
LEMMA CommitsAlone ==
    ASSUME NEW r \in Requests, RecordsStep(r), ~Commit(r)
    PROVE  row' = row
  BY DEF RecordsStep, ReadRow, MergeRow, SetActive, CheckKey, CheckOutletLimit, InsertRow, CountRows,
     ReadPage, PageCutOff, SetTenantPrice, SetQuickAdd, SetTenantFlag, DeleteOverrides, DeleteFlagRow, GetZoneFee,
     InsertPickup, DeadlockVictim, RollBack, Go, Write, Break

\* A request that begins changes no table.
LEMMA RequestsOnlyBegin ==
    ASSUME NEW r \in Requests,
           \/ CategoryRequest(r) \/ TemplateRequest(r) \/ PriceRequest(r)
           \/ OutletRequest(r) \/ MethodRequest(r)
           \/ UserRequest(r) \/ CashierRequest(r) \/ TenantRequest(r)
           \/ FlagRequest(r) \/ OverrideRequest(r)
           \/ ZoneRequest(r) \/ PickupRequest(r)
    PROVE  row' = row
  <1>1. \A at, j : Begin(r, at, j) => row' = row
    BY DEF Begin
  <1>2. /\ \A t, i, ask : Updating(r, t, i, ask) => row' = row
        /\ \A t, i : Deleting(r, t, i) => row' = row
        /\ \A t : Creating(r, t) \/ Listing(r, t) => row' = row
        /\ \A t, k : CreatingKeyed(r, t, k) => row' = row
    BY <1>1 DEF Updating, Deleting, Creating, Listing, CreatingKeyed
  <1>3. CASE CategoryRequest(r) \/ TemplateRequest(r) \/ MethodRequest(r)
    BY <1>2, <1>3 DEF CategoryRequest, ListCategories, CreateCategory, UpdateCategory, DeleteCategory,
       TemplateRequest, ListTemplates, CreateTemplate, UpdateTemplate, DeleteTemplate,
       MethodRequest, ListMethods, CreateMethod, UpdateMethod, DeleteMethod
  <1>4. CASE OutletRequest(r) \/ ZoneRequest(r) \/ PriceRequest(r)
    BY <1>1, <1>2, <1>4 DEF OutletRequest, ListOutlets, CreateOutlet, OwnerCreateOutlet, UpdateOutlet,
       DeleteOutlet, ZoneRequest, CreateZone, UpdateZone, DeleteZone,
       PriceRequest, SetPrice, BulkSetPrices
  <1>5. CASE UserRequest(r) \/ CashierRequest(r) \/ TenantRequest(r)
    BY <1>2, <1>5 DEF UserRequest, ListUsers, CreateUser, UpdateUser, DeleteUser,
       CashierRequest, ListCashiers, TenantRequest, ListTenants, CreateTenant, UpdateTenant, DeleteTenant
  <1>6. CASE FlagRequest(r) \/ OverrideRequest(r) \/ PickupRequest(r)
    BY <1>1, <1>2, <1>6 DEF FlagRequest, CreateFlag, UpdateFlag, DeleteFlag, OverrideRequest,
       PickupRequest, CreatePickupRequest, UpdatePickupRequestStatus
  <1>7. QED
    BY <1>3, <1>4, <1>5, <1>6

\* A request that ends and changes a table has committed.
LEMMA EndsByCommit ==
    ASSUME RecordsInv, [RecordsNext]_recordVars, NEW r \in Requests,
           pc[r] = "done", pc'[r] = "idle", row' # row
    PROVE  Commit(r)
  <1>1. RecordsNext
    BY DEF recordVars
  <1>2. PICK q \in Requests : RecordsStep(q)
    BY <1>1, RequestsOnlyBegin DEF RecordsNext
  <1>3. Commit(q)
    BY <1>2, CommitsAlone
  <1>4. q = r
    BY <1>3, CommitSpares
  <1>5. QED
    BY <1>3, <1>4

\* What an edit was not asked to change it writes back as it read it.
LEMMA UnaskedKept ==
    ASSUME RecordsInv, [RecordsNext]_recordVars, NEW r \in Requests,
           pc[r] = "done", job[r].op = "update", pc'[r] = "idle",
           row[Table(r)][Id(r)] = job[r].read,
           NEW c \in {"data", "active"}, c \notin DOMAIN job[r].ask
    PROVE  row'[Table(r)][Id(r)][c] = row[Table(r)][Id(r)][c]
  <1> SUFFICES ASSUME row' # row PROVE row'[Table(r)][Id(r)][c] = row[Table(r)][Id(r)][c]
    OBVIOUS
  <1>1. Commit(r)
    BY EndsByCommit
  <1>2. PICK j \in Jobs : j = job[r]
    BY AtStep
  <1>3. JobFits("done", j) /\ j.op = "update"
    BY <1>2, AtStep
  <1>4. j.table \in Edited /\ j.ids # <<>>
    BY <1>3 DEF JobFits
  <1>5. PICK i \in Ids, t \in Tables : i = Id(r) /\ t = Table(r)
    BY <1>2, <1>4, FirstId, InTables DEF Table
  <1>6. i = Head(j.ids) /\ t = j.table /\ row[t][i] = j.read /\ c \notin DOMAIN j.ask
    BY <1>2, <1>5 DEF Id, Table
  <1>7. CASE work[r][t][i] = Unwritten
    BY <1>1, <1>5, <1>7, CommitMakes
  <1>8. CASE work[r][t][i] # Unwritten
    <2>1. PICK x : x = work[r][t][i]
      OBVIOUS
    <2>2. row'[t][i] = x /\ AsAsked(job[r], t, i, x)
      BY <1>1, <1>8, <2>1, CommitMakes
    <2>3. x = Merged(j.ask, j.read)
      BY <1>2, <1>3, <1>6, <2>2 DEF AsAsked
    <2>4. c \in DOMAIN j.read
      <3>1. j.read \in Stored
        BY DEF Jobs
      <3>2. QED
        BY <3>1 DEF Stored, Rows, Absent, Gone
    <2>5. x[c] = j.read[c]
      BY <1>6, <2>3, <2>4 DEF Merged
    <2>6. QED
      BY <1>5, <1>6, <2>2, <2>5
  <1>9. QED
    BY <1>7, <1>8

\* A price is written by a request to set prices that is through with them, or
\* by a mark where there was none.
LEMMA PricesTogether ==
    ASSUME RecordsInv, [RecordsNext]_recordVars, NEW r \in Requests, NEW i \in Ids,
           pc[r] = "done", pc'[r] = "idle", row' # row,
           row'["price"][i].data # row["price"][i].data
    PROVE  \/ job[r].op = "price" /\ job[r].ids = <<>>
           \/ job[r].op = "quick add" /\ ~Exists(row["price"][i])
  <1>1. Commit(r)
    BY EndsByCommit
  <1>2. PICK t \in Tables : t = "price"
    BY InTables
  <1>3. work[r][t][i] # Unwritten
    BY <1>1, <1>2, CommitMakes
  <1>4. PICK x : x = work[r][t][i]
    OBVIOUS
  <1>5. PICK j \in Jobs : j = job[r]
    BY AtStep
  <1>6. row'[t][i] = x /\ AsAsked(j, t, i, x) /\ JobFits("done", j)
    BY <1>1, <1>3, <1>4, <1>5, AtStep, CommitMakes
  <1>7. \/ j.op = "price"
        \/ j.op = "quick add" /\ (row[t][i] \in Rows => x.data = row[t][i].data)
    BY <1>2, <1>6 DEF AsAsked
  <1>8. j.op = "price" => j.ids = <<>>
    BY <1>6 DEF JobFits
  <1>9. row[t][i] \notin Rows => ~Exists(row[t][i])
    BY AtStep, Marks
  <1>10. QED
    BY <1>2, <1>5, <1>6, <1>7, <1>8, <1>9

\* An edit changes what it names, whole, and nothing else: what was changed since
\* its SELECT apart, no edit undoes another, and the prices of one request change
\* together (service_template_service.go:85-122, service_price_handler.go:113-143).
THEOREM EditsKeepTheRest == RecordsSpec => EditsChangeWhatTheyName
  <1>1. RecordsSpec => UnaskedColumnsKept
    <2>1. RecordsInv /\ [RecordsNext]_recordVars =>
            [\A r \in Requests :
                pc[r] = "done" /\ job[r].op = "update" /\ pc'[r] = "idle" =>
                   LET before == row[Table(r)][Id(r)]
                       after == row'[Table(r)][Id(r)]
                   IN before = job[r].read =>
                         \A c \in {"data", "active"} : after[c] # before[c] => c \in DOMAIN job[r].ask
            ]_recordVars
      BY UnaskedKept
    <2>2. QED
      BY <2>1, RecordsInvariant, PTL DEF RecordsSpec, UnaskedColumnsKept
  <1>2. RecordsSpec => PricesChangeTogether
    <2>1. RecordsInv /\ [RecordsNext]_recordVars =>
            [\A r \in Requests, i \in Ids :
                /\ pc[r] = "done" /\ pc'[r] = "idle" /\ row' # row
                /\ row'["price"][i].data # row["price"][i].data
                => \/ job[r].op = "price" /\ job[r].ids = <<>>
                   \/ job[r].op = "quick add" /\ ~Exists(row["price"][i])]_recordVars
      BY PricesTogether
    <2>2. QED
      BY <2>1, RecordsInvariant, PTL DEF RecordsSpec, PricesChangeTogether
  <1>3. QED
    BY <1>1, <1>2 DEF EditsChangeWhatTheyName

-----------------------------------------------------------------------------
(***************************************************************************)
(* The three together.                                                     *)
(***************************************************************************)
\* A step of one of them is a step of each: a stutter of the other two.
LEMMA EachSteps ==
    ASSUME [Next]_<<desk, recordVars, accountVars, limiterVars>>
    PROVE  /\ [RecordsNext]_recordVars
           /\ [AccountsNext]_accountVars
           /\ [LimiterNext]_limiterVars
  BY DEF Next

\* Every variable of administration keeps its type, whichever desk is at work
\* (auth_service.go:133-153, ratelimit.go:40-74).
THEOREM AdministrationTypeCorrect ==
    Init /\ [][Next]_<<desk, recordVars, accountVars, limiterVars>> => []AdministrationTypeOK
  <1>1. Init => RecordsInv /\ AccountsInv /\ LimiterInv
    BY InitRecords, InitAccounts, InitCovered DEF Init
  <1>2. /\ RecordsInv /\ AccountsInv /\ LimiterInv
        /\ [Next]_<<desk, recordVars, accountVars, limiterVars>>
        => (RecordsInv /\ AccountsInv /\ LimiterInv)'
    BY EachSteps, NextRecords, NextAccounts, NextCovered
  <1>3. RecordsInv /\ AccountsInv /\ LimiterInv => AdministrationTypeOK
    BY DEF RecordsInv, AccountsInv, LimiterInv, AdministrationTypeOK
  <1>4. QED
    BY <1>1, <1>2, <1>3, PTL
=============================================================================
