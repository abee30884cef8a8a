-------------------------- MODULE MC_Administration --------------------------
(***************************************************************************)
(* Records, Accounts and RateLimiter for TLC.  Each keeps its own rows: a  *)
(* registration (Accounts) adds rows of a new tenant, of which no request  *)
(* of Records knows, and the limiters keep none.  What one of them does    *)
(* makes no difference to another, so that each behaviour is about one of  *)
(* them, chosen at the start, and the others keep their first state.       *)
(***************************************************************************)
EXTENDS Records, Accounts, RateLimiter

VARIABLE desk

MCScopes == {{"category"}, {"method"}, {"outlet"}, {"user"}, {"tenant"},
             {"template", "price"}, {"flag", "override"}, {"zone", "pickup"}}
MCFirst == <<"s1", "e1">>
MCMax == [l \in Limiters |-> IF l = "auth" THEN 1 ELSE 2]
Interchangeable == Permutations(Requests) \cup Permutations(Visitors)

Init ==
    /\ RecordsInit /\ AccountsInit /\ LimiterInit
    /\ desk \in {"records", "accounts", "limiter"}
    /\ desk # "records" => scope = {"category"}
    /\ desk # "limiter" => backend = [l \in Limiters |-> "memory"]

Next ==
    /\ UNCHANGED desk
    /\ \/ desk = "records" /\ RecordsNext /\ UNCHANGED <<accountVars, limiterVars>>
       \/ desk = "accounts" /\ AccountsNext /\ UNCHANGED <<recordVars, limiterVars>>
       \/ desk = "limiter" /\ LimiterNext /\ UNCHANGED <<recordVars, accountVars>>

\* Every variable keeps its type: among other things, no UPDATE brings back a row
\* that is gone, no session is of a user who was never stored
\* (auth_service.go:133-153), and memory keeps nothing that it refused.
AdministrationTypeOK == RecordsTypeOK /\ AccountsTypeOK /\ LimiterTypeOK
=============================================================================
