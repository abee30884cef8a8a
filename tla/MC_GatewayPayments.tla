------------------------ MODULE MC_GatewayPayments ------------------------
(***************************************************************************)
(* Instances of GatewayPayments for TLC.                                   *)
(***************************************************************************)
EXTENDS GatewayPayments, TLC

\* One status word of each class that mapXenditStatus tells apart: paid,
\* reopenable, final for good, and one it does not know.
SafetyNotices == {"COMPLETED", "EXPIRED", "CANCELLED", "INACTIVE"}

\* For the temporal properties, which admit no symmetry.
LivenessNotices == {"COMPLETED", "EXPIRED"}

\* Requests, items, terms and charges are interchangeable.
Symmetric ==
    Permutations(Requests) \cup Permutations(Items) \cup Permutations(Terms)
        \cup Permutations(Charges)
=============================================================================
