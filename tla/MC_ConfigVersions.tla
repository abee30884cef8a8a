------------------------- MODULE MC_ConfigVersions -------------------------
(***************************************************************************)
(* Instances of ConfigVersions for TLC: pushes to one tenant, broadcasts   *)
(* to two tenants in both orders, to one tenant twice, and to nobody.      *)
(***************************************************************************)
EXTENDS ConfigVersions, TLC

CONSTANTS t1, t2

CrossedBroadcasts == {<<>>, <<t1>>, <<t1, t2>>, <<t2, t1>>, <<t1, t1>>}
MostOfOne == (t1 :> 3) @@ (t2 :> 1)
Symmetric == Permutations(Requests)
=============================================================================
