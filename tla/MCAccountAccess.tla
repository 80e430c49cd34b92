------------------------------ MODULE MCAccountAccess -----------------------------
EXTENDS AccountAccess, TLC
CONSTANTS a1, e1, i1, p1, p2, k1, k2, c1, c2
Limits == ("global" :> 2) @@ ("login" :> 1)
OldHash == (e1 :> [pass |-> p1, legacy |-> TRUE])
=============================================================================
