---------------------------- MODULE MCAdministration ----------------------------
EXTENDS Administration, TLC
CONSTANTS t1, t2, t3, a1, a2, w1, w2
Processes == (t1 :> "p1") @@ (t2 :> "p1") @@ (t3 :> "p2")
Served == (t1 :> Routes) @@ (t2 :> {logout})
Alike == Permutations({a1, a2}) \cup Permutations({w1, w2})
=============================================================================
