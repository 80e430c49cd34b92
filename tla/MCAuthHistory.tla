--------------------------- MODULE MCAuthHistory ----------------------------
EXTENDS AuthHistory, TLC
CONSTANTS w1, w2, u1, f1, f2
\* Two logins of one user, the first of which refreshes.
OneUser == (f1 :> u1) @@ (f2 :> u1)
Pairs == (f1 :> 2) @@ (f2 :> 1)
Symmetry == Permutations({w1, w2})
=============================================================================
