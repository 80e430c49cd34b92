--------------------------- MODULE MCStockHistory ---------------------------
EXTENDS StockHistory, TLC
CONSTANTS w1, w2, r1, r2, p1, p2
\* r1 takes all of p1, so that r1 and r2 compete for it; both also need p2.
TwoProducts == (r1 :> (p1 :> 2 @@ p2 :> 1)) @@ (r2 :> (p1 :> 1 @@ p2 :> 1))
OneProduct == (r1 :> (p1 :> 1)) @@ (r2 :> (p1 :> 1))
SameProducts == (r1 :> (p1 :> 1 @@ p2 :> 1)) @@ (r2 :> (p1 :> 1 @@ p2 :> 1))
ShrinkPatch == {[fields |-> {"stock"}, stock |-> 0, avail |-> 0]}
TwoOfEach == [p \in Product |-> 2]
OneOfEach == [p \in Product |-> 1]
NoPatches == {}
=============================================================================
