---------------------------- MODULE StockHistory ----------------------------
(***************************************************************************)
(* StockReservation with two history variables.  `disturbed' collects the  *)
(* products for which a request used a value that was no longer the        *)
(* committed one (a stale identity map, a stale cache entry, a reservation *)
(* status loaded before another request changed it) or whose quantities an *)
(* admin set by PATCH; `past' the row versions that were ever committed.   *)
(***************************************************************************)
EXTENDS StockReservation, FiniteSetsExt

\* A tenant has finitely many rows in the table of reservations.
ASSUME ReservationAssumption == IsFiniteSet(Reservation)

VARIABLES disturbed, past

hvars == <<vars, disturbed, past>>

\* w writes p although the row was committed again since w loaded it.
StaleWrite(w, p) ==
    plock'[p] = w /\ plock[p] # w /\ tx[w].base[p] # stable[p]

\* get_by_id answers w with a cache entry that is not the committed row.
StaleHit(w, p) ==
    /\ tx[w].pc = "next" /\ tx'[w].pc = "flush" /\ tx[w].op \in GetOps
    /\ tx'[w].cur = p /\ cache[p] # stable[p]

\* w writes the status of r although it was committed again since w loaded it.
StaleStatus(w, r) ==
    /\ rlock'[r] = w /\ rlock[r] # w
    /\ tx[w].op \in {"confirm", "cancel"} /\ tx[w].from # stableStatus[r]

\* An admin's PATCH sets the quantities of p.
PatchWrite(w, p) == plock'[p] = w /\ plock[p] # w /\ tx[w].op = "patch"

HInit == Init /\ disturbed = {} /\ past = [p \in Product |-> {stable[p]}]

HNext ==
    /\ Next
    /\ disturbed' = disturbed \cup
         {p \in Product : \E w \in Worker :
            \/ StaleWrite(w, p) \/ StaleHit(w, p) \/ PatchWrite(w, p)
            \/ \E r \in Reservation : p \in Lines(r) /\ StaleStatus(w, r)}
    /\ past' = [p \in Product |-> past[p] \cup {stable'[p]}]

HSpec == HInit /\ [][HNext]_hvars

HFairSpec == HSpec /\ Fairness

-----------------------------------------------------------------------------
Booked(p) ==
    LET q(r) == IF stableStatus[r] = "confirmed" THEN Quantity[r][p] ELSE 0
    IN  MapThenSumSet(q, Reservation)

\* Stock is lost or invented only through the use of a stale value: on every
\* other product, what is available and what confirmed reservations hold always
\* add up to the stock it started with.
ConservedUnlessDisturbed ==
    \A p \in Product \ disturbed : stable[p].avail + Booked(p) = Stock[p]

\* A soft-deleted product comes back only through such a value: no handler
\* restores one.
DeletedUnlessDisturbed ==
    [][\A p \in Product \ disturbed' : ~stable[p].active => ~stable'[p].active]_hvars

\* The cache may be stale but never holds what was not committed: neither a
\* pending change of a request nor a mixture of two versions.
CacheHoldsCommittedRows ==
    \A p \in Product : cache[p] # NoEntry => cache[p] \in past[p]

\* Served one at a time and without the cache, the handlers implement the
\* ledger: stock moves only with a status, all lines at once.
Ledger == INSTANCE StockLedger
            WITH avail <- [p \in Product |-> stable[p].avail], state <- stableStatus
ImplementsLedger == Ledger!LSpec

\* "La gestion de race condition (SELECT FOR UPDATE dans le service) couvre le
\* cas concurrent en prod": confirmed reservations never hold more than the stock.
NeverOversold ==
    \A p \in Product : Booked(p) <= Stock[p]

\* "DRAFT -> CONFIRMED -> DELIVERED -> RETURNED, \ CANCELLED": the workflow has no
\* way out of CANCELLED.
CancelledIsFinal ==
    [][\A r \in Reservation :
         stableStatus[r] = "cancelled" => stableStatus'[r] = "cancelled"]_vars

\* "Write-through : Invalidation immediate sur mutation": once a request that
\* changed a product has committed, the cache no longer answers the old row.
MutationInvalidates ==
    [][\A p \in Product : stable'[p] # stable[p] => cache'[p] \in {NoEntry, stable'[p]}]_vars
=============================================================================
