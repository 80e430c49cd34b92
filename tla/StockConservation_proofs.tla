----------------------- MODULE StockConservation_proofs -----------------------
(***************************************************************************)
(* Stock is neither lost nor invented, for any number of workers, products *)
(* and reservations: on every product no stale value was used for, what is *)
(* available and what confirmed reservations hold add up to the stock it   *)
(* started with; and while no stale value is used the handlers implement   *)
(* the ledger.                                                             *)
(*                                                                         *)
(* The balance is about committed rows, and a commit publishes rows that   *)
(* were written line by line.  CInv keeps an account of every request: a   *)
(* row it has locked differs from the committed one by exactly what its    *)
(* operation moves (Moved), creating and deleting move nothing (Copied), a *)
(* status about to change is the committed one it was loaded as (Known),   *)
(* and a cancellation has loaded a row into which what it gives back fits, *)
(* so that the cap of release_stock never bites (Plan).                    *)
(***************************************************************************)
EXTENDS StockReservation_proofs, FiniteSetTheorems

-----------------------------------------------------------------------------
(* Sums over a finite set.  What MapThenSumSet computes is a function f on *)
(* the subsets, defined by recursion; the facts a proof needs of it are    *)
(* found on a smallest set that would not have them.                       *)

\* Among the members of a non-empty collection of subsets of a finite set, one
\* includes no other.
LEMMA SmallestSet ==
    ASSUME NEW S, IsFiniteSet(S), NEW T \in SUBSET (SUBSET S), T # {}
    PROVE  \E s \in T : \A t \in T : t \subseteq s => t = s
<1>1. IsWellFoundedOn(StrictSubsetOrdering(S), FiniteSubsetsOf(S))
  BY FS_StrictSubsetOrderingWellFounded
<1>2. T \subseteq FiniteSubsetsOf(S)
  BY FS_FiniteSubsetsOfFinite
<1>3. \E s \in T : \A t \in T : ~ (<<t, s>> \in StrictSubsetOrdering(S))
  BY ONLY <1>1, <1>2, T # {}, WFMin
<1> QED
  BY <1>3 DEF StrictSubsetOrdering

Some(s) == CHOOSE x \in s : TRUE

\* f adds up the values of v over each subset of S, one element at a time.
Adds(f, v, S) ==
    f = [s \in SUBSET S |-> IF s = {} THEN 0 ELSE v[Some(s)] + f[s \ {Some(s)}]]

LEMMA AddsAt ==
    ASSUME NEW S, NEW v, NEW f, Adds(f, v, S), NEW s \in SUBSET S
    PROVE  /\ s = {} => f[s] = 0
           /\ s # {} => f[s] = v[Some(s)] + f[s \ {Some(s)}] /\ Some(s) \in s
BY DEF Adds, Some

\* Sums of natural numbers are natural numbers.
LEMMA AddsNat ==
    ASSUME NEW S, IsFiniteSet(S), NEW v \in [S -> Nat], NEW f, Adds(f, v, S)
    PROVE  \A s \in SUBSET S : f[s] \in Nat
<1> DEFINE T == {s \in SUBSET S : f[s] \notin Nat}
<1> SUFFICES ASSUME T # {} PROVE FALSE
  OBVIOUS
<1>0. T \in SUBSET (SUBSET S)
  OBVIOUS
<1>1. PICK s \in T : \A t \in T : t \subseteq s => t = s
  <2> HIDE DEF T
  <2> QED
    BY <1>0, SmallestSet
<1>2. s # {} /\ f[s] = v[Some(s)] + f[s \ {Some(s)}] /\ Some(s) \in s
  BY AddsAt
<1>3. s \ {Some(s)} \notin T
  BY <1>1, <1>2
<1>4. v[Some(s)] \in Nat /\ f[s \ {Some(s)}] \in Nat
  BY <1>2, <1>3
<1> QED
  BY <1>1, <1>2, <1>4

\* The order does not matter: any element can be taken out first.
LEMMA AddsAny ==
    ASSUME NEW S, IsFiniteSet(S), NEW v \in [S -> Nat], NEW f, Adds(f, v, S)
    PROVE  \A s \in SUBSET S : \A x \in s : f[s] = v[x] + f[s \ {x}]
<1> DEFINE T == {s \in SUBSET S : \E x \in s : f[s] # v[x] + f[s \ {x}]}
<1> SUFFICES ASSUME T # {} PROVE FALSE
  OBVIOUS
<1>0. T \in SUBSET (SUBSET S)
  OBVIOUS
<1>1. PICK s \in T : \A t \in T : t \subseteq s => t = s
  <2> HIDE DEF T
  <2> QED
    BY <1>0, SmallestSet
<1>2. PICK x \in s : f[s] # v[x] + f[s \ {x}]
  BY <1>1
<1>3. PICK y \in s : y = Some(s) /\ f[s] = v[y] + f[s \ {y}]
  <2>1. s # {} /\ s \in SUBSET S
    BY <1>2
  <2>2. f[s] = v[Some(s)] + f[s \ {Some(s)}] /\ Some(s) \in s
    BY <2>1, AddsAt
  <2> QED
    BY <2>2
<1>4. x # y
  BY <1>2, <1>3
<1>5. s \ {x} \notin T /\ s \ {y} \notin T
  BY <1>1, <1>2, <1>3
<1>6. f[s \ {y}] = v[x] + f[(s \ {y}) \ {x}]
  BY <1>5, <1>4
<1>7. (s \ {x}) \ {y} = (s \ {y}) \ {x}
  OBVIOUS
<1>8. f[s \ {x}] = v[y] + f[(s \ {y}) \ {x}]
  BY <1>5, <1>4, <1>7
<1>9. s \in SUBSET S
  OBVIOUS
<1>10. v[x] \in Nat /\ v[y] \in Nat
  BY <1>9
<1>11. PICK z \in Nat : z = f[(s \ {y}) \ {x}]
  BY AddsNat, <1>9
<1>12. f[s] = v[y] + (v[x] + z)
  BY <1>3, <1>6, <1>11
<1>13. f[s \ {x}] = v[y] + z
  BY <1>8, <1>11
<1> QED
  BY ONLY <1>2, <1>10, <1>12, <1>13, z \in Nat

\* A sum depends only on the values it adds.
LEMMA AddsAgree ==
    ASSUME NEW S, IsFiniteSet(S), NEW U, NEW v, NEW u, NEW f, NEW g,
           Adds(f, v, S), Adds(g, u, U)
    PROVE  \A s \in (SUBSET S) \cap (SUBSET U) : (\A r \in s : v[r] = u[r]) => f[s] = g[s]
<1> DEFINE T == {s \in (SUBSET S) \cap (SUBSET U) :
                   (\A r \in s : v[r] = u[r]) /\ f[s] # g[s]}
<1> SUFFICES ASSUME T # {} PROVE FALSE
  OBVIOUS
<1>0. T \in SUBSET (SUBSET S)
  OBVIOUS
<1>1. PICK s \in T : \A t \in T : t \subseteq s => t = s
  <2> HIDE DEF T
  <2> QED
    BY <1>0, SmallestSet
<1>2. /\ s \in SUBSET S /\ s \in SUBSET U /\ f[s] # g[s]
      /\ \A r \in s : v[r] = u[r]
  OBVIOUS
<1>3. s # {}
  BY <1>2, AddsAt
<1>4. Some(s) \in s /\ f[s] = v[Some(s)] + f[s \ {Some(s)}]
  BY <1>2, <1>3, AddsAt
<1>5. g[s] = u[Some(s)] + g[s \ {Some(s)}]
  BY <1>2, <1>3, AddsAt
<1>6. s \ {Some(s)} \notin T
  BY <1>1, <1>4
<1>7. f[s \ {Some(s)}] = g[s \ {Some(s)}]
  BY <1>6, <1>2
<1> QED
  BY <1>2, <1>4, <1>5, <1>7

\* The recursion defines a function.
LEMMA AddsExists ==
    ASSUME NEW S, IsFiniteSet(S), NEW v
    PROVE  \E f : Adds(f, v, S)
<1> DEFINE T == {s \in SUBSET S : ~ \E f : Adds(f, v, s)}
<1> SUFFICES ASSUME T # {} PROVE FALSE
  OBVIOUS
<1>0. T \in SUBSET (SUBSET S)
  OBVIOUS
<1>1. PICK s \in T : \A t \in T : t \subseteq s => t = s
  <2> HIDE DEF T
  <2> QED
    BY <1>0, SmallestSet
<1>2. s \in SUBSET S /\ ~ \E f : Adds(f, v, s)
  OBVIOUS
<1>3. \A t \in SUBSET s : t # s => \E f : Adds(f, v, t)
  BY <1>1, <1>2
<1> DEFINE F(t) == CHOOSE f : Adds(f, v, t)
           f == [t \in SUBSET s |-> IF t = {} THEN 0
                                    ELSE v[Some(t)] + F(t \ {Some(t)})[t \ {Some(t)}]]
<1>4. ASSUME NEW t \in SUBSET s, t # s
      PROVE  Adds(F(t), v, t)
  BY <1>3, <1>4
<1> HIDE DEF F
<1>5. ASSUME NEW t \in SUBSET s, t # {}
      PROVE  f[t \ {Some(t)}] = F(t \ {Some(t)})[t \ {Some(t)}]
  <2> DEFINE u == t \ {Some(t)}
  <2>1. Some(t) \in t
    BY <1>5 DEF Some
  <2>2. u \in SUBSET s /\ u # s
    BY <2>1
  <2>3. Adds(F(u), v, u)
    BY <1>4, <2>2
  <2> HIDE DEF u
  <2>4. CASE u = {}
    <3>1. F(u)[u] = 0
      BY <2>3, <2>4, AddsAt
    <3>2. f[u] = 0
      BY <2>4, <2>2
    <3> QED
      BY <3>1, <3>2 DEF u
  <2>5. CASE u # {}
    <3> DEFINE rest == u \ {Some(u)}
    <3>1. Some(u) \in u
      BY <2>5 DEF Some
    <3>2. rest \in SUBSET s /\ rest # s /\ rest \in SUBSET u
      BY <2>2, <3>1
    <3>3. Adds(F(rest), v, rest)
      BY <1>4, <3>2
    <3>4. f[u] = v[Some(u)] + F(rest)[rest]
      BY <2>2, <2>5
    <3>5. F(u)[u] = v[Some(u)] + F(u)[rest]
      BY <2>3, <2>5, AddsAt
    <3> HIDE DEF rest
    <3>6. IsFiniteSet(u)
      BY <2>2, <1>2, FS_Subset
    <3>7. F(u)[rest] = F(rest)[rest]
      <4>1. rest \in (SUBSET u) \cap (SUBSET rest)
        BY <3>2
      <4> QED
        BY ONLY <4>1, <2>3, <3>3, <3>6, AddsAgree
    <3> QED
      BY ONLY <3>4, <3>5, <3>7, f[u] = f[u] DEF u
  <2> QED
    BY <2>4, <2>5 DEF u
<1>6. Adds(f, v, s)
  BY <1>5 DEF Adds
<1> QED
  BY <1>2, <1>6

-----------------------------------------------------------------------------
(* What confirmed reservations hold of a product.                          *)

Shares(statuses, p) ==
    [r \in Reservation |-> IF statuses[r] = "confirmed" THEN Quantity[r][p] ELSE 0]

\* n is the sum of the values of v over the reservations.
Sums(v, n) == \E f : Adds(f, v, Reservation) /\ n = f[Reservation]

LEMMA SharesTypes ==
    ASSUME NEW s, NEW p \in Product
    PROVE  Shares(s, p) \in [Reservation -> Nat]
BY QuantityAssumption DEF Shares

LEMMA BookedSums == ASSUME NEW p PROVE Sums(Shares(stableStatus, p), Booked(p))
<1> DEFINE some(s) == CHOOSE x \in s : TRUE
           share(r) == IF stableStatus[r] = "confirmed" THEN Quantity[r][p] ELSE 0
           Def(f) == f = [s \in SUBSET Reservation |->
                            IF s = {} THEN 0 ELSE share(some(s)) + f[s \ {some(s)}]]
           g == CHOOSE f : Def(f)
<1>1. Booked(p) = g[Reservation]
  BY DEF Booked, MapThenSumSet, MapThenFoldSet
<1>2. \A f : Adds(f, Shares(stableStatus, p), Reservation) <=> Def(f)
  BY DEF Adds, Shares, Some
<1> HIDE DEF Def
<1>3. \E f : Def(f)
  BY ONLY <1>2, AddsExists, ReservationAssumption
<1>4. Def(g)
  BY <1>3
<1> QED
  BY <1>1, <1>2, <1>4 DEF Sums

LEMMA BookedSumsNext == ASSUME NEW p PROVE Sums(Shares(stableStatus', p), Booked(p)')
<1> DEFINE some(s) == CHOOSE x \in s : TRUE
           share(r) == IF stableStatus'[r] = "confirmed" THEN Quantity[r][p] ELSE 0
           Def(f) == f = [s \in SUBSET Reservation |->
                            IF s = {} THEN 0 ELSE share(some(s)) + f[s \ {some(s)}]]
           g == CHOOSE f : Def(f)
<1>1. Booked(p)' = g[Reservation]
  BY DEF Booked, MapThenSumSet, MapThenFoldSet
<1>2. \A f : Adds(f, Shares(stableStatus', p), Reservation) <=> Def(f)
  BY DEF Adds, Shares, Some
<1> HIDE DEF Def
<1>3. \E f : Def(f)
  BY ONLY <1>2, AddsExists, ReservationAssumption
<1>4. Def(g)
  BY <1>3
<1> QED
  BY <1>1, <1>2, <1>4 DEF Sums

LEMMA SumBounds ==
    ASSUME NEW v \in [Reservation -> Nat], NEW n, Sums(v, n)
    PROVE  n \in Nat /\ \A r \in Reservation : v[r] <= n
<1>1. PICK f : Adds(f, v, Reservation) /\ n = f[Reservation]
  BY DEF Sums
<1>2. \A s \in SUBSET Reservation : f[s] \in Nat
  BY <1>1, AddsNat, ReservationAssumption
<1>3. ASSUME NEW r \in Reservation PROVE v[r] <= n
  <2>1. n = v[r] + f[Reservation \ {r}]
    BY <1>1, AddsAny, ReservationAssumption
  <2> QED
    BY <1>2, <2>1
<1> QED
  BY <1>1, <1>2, <1>3

\* The sum moves by what one value moves.
LEMMA SumChange ==
    ASSUME NEW v \in [Reservation -> Nat], NEW u \in [Reservation -> Nat], NEW n, NEW m,
           Sums(v, n), Sums(u, m), NEW r \in Reservation,
           \A x \in Reservation \ {r} : u[x] = v[x]
    PROVE  m = n - v[r] + u[r]
<1>1. PICK f : Adds(f, v, Reservation) /\ n = f[Reservation]
  BY DEF Sums
<1>2. PICK g : Adds(g, u, Reservation) /\ m = g[Reservation]
  BY DEF Sums
<1>3. n = v[r] + f[Reservation \ {r}] /\ f[Reservation \ {r}] \in Nat
  <2>1. \A x \in Reservation : f[Reservation] = v[x] + f[Reservation \ {x}]
    BY <1>1, AddsAny, ReservationAssumption
  <2>2. \A s \in SUBSET Reservation : f[s] \in Nat
    BY <1>1, AddsNat, ReservationAssumption
  <2> QED
    BY <1>1, <2>1, <2>2
<1>4. m = u[r] + g[Reservation \ {r}]
  BY <1>2, AddsAny, ReservationAssumption
<1>5. f[Reservation \ {r}] = g[Reservation \ {r}]
  <2>1. Reservation \ {r} \in (SUBSET Reservation) \cap (SUBSET Reservation)
    OBVIOUS
  <2> QED
    BY <1>1, <1>2, <2>1, AddsAgree, ReservationAssumption
<1> QED
  BY <1>3, <1>4, <1>5

LEMMA SumSame ==
    ASSUME NEW v, NEW n, NEW m, Sums(v, n), Sums(v, m)
    PROVE  n = m
<1>1. PICK f : Adds(f, v, Reservation) /\ n = f[Reservation]
  BY DEF Sums
<1>2. PICK g : Adds(g, v, Reservation) /\ m = g[Reservation]
  BY DEF Sums
<1>3. Reservation \in (SUBSET Reservation) \cap (SUBSET Reservation)
  OBVIOUS
<1> QED
  BY <1>1, <1>2, <1>3, AddsAgree, ReservationAssumption

LEMMA SumZero ==
    ASSUME NEW n, NEW v, Sums(v, n), \A r \in Reservation : v[r] = 0
    PROVE  n = 0
<1>1. PICK f : Adds(f, v, Reservation) /\ n = f[Reservation]
  BY DEF Sums
<1> DEFINE zero == [s \in SUBSET Reservation |-> 0]
           w == [r \in Reservation |-> 0]
<1>2. Adds(zero, w, Reservation)
  <2>1. \A s \in SUBSET Reservation : s # {} => Some(s) \in s /\ s \ {Some(s)} \in SUBSET Reservation
    BY DEF Some
  <2> QED
    BY <2>1 DEF Adds
<1>3. Reservation \in (SUBSET Reservation) \cap (SUBSET Reservation)
  OBVIOUS
<1>4. \A r \in Reservation : v[r] = w[r]
  OBVIOUS
<1>5. f[Reservation] = zero[Reservation]
  <2> HIDE DEF zero, w
  <2> QED
    BY <1>1, <1>2, <1>3, <1>4, AddsAgree, ReservationAssumption
<1> QED
  BY <1>1, <1>5

-----------------------------------------------------------------------------
(* The invariant.                                                          *)

\* What the request of w adds to the quantity available of a product.
Delta(w, p) ==
    CASE tx[w].op = "confirm" -> -Quantity[tx[w].res][p]
      [] tx[w].op = "cancel" -> Quantity[tx[w].res][p]
      [] OTHER -> 0

\* Nobody's rows and statuses are the committed ones.
Clean ==
    /\ \A p \in Product : plock[p] = NoWorker => row[p] = stable[p]
    /\ \A r \in Reservation : rlock[r] = NoWorker => status[r] = stableStatus[r]

Balance ==
    \A p \in Product \ disturbed :
      /\ stable[p].stock = Stock[p] /\ row[p].stock = Stock[p]
      /\ stable[p].avail + Booked(p) = Stock[p]

\* Where a confirmation or a cancellation stands.  The last conjunct is why a
\* release is not capped: what the reservation holds fits into what is missing.
Plan(w) ==
    /\ tx[w].pc = "fill" => tx[w].op \in GetOps
    /\ tx[w].op \in {"confirm", "cancel"} /\ tx[w].pc = "commit" => rlock[tx[w].res] = w
    /\ tx[w].op = "confirm" => tx[w].from = "draft"
    /\ tx[w].op = "cancel" =>
         /\ tx[w].from \in {"draft", "confirmed"}
         /\ tx[w].todo \subseteq Lines(tx[w].res)
         /\ tx[w].pc \in {"status", "commit"} => tx[w].todo = {}
         /\ tx[w].from = "draft" => tx[w].todo = {}
         /\ tx[w].from = "confirmed" =>
              \A p \in Lines(tx[w].res) \ tx[w].todo : plock[p] = w
         /\ \A p \in tx[w].todo :
              /\ tx[w].seen[p] = tx[w].base[p]
              /\ p \notin disturbed =>
                   /\ tx[w].base[p].stock = Stock[p]
                   /\ tx[w].base[p].avail + Quantity[tx[w].res][p] <= Stock[p]

\* What w has changed so far in the rows it has locked.
Moved(w) ==
    \A p \in Product : plock[p] = w =>
      /\ tx[w].pc # "idle" /\ p \notin tx[w].todo
      /\ tx[w].op = "cancel" => tx[w].from = "confirmed"
      /\ p \notin disturbed =>
           /\ tx[w].op # "patch"
           /\ row[p].avail = stable[p].avail + Delta(w, p)

\* Creating a reservation and deleting a product leave the quantities alone.
Copied(w) ==
    tx[w].pc = "flush" /\ tx[w].op \in {"create", "delete"} /\ tx[w].cur \notin disturbed =>
      /\ tx[w].seen[tx[w].cur].avail = tx[w].base[tx[w].cur].avail
      /\ tx[w].seen[tx[w].cur].stock = tx[w].base[tx[w].cur].stock

\* The committed status of the reservation w is about to change.
Known(w) ==
    \A r \in Reservation : rlock[r] = w =>
      /\ tx[w].op = "create" => stableStatus[r] = "absent"
      /\ tx[w].op \in {"confirm", "cancel"} =>
           \A p \in Lines(r) \ disturbed : stableStatus[r] = tx[w].from

Account(w) == Plan(w) /\ Moved(w) /\ Copied(w) /\ Known(w)

CInv == Clean /\ Balance /\ \A w \in Worker : Account(w)

-----------------------------------------------------------------------------
(* What a step of one worker leaves alone.                                 *)

Separate(w) ==
    \A v \in Worker \ {w} :
      /\ tx'[v] = tx[v]
      /\ \A p \in Product : plock[p] = v =>
           plock'[p] = v /\ row'[p] = row[p] /\ stable'[p] = stable[p]
      /\ \A p \in Product : plock'[p] = v => plock[p] = v
      /\ \A r \in Reservation : rlock[r] = v => rlock'[r] = v /\ stableStatus'[r] = stableStatus[r]
      /\ \A r \in Reservation : rlock'[r] = v => rlock[r] = v

LEMMA OthersAccount ==
    ASSUME CInv, IInv, Spreads, NEW w \in Worker, Separate(w), NEW v \in Worker \ {w}
    PROVE  Account(v)'
<1>0. /\ tx'[v] = tx[v] /\ tx[v] \in Session /\ Account(v)
      /\ \A p : p \notin disturbed' => p \notin disturbed
  BY DEF Separate, CInv, IInv, TxInv, Spreads
<1>1. /\ \A p \in Product : plock[p] = v =>
           plock'[p] = v /\ row'[p] = row[p] /\ stable'[p] = stable[p]
      /\ \A p \in Product : plock'[p] = v => plock[p] = v
  BY DEF Separate
<1>2. /\ \A r \in Reservation : rlock[r] = v =>
           rlock'[r] = v /\ stableStatus'[r] = stableStatus[r]
      /\ \A r \in Reservation : rlock'[r] = v => rlock[r] = v
  BY DEF Separate
<1>3. tx[v].op \in {"confirm", "cancel"} =>
        tx[v].res \in Reservation /\ Lines(tx[v].res) \in SUBSET Product
  BY <1>0, SessionFields, LinesProducts
<1>4. Plan(v)'
  BY <1>0, <1>1, <1>2, <1>3 DEF Plan, Account
<1>5. Moved(v)'
  BY <1>0, <1>1 DEF Moved, Account, Delta
<1>6. Copied(v)'
  BY <1>0 DEF Copied, Account
<1>7. Known(v)'
  BY <1>0, <1>2 DEF Known, Account
<1> QED
  BY <1>4, <1>5, <1>6, <1>7 DEF Account

\* As long as nothing is committed the balance stands.
LEMMA BalanceStays ==
    ASSUME Balance, Spreads, stable' = stable, stableStatus' = stableStatus,
           \A p \in Product \ disturbed' : row'[p].stock = row[p].stock
    PROVE  Balance'
<1>1. ASSUME NEW p PROVE Booked(p)' = Booked(p)
  BY BookedSums, BookedSumsNext, SumSame
<1> QED
  BY <1>1 DEF Balance, Spreads

\* A step of w that changes its session only.
LEMMA SessionAccounts ==
    ASSUME CInv, IInv, Spreads, NEW w \in Worker, NEW t, tx' = [tx EXCEPT ![w] = t],
           UNCHANGED db, Account(w)'
    PROVE  CInv'
<1>1. \A v \in Worker \ {w} : tx'[v] = tx[v]
  BY DEF IInv, TxInv
<1>2. Separate(w)
  BY <1>1 DEF Separate, db
<1>3. Balance'
  BY BalanceStays DEF CInv, db
<1>4. Clean'
  BY DEF CInv, Clean, db
<1> QED
  BY <1>2, <1>3, <1>4, OthersAccount DEF CInv

\* The end of a transaction leaves w without a row, a status or a task.
LEMMA EndAccounts ==
    ASSUME IInv, NEW w \in Worker, tx' = [tx EXCEPT ![w] = IdleTx],
           \A p \in Product : plock'[p] # w, \A r \in Reservation : rlock'[r] # w
    PROVE  Account(w)'
<1>1. tx'[w] = IdleTx
  BY DEF IInv, TxInv
<1>2. tx'[w].op = "none" /\ tx'[w].pc = "idle"
  BY <1>1 DEF IdleTx
<1> QED
  BY <1>2 DEF Account, Plan, Moved, Copied, Known

LEMMA RollbackAccounts ==
    ASSUME CInv, IInv, Spreads, NEW w \in Worker, Rollback(w)
    PROVE  CInv'
<1>1. /\ \A v \in Worker \ {w} : tx'[v] = tx[v]
      /\ stable' = stable /\ stableStatus' = stableStatus
      /\ tx' = [tx EXCEPT ![w] = IdleTx]
  BY DEF Rollback, IInv, TxInv
<1>2. /\ \A p \in Product : /\ row'[p] = IF plock[p] = w THEN stable[p] ELSE row[p]
                            /\ plock'[p] = IF plock[p] = w THEN NoWorker ELSE plock[p]
      /\ \A r \in Reservation :
           /\ status'[r] = IF rlock[r] = w THEN stableStatus[r] ELSE status[r]
           /\ rlock'[r] = IF rlock[r] = w THEN NoWorker ELSE rlock[r]
  BY DEF Rollback
<1>3. Separate(w)
  BY <1>1, <1>2, NoneAssumption DEF Separate
<1>4. Account(w)'
  <2>1. \A p \in Product : plock'[p] # w
    BY <1>2, NoneAssumption
  <2>2. \A r \in Reservation : rlock'[r] # w
    BY <1>2, NoneAssumption
  <2> QED
    BY <1>1, <2>1, <2>2, EndAccounts
<1>5. Balance'
  <2>1. \A p \in Product \ disturbed' : row'[p].stock = row[p].stock
    BY <1>2 DEF CInv, Balance, Spreads
  <2> QED
    BY <1>1, <2>1, BalanceStays DEF CInv
<1>6. Clean'
  BY <1>1, <1>2 DEF CInv, Clean
<1> QED
  BY <1>3, <1>4, <1>5, <1>6, OthersAccount DEF CInv

-----------------------------------------------------------------------------
(* Steps that change a session.                                            *)

LEMMA IdleLocksNothing ==
    ASSUME CInv, LInv, NEW w \in Worker, tx[w].pc = "idle"
    PROVE  /\ \A p \in Product : plock[p] # w
           /\ \A r \in Reservation : rlock[r] # w
BY IdleHoldsNothing DEF CInv, Account, Moved

\* A request that starts has locked nothing.
LEMMA StartAccounts ==
    ASSUME CInv, IInv, LInv, Spreads, NEW w \in Worker, NEW t, tx' = [tx EXCEPT ![w] = t],
           tx[w].pc = "idle", t.pc \notin {"fill", "flush", "commit"}, UNCHANGED db,
           t.op = "confirm" => t.from = "draft",
           t.op = "cancel" => Plan(w)'
    PROVE  CInv'
<1>1. tx'[w] = t
  BY DEF IInv, TxInv
<1>2. /\ \A p \in Product : plock'[p] # w
      /\ \A r \in Reservation : rlock'[r] # w
  BY IdleLocksNothing DEF db
<1>3. Plan(w)'
  BY <1>1 DEF Plan
<1>4. Account(w)'
  BY <1>1, <1>2, <1>3 DEF Account, Moved, Copied, Known
<1> QED
  BY <1>4, SessionAccounts

\* What a confirmed reservation holds is missing from the stock of a product
\* whose balance stands.
LEMMA ConfirmedFits ==
    ASSUME CInv, IInv, NEW r \in Reservation, stableStatus[r] = "confirmed",
           NEW p \in Product \ disturbed
    PROVE  stable[p].avail + Quantity[r][p] <= Stock[p]
<1>1. Shares(stableStatus, p) \in [Reservation -> Nat]
  BY SharesTypes
<1>2. Booked(p) \in Nat /\ Shares(stableStatus, p)[r] <= Booked(p)
  BY <1>1, BookedSums, SumBounds
<1>3. Shares(stableStatus, p)[r] = Quantity[r][p]
  BY DEF Shares
<1>4. stable[p].avail + Booked(p) = Stock[p] /\ stable[p].avail \in Nat
  BY KeptFields, SoundKept DEF CInv, Balance, IInv, RowsInv
<1>5. Quantity[r][p] \in Nat
  BY QuantityAssumption
<1> QED
  BY <1>2, <1>3, <1>4, <1>5

LEMMA RequestAccounts ==
    ASSUME CInv, IInv, LInv, Spreads, NEW w \in Worker, NEW r \in Reservation,
           BeginConfirm(w, r) \/ BeginCancel(w, r)
    PROVE  CInv'
<1>1. CASE BeginConfirm(w, r)
  <2> DEFINE t == [pc |-> "next", op |-> "confirm", res |-> r, from |-> "draft",
                   todo |-> Lines(r), cur |-> NoProduct, base |-> Loaded(r),
                   seen |-> Loaded(r)]
  <2>1. tx' = [tx EXCEPT ![w] = t] /\ tx[w].pc = "idle" /\ UNCHANGED db
    BY <1>1 DEF BeginConfirm
  <2>2. t.pc = "next" /\ t.op = "confirm" /\ t.from = "draft"
    OBVIOUS
  <2> HIDE DEF t
  <2> QED
    BY <2>1, <2>2, StartAccounts
<1>2. CASE BeginCancel(w, r)
  <2> DEFINE held == IF stableStatus[r] = "confirmed" THEN Lines(r) ELSE {}
             t == [pc |-> IF held = {} THEN "status" ELSE "next", op |-> "cancel",
                   res |-> r, from |-> stableStatus[r], todo |-> held, cur |-> NoProduct,
                   base |-> Loaded(r), seen |-> Loaded(r)]
  <2>1. /\ tx' = [tx EXCEPT ![w] = t] /\ tx[w].pc = "idle" /\ UNCHANGED db
        /\ stableStatus[r] \in {"draft", "confirmed"}
    BY <1>2 DEF BeginCancel
  <2>2. /\ t.pc = (IF held = {} THEN "status" ELSE "next") /\ t.op = "cancel" /\ t.res = r
        /\ t.from = stableStatus[r] /\ t.todo = held /\ t.base = Loaded(r)
        /\ t.seen = Loaded(r)
    OBVIOUS
  <2>3. tx'[w] = t
    BY <2>1 DEF IInv, TxInv
  <2> HIDE DEF t
  <2>4. /\ held \subseteq Lines(r) /\ (stableStatus[r] = "draft" => held = {})
        /\ stableStatus[r] = "confirmed" => held = Lines(r)
        /\ \A p \in held : stableStatus[r] = "confirmed"
    OBVIOUS
  <2>5. ASSUME NEW p \in held, p \notin disturbed'
        PROVE  /\ Loaded(r)[p].stock = Stock[p]
               /\ Loaded(r)[p].avail + Quantity[r][p] <= Stock[p]
    <3>1. p \in Product \ disturbed /\ Loaded(r)[p] = stable[p]
      BY <2>4, <2>5, LinesProducts DEF Loaded, Spreads
    <3> QED
      BY <2>4, <3>1, ConfirmedFits DEF CInv, Balance
  <2> HIDE DEF held
  <2>6. Plan(w)'
    BY <2>1, <2>2, <2>3, <2>4, <2>5 DEF Plan
  <2>7. t.pc \in {"status", "next"}
    BY <2>2
  <2> QED
    BY <2>1, <2>2, <2>6, <2>7, StartAccounts
<1> QED
  BY <1>1, <1>2

LEMMA ProductRequestAccounts ==
    ASSUME CInv, IInv, LInv, Spreads, NEW w \in Worker, NEW p \in Product,
           NEW op \in {"patch", "delete", "read"}, BeginProductRequest(w, p, op)
    PROVE  CInv'
<1> DEFINE t == [IdleTx EXCEPT !.pc = "next", !.op = op, !.todo = {p}]
<1>1. tx' = [tx EXCEPT ![w] = t] /\ tx[w].pc = "idle" /\ UNCHANGED db
  BY DEF BeginProductRequest
<1>2. t.pc = "next" /\ t.op = op
  BY DEF IdleTx
<1> HIDE DEF t
<1> QED
  BY <1>1, <1>2, StartAccounts

\* A step inside a request: what it has locked and moved stays as it is.
LEMMA QuietAccounts ==
    ASSUME CInv, IInv, Spreads, NEW w \in Worker, NEW t, tx' = [tx EXCEPT ![w] = t],
           t.pc # "idle", UNCHANGED db,
           t.op = tx[w].op, t.res = tx[w].res, t.from = tx[w].from,
           t.todo \subseteq tx[w].todo, Plan(w)', Copied(w)'
    PROVE  CInv'
<1>1. tx'[w] = t
  BY DEF IInv, TxInv
<1>2. Account(w) /\ \A p : p \notin disturbed' => p \notin disturbed
  BY DEF CInv, Spreads
<1>3. Moved(w)'
  BY <1>1, <1>2 DEF Account, Moved, Delta, db
<1>4. Known(w)'
  BY <1>1, <1>2 DEF Account, Known, db
<1> QED
  BY <1>3, <1>4, SessionAccounts DEF Account

\* Such a step of a handler that is about products.
LEMMA ProductAccounts ==
    ASSUME CInv, IInv, Spreads, NEW w \in Worker, NEW t, tx' = [tx EXCEPT ![w] = t],
           t.pc # "idle", UNCHANGED db,
           t.op = tx[w].op, t.res = tx[w].res, t.from = tx[w].from,
           t.todo \subseteq tx[w].todo, tx[w].op \in GetOps,
           t.pc = "flush" /\ t.op \in {"create", "delete"} /\ t.cur \notin disturbed' =>
             t.seen[t.cur].avail = t.base[t.cur].avail /\ t.seen[t.cur].stock = t.base[t.cur].stock
    PROVE  CInv'
<1>1. tx'[w] = t
  BY DEF IInv, TxInv
<1>2. Plan(w)' /\ Copied(w)'
  BY <1>1 DEF Plan, Copied, GetOps
<1> QED
  BY <1>2, QuietAccounts

LEMMA LineChosenAccounts ==
    ASSUME CInv, IInv, Spreads, NEW w \in Worker, NEW p \in Product,
           CheckAvailability(w, p) \/ NextReleasedLine(w, p)
    PROVE  CInv'
<1> DEFINE t == [tx[w] EXCEPT !.pc = "flush", !.cur = p]
<1>0. tx[w] \in Tx
  BY SessionFields DEF IInv, TxInv
<1>1. /\ tx' = [tx EXCEPT ![w] = t] /\ UNCHANGED db
      /\ tx[w].op \in {"confirm", "cancel"}
  BY DEF CheckAvailability, NextReleasedLine
<1>2. /\ t.pc = "flush" /\ t.op = tx[w].op /\ t.res = tx[w].res /\ t.from = tx[w].from
      /\ t.todo = tx[w].todo /\ t.base = tx[w].base /\ t.seen = tx[w].seen
  BY <1>0 DEF Tx
<1>3. tx'[w] = t
  BY <1>1 DEF IInv, TxInv
<1> HIDE DEF t
<1>4. Plan(w) /\ \A x : x \notin disturbed' => x \notin disturbed
  BY DEF CInv, Account, Spreads
<1>5. Plan(w)'
  BY <1>1, <1>2, <1>3, <1>4 DEF Plan, db
<1>6. Copied(w)'
  BY <1>1, <1>2, <1>3 DEF Copied
<1> QED
  BY <1>1, <1>2, <1>5, <1>6, QuietAccounts

\* What a handler other than PATCH makes of an instance keeps its quantities.
LEMMA ModifiedQuantities ==
    ASSUME NEW op \in {"create", "delete"}, NEW r \in Kept, NEW after \in Modified(op, r)
    PROVE  after.avail = r.avail /\ after.stock = r.stock
<1>1. CASE op = "create"
  BY <1>1 DEF Modified
<1>2. CASE op = "delete"
  BY <1>2 DEF Modified, Kept, Row
<1> QED
  BY <1>1, <1>2

LEMMA HitAccounts ==
    ASSUME CInv, IInv, HNext, NEW w \in Worker, NEW p \in Product, GetByIdHit(w, p)
    PROVE  CInv'
<1>0. /\ tx[w] \in Tx /\ tx[w].pc = "next" /\ tx[w].op \in GetOps
      /\ tx[w].base \in [Product -> Kept] /\ tx[w].seen \in [Product -> Kept]
      /\ cache[p] \in Kept
  BY SessionFields DEF IInv, TxInv, CacheInv, GetByIdHit, CacheHit
<1>1. PICK after \in Modified(tx[w].op, cache[p]) :
        tx' = [tx EXCEPT ![w] = [tx[w] EXCEPT !.pc = "flush", !.cur = p,
                                          !.base = [tx[w].base EXCEPT ![p] = stable[p]],
                                          !.seen = [tx[w].seen EXCEPT ![p] = after]]]
  BY DEF GetByIdHit
<1> DEFINE base == [tx[w].base EXCEPT ![p] = stable[p]]
           seen == [tx[w].seen EXCEPT ![p] = after]
           t == [tx[w] EXCEPT !.pc = "flush", !.cur = p, !.base = base, !.seen = seen]
<1>2. tx' = [tx EXCEPT ![w] = t]
  BY <1>1
<1>3. base[p] = stable[p] /\ seen[p] = after
  BY <1>0
<1> HIDE DEF base, seen
<1>4. /\ t.pc = "flush" /\ t.op = tx[w].op /\ t.cur = p /\ t.base = base /\ t.seen = seen
      /\ t.res = tx[w].res /\ t.from = tx[w].from /\ t.todo = tx[w].todo
  BY <1>0 DEF Tx
<1>5. tx'[w] = t
  BY <1>2 DEF IInv, TxInv
<1>6. p \notin disturbed' => cache[p] = stable[p]
  BY <1>0, <1>4, <1>5 DEF HNext, StaleHit
<1> HIDE DEF t
<1>7. t.op \in {"create", "delete"} /\ p \notin disturbed' =>
        after.avail = stable[p].avail /\ after.stock = stable[p].stock
  BY <1>0, <1>4, <1>6, ModifiedQuantities
<1>8. Spreads /\ UNCHANGED db
  BY DEF HNext, Spreads, GetByIdHit
<1> QED
  BY <1>0, <1>2, <1>3, <1>4, <1>7, <1>8, ProductAccounts

LEMMA SelectAccounts ==
    ASSUME CInv, IInv, Spreads, NEW w \in Worker, NEW p \in Product, GetByIdSelect(w, p)
    PROVE  CInv'
<1> DEFINE base == [tx[w].base EXCEPT ![p] = stable[p]]
           t == [tx[w] EXCEPT !.pc = "fill", !.cur = p, !.base = base]
<1>0. tx[w] \in Tx
  BY SessionFields DEF IInv, TxInv
<1>1. tx' = [tx EXCEPT ![w] = t] /\ UNCHANGED db /\ tx[w].op \in GetOps
  BY DEF GetByIdSelect
<1> HIDE DEF base
<1>2. /\ t.pc = "fill" /\ t.op = tx[w].op /\ t.res = tx[w].res /\ t.from = tx[w].from
      /\ t.todo = tx[w].todo
  BY <1>0 DEF Tx
<1> HIDE DEF t
<1> QED
  BY <1>1, <1>2, ProductAccounts

LEMMA FillAccounts ==
    ASSUME CInv, IInv, Spreads, NEW w \in Worker, FillCache(w)
    PROVE  CInv'
<1> DEFINE p == tx[w].cur
<1>0. /\ tx[w] \in Session /\ tx[w] \in Tx /\ tx[w].pc = "fill" /\ p \in Product
      /\ tx[w].base \in [Product -> Kept] /\ tx[w].seen \in [Product -> Kept]
  BY SessionFields DEF IInv, TxInv, FillCache
<1>1. PICK after \in Modified(tx[w].op, tx[w].base[p]) :
        tx' = [tx EXCEPT ![w] = [tx[w] EXCEPT !.pc = "flush",
                                  !.seen = [tx[w].seen EXCEPT ![p] = after]]]
  BY DEF FillCache
<1> DEFINE seen == [tx[w].seen EXCEPT ![p] = after]
           t == [tx[w] EXCEPT !.pc = "flush", !.seen = seen]
<1>2. tx' = [tx EXCEPT ![w] = t] /\ UNCHANGED db
  BY <1>1 DEF FillCache
<1>3. seen[p] = after /\ tx[w].base[p] \in Kept
  BY <1>0
<1> HIDE DEF seen
<1>4. /\ t.pc = "flush" /\ t.op = tx[w].op /\ t.cur = p /\ t.base = tx[w].base /\ t.seen = seen
      /\ t.res = tx[w].res /\ t.from = tx[w].from /\ t.todo = tx[w].todo
  BY <1>0 DEF Tx
<1> HIDE DEF t
<1>5. t.op \in {"create", "delete"} =>
        after.avail = t.base[p].avail /\ after.stock = t.base[p].stock
  BY <1>3, <1>4, ModifiedQuantities
<1>6. tx[w].op \in GetOps
  BY <1>0 DEF CInv, Account, Plan
<1> QED
  BY <1>2, <1>3, <1>4, <1>5, <1>6, ProductAccounts

-----------------------------------------------------------------------------
(* Steps that write to the database.                                       *)

\* The write of one line by w, whatever its handler: the row was nobody's.
LEMMA WriteAccounts ==
    ASSUME CInv, IInv, Spreads, NEW w \in Worker, NEW p, p = tx[w].cur,
           tx[w].pc = "flush", NEW new, LockFree(w, p), WriteRow(w, p, new),
           NEW last \in {"status", "commit"}, NEW seen, LineDone(w, last, seen),
           last = "commit" => tx[w].op \notin {"confirm", "cancel"},
           \A x \in Product \ {p} : seen[x] = tx[w].seen[x],
           row[p] = stable[p] /\ p \notin disturbed' =>
             /\ tx[w].op # "patch" /\ new.stock = row[p].stock
             /\ new.avail = stable[p].avail + Delta(w, p)
    PROVE  CInv'
<1> DEFINE next == IF tx[w].todo = {p} THEN last ELSE "next"
           t == [tx[w] EXCEPT !.todo = tx[w].todo \ {p}, !.seen = seen, !.pc = next]
<1>0. /\ tx[w] \in Session /\ tx[w] \in Tx /\ p \in tx[w].todo /\ p \in Product
      /\ tx[w].todo \in SUBSET Product
      /\ tx[w].op \in {"confirm", "cancel", "create"} => tx[w].res \in Reservation
  BY SessionFields DEF IInv, TxInv
<1>1. tx' = [tx EXCEPT ![w] = t]
  BY DEF LineDone
<1>2. /\ next \in {last, "next"} /\ (next # "next" => tx[w].todo \ {p} = {})
  OBVIOUS
<1> HIDE DEF next
<1>3. /\ t.pc = next /\ t.op = tx[w].op /\ t.res = tx[w].res /\ t.from = tx[w].from
      /\ t.todo = tx[w].todo \ {p} /\ t.base = tx[w].base /\ t.seen = seen
  BY <1>0 DEF Tx
<1>4. tx'[w] = t /\ \A v \in Worker \ {w} : tx'[v] = tx[v]
  BY <1>1 DEF IInv, TxInv
<1> HIDE DEF t
<1>5. /\ row'[p] = new /\ plock'[p] = w
      /\ \A x \in Product \ {p} : row'[x] = row[x] /\ plock'[x] = plock[x]
      /\ stable' = stable /\ UNCHANGED <<stableStatus, status, rlock>>
  BY <1>0 DEF WriteRow, IInv, RowsInv, LocksInv
<1>6. Account(w) /\ \A x : x \notin disturbed' => x \notin disturbed
  BY DEF CInv, Spreads
<1>7. plock[p] = NoWorker /\ row[p] = stable[p]
  BY <1>0, <1>6 DEF Account, Moved, LockFree, CInv, Clean
<1>8. Separate(w)
  BY <1>0, <1>4, <1>5, <1>7, NoneAssumption DEF Separate
<1>9. Plan(w)'
  <2>1. tx[w].op = "cancel" =>
          \A x \in Lines(tx[w].res) \ (tx[w].todo \ {p}) :
             plock[x] = w \/ x = p \/ tx[w].from # "confirmed"
    BY <1>6 DEF Account, Plan
  <2>2. tx[w].op = "cancel" => Lines(tx[w].res) \in SUBSET Product
    BY <1>0, LinesProducts
  <2>3. tx[w].op = "cancel" /\ tx[w].from = "confirmed" =>
          \A x \in Lines(tx[w].res) \ (tx[w].todo \ {p}) : plock'[x] = w
    BY <1>5, <2>1, <2>2
  <2>4. \A x \in tx[w].todo \ {p} : seen[x] = tx[w].seen[x]
    BY <1>0
  <2> QED
    BY <1>2, <1>3, <1>4, <1>6, <2>3, <2>4 DEF Account, Plan
<1>10. Moved(w)'
  <2>1. tx[w].op = "cancel" => tx[w].from = "confirmed"
    BY <1>0, <1>6 DEF Account, Plan
  <2>2. \A x \in Product \ {p} : plock[x] = w /\ x \notin disturbed' =>
          tx[w].op # "patch" /\ row[x].avail = stable[x].avail + Delta(w, x)
    BY <1>6 DEF Account, Moved
  <2>3. \A x : Delta(w, x)' = Delta(w, x)
    BY <1>3, <1>4 DEF Delta
  <2>4. next # "idle"
    BY <1>2
  <2> QED
    BY <1>3, <1>4, <1>5, <1>6, <1>7, <2>1, <2>2, <2>3, <2>4 DEF Account, Moved
<1>11. Copied(w)'
  BY <1>2, <1>3, <1>4 DEF Copied
<1>12. Known(w)'
  BY <1>3, <1>4, <1>5, <1>6 DEF Account, Known
<1>13. Clean'
  BY <1>5, NoneAssumption DEF CInv, Clean
<1>14. Balance'
  <2>1. \A x \in Product \ disturbed' : row'[x].stock = row[x].stock
    BY <1>5, <1>7
  <2> QED
    BY <1>5, <2>1, BalanceStays DEF CInv
<1> QED
  BY <1>8, <1>9, <1>10, <1>11, <1>12, <1>13, <1>14, OthersAccount DEF CInv, Account

\* A row that is written without being disturbed is the one that was loaded.
LEMMA WriteFresh ==
    ASSUME HNext, CInv, IInv, NEW w \in Worker, NEW p \in Product, NEW new,
           WriteRow(w, p, new), p \in tx[w].todo, p \notin disturbed'
    PROVE  tx[w].base[p] = stable[p] /\ tx[w].op # "patch"
<1>1. plock'[p] = w
  BY DEF WriteRow, IInv, LocksInv
<1>2. plock[p] # w
  BY DEF CInv, Account, Moved
<1> QED
  BY <1>1, <1>2 DEF HNext, StaleWrite, PatchWrite

LEMMA MoveStockAccounts ==
    ASSUME CInv, IInv, LInv, HNext, NEW w \in Worker, ReserveStock(w) \/ ReleaseStock(w)
    PROVE  CInv'
<1> DEFINE p == tx[w].cur
           q == Quantity[tx[w].res][p]
           cap == tx[w].seen[p].stock
           back == tx[w].seen[p].avail + q
           less == tx[w].seen[p].avail - q
           more == IF back > cap THEN cap ELSE back
           taken(a) == [tx[w].seen[p] EXCEPT !.avail = a]
           seen(a) == [tx[w].seen EXCEPT ![p] = taken(a)]
<1>0. /\ tx[w] \in Session /\ tx[w] \in Tx /\ tx[w].op \in {"confirm", "cancel"}
      /\ tx[w].pc = "flush" /\ p \in Product /\ p \in tx[w].todo
      /\ tx[w].res \in Reservation /\ q \in Nat
      /\ tx[w].base \in [Product -> Kept] /\ tx[w].seen \in [Product -> Kept]
      /\ LockFree(w, p)
  BY SessionFields, QuantityAssumption DEF IInv, TxInv, ReserveStock, ReleaseStock
<1>1. Spreads
  BY DEF HNext, Spreads
<1>2. CASE Rollback(w)
  BY <1>1, <1>2, RollbackAccounts
<1>3. tx[w].seen[p] = tx[w].base[p]
  BY <1>0 DEF LInv, Taken, CInv, Account, Plan
<1>4. ASSUME NEW a \in Nat, WriteRow(w, p, Update(row[p], tx[w].base[p], taken(a))),
             LineDone(w, "status", seen(a)),
             p \notin disturbed' /\ tx[w].base[p] = stable[p] =>
               a = stable[p].avail + Delta(w, p)
      PROVE  CInv'
  <2> DEFINE new == Update(row[p], tx[w].base[p], taken(a))
  <2>1. tx[w].base[p] \in Kept /\ stable[p] \in Kept
    BY <1>0, SoundKept DEF IInv, RowsInv
  <2>2. taken(a).avail = a /\ taken(a).stock = tx[w].base[p].stock
    BY <1>3, <2>1 DEF Kept, Row
  <2>3. p \notin disturbed' => tx[w].base[p] = stable[p] /\ tx[w].op # "patch"
    BY <1>0, <1>4, WriteFresh
  <2>4. row[p] = stable[p] /\ p \notin disturbed' =>
          /\ tx[w].op # "patch" /\ new.stock = row[p].stock
          /\ new.avail = stable[p].avail + Delta(w, p)
    <3>1. new.stock = row[p].stock
      BY <2>2 DEF Update
    <3>2. new.avail = IF a # tx[w].base[p].avail THEN a ELSE row[p].avail
      BY <2>2 DEF Update
    <3> QED
      BY <1>4, <2>3, <3>1, <3>2
  <2>5. \A x \in Product \ {p} : seen(a)[x] = tx[w].seen[x]
    BY <1>0
  <2> HIDE DEF new, seen
  <2>6. WriteRow(w, p, new) /\ LineDone(w, "status", seen(a))
    BY <1>4 DEF new, seen
  <2> QED
    BY <1>0, <1>1, <2>4, <2>5, <2>6, WriteAccounts
<1>5. CASE ReserveStock(w) /\ ~Rollback(w)
  <2>1. tx[w].seen[p].avail >= q /\ tx[w].seen[p].avail \in Nat /\ tx[w].op = "confirm"
    BY <1>0, <1>5, KeptFields DEF Session, ReserveStock
  <2>2. less \in Nat
    BY <1>0, <2>1
  <2>3. Delta(w, p) = -q
    BY <2>1 DEF Delta
  <2>4. tx[w].base[p] = stable[p] => less = stable[p].avail + Delta(w, p)
    BY <1>0, <1>3, <2>1, <2>3
  <2> QED
    BY <1>4, <1>5, <2>2, <2>4 DEF ReserveStock
<1>6. CASE ReleaseStock(w) /\ ~Rollback(w)
  <2>1. tx[w].seen[p].avail \in Nat /\ cap \in Nat /\ tx[w].op = "cancel"
    BY <1>0, <1>6, KeptFields DEF ReleaseStock
  <2>2. more \in Nat
    BY <1>0, <2>1
  <2>3. Delta(w, p) = q
    BY <2>1 DEF Delta
  <2>4. p \notin disturbed' => back <= cap
    BY <1>0, <1>1, <1>3, <2>1 DEF CInv, Account, Plan, Spreads
  <2>5. p \notin disturbed' /\ tx[w].base[p] = stable[p] => more = stable[p].avail + Delta(w, p)
    BY <1>0, <1>3, <2>1, <2>3, <2>4
  <2> QED
    BY <1>4, <1>6, <2>2, <2>5 DEF ReleaseStock
<1> QED
  BY <1>2, <1>5, <1>6

LEMMA FlushAccounts ==
    ASSUME CInv, IInv, HNext, NEW w \in Worker, FlushProduct(w)
    PROVE  CInv'
<1> DEFINE p == tx[w].cur
           new == Update(row[p], tx[w].base[p], tx[w].seen[p])
<1>0. /\ tx[w] \in Session /\ tx[w] \in Tx /\ p \in Product /\ p \in tx[w].todo
      /\ tx[w].pc = "flush" /\ tx[w].op \in {"create", "patch", "delete"}
      /\ LineDone(w, "commit", tx[w].seen)
  BY SessionFields DEF IInv, TxInv, FlushProduct
<1>1. Spreads
  BY DEF HNext, Spreads
<1>2. CASE Dirty(w)
  <2>1. WriteRow(w, p, new) /\ LockFree(w, p)
    BY <1>2 DEF FlushProduct
  <2>2. p \notin disturbed' => tx[w].op # "patch"
    BY <1>0, <2>1, WriteFresh
  <2>3. row[p] = stable[p] /\ p \notin disturbed' =>
          /\ tx[w].op # "patch" /\ new.stock = row[p].stock
          /\ new.avail = stable[p].avail + Delta(w, p)
    <3> SUFFICES ASSUME row[p] = stable[p], p \notin disturbed'
                 PROVE  /\ tx[w].op # "patch" /\ new.stock = row[p].stock
                        /\ new.avail = stable[p].avail + Delta(w, p)
      OBVIOUS
    <3>1. /\ tx[w].seen[p].avail = tx[w].base[p].avail
          /\ tx[w].seen[p].stock = tx[w].base[p].stock
      BY <1>0, <1>1, <2>2 DEF CInv, Account, Copied, Spreads
    <3>2. new.avail = row[p].avail /\ new.stock = row[p].stock
      BY <3>1 DEF Update
    <3>3. Delta(w, p) = 0
      BY <1>0 DEF Delta
    <3>4. stable[p].avail \in Nat
      BY <1>0, KeptFields, SoundKept DEF IInv, RowsInv
    <3> QED
      BY <2>2, <3>2, <3>3, <3>4
  <2> HIDE DEF new
  <2> QED
    BY <1>0, <1>1, <2>1, <2>3, WriteAccounts
<1>3. CASE ~Dirty(w)
  <2> DEFINE next == IF tx[w].todo = {p} THEN "commit" ELSE "next"
             t == [tx[w] EXCEPT !.todo = tx[w].todo \ {p}, !.seen = tx[w].seen, !.pc = next]
  <2>1. tx' = [tx EXCEPT ![w] = t] /\ UNCHANGED db
    BY <1>0, <1>3 DEF LineDone, FlushProduct
  <2>2. next \in {"commit", "next"}
    OBVIOUS
  <2> HIDE DEF next
  <2>3. /\ t.pc = next /\ t.op = tx[w].op /\ t.res = tx[w].res /\ t.from = tx[w].from
        /\ t.todo = tx[w].todo \ {p}
    BY <1>0 DEF Tx
  <2> HIDE DEF t
  <2>4. t.todo \subseteq tx[w].todo /\ t.pc \notin {"idle", "flush"} /\ tx[w].op \in GetOps
    BY <1>0, <2>2, <2>3 DEF GetOps
  <2> QED
    BY <1>1, <2>1, <2>3, <2>4, ProductAccounts
<1> QED
  BY <1>2, <1>3

LEMMA FlushStatusAccounts ==
    ASSUME CInv, IInv, LInv, HNext, NEW w \in Worker, FlushStatus(w)
    PROVE  CInv'
<1> DEFINE r == tx[w].res
           t == [tx[w] EXCEPT !.pc = "commit"]
<1>0. /\ tx[w] \in Tx /\ tx[w].pc = "status" /\ tx[w].op \in {"confirm", "cancel"}
      /\ r \in Reservation /\ rlock[r] = NoWorker
  BY SessionFields DEF IInv, TxInv, FlushStatus
<1>1. tx' = [tx EXCEPT ![w] = t]
  BY DEF FlushStatus
<1>2. tx'[w] = t /\ \A v \in Worker \ {w} : tx'[v] = tx[v]
  BY <1>1 DEF IInv, TxInv
<1>3. /\ t.pc = "commit" /\ t.op = tx[w].op /\ t.res = r /\ t.from = tx[w].from
      /\ t.todo = tx[w].todo /\ t.base = tx[w].base /\ t.seen = tx[w].seen
  BY <1>0 DEF Tx
<1> HIDE DEF t
<1>4. /\ rlock'[r] = w /\ \A x \in Reservation \ {r} : rlock'[x] = rlock[x] /\ status'[x] = status[x]
      /\ UNCHANGED <<stable, row, plock, stableStatus>>
  BY <1>0 DEF FlushStatus, IInv, LocksInv
<1>5. Account(w) /\ Spreads /\ \A x : x \notin disturbed' => x \notin disturbed
  BY DEF CInv, Spreads, HNext
<1>6. Separate(w)
  BY <1>0, <1>2, <1>4, NoneAssumption DEF Separate
<1>7. Plan(w)'
  BY <1>2, <1>3, <1>4, <1>5, <1>0 DEF Account, Plan
<1>8. Moved(w)'
  BY <1>2, <1>3, <1>4, <1>5 DEF Account, Moved, Delta
<1>9. Copied(w)'
  BY <1>2, <1>3 DEF Copied
<1>10. Known(w)'
  <2>1. \A x \in Reservation : rlock'[x] = w => x = r
    BY <1>0, <1>4 DEF LInv, Held
  <2>2. \A p \in Lines(r) \ disturbed' : stableStatus[r] = tx[w].from
    <3>1. \A p \in Lines(r) : StaleStatus(w, r) => p \in disturbed'
      BY <1>0, LinesProducts DEF HNext
    <3>2. rlock[r] # w
      BY <1>0, NoneAssumption
    <3> QED
      BY <1>0, <1>4, <3>1, <3>2 DEF StaleStatus
  <2> QED
    BY <1>0, <1>2, <1>3, <1>4, <2>1, <2>2 DEF Known
<1>11. Clean'
  BY <1>4, NoneAssumption DEF CInv, Clean
<1>12. Balance'
  BY <1>4, <1>5, BalanceStays DEF CInv
<1> QED
  BY <1>5, <1>6, <1>7, <1>8, <1>9, <1>10, <1>11, <1>12, OthersAccount DEF CInv, Account

LEMMA CreateAccounts ==
    ASSUME CInv, IInv, LInv, Spreads, NEW w \in Worker, NEW r \in Reservation, BeginCreate(w, r)
    PROVE  CInv'
<1> DEFINE t == [IdleTx EXCEPT !.pc = "next", !.op = "create", !.res = r, !.todo = Lines(r)]
<1>1. tx' = [tx EXCEPT ![w] = t] /\ tx[w].pc = "idle"
  BY DEF BeginCreate
<1>2. tx'[w] = t /\ \A v \in Worker \ {w} : tx'[v] = tx[v]
  BY <1>1 DEF IInv, TxInv
<1>3. t.pc = "next" /\ t.op = "create"
  BY DEF IdleTx
<1> HIDE DEF t
<1>4. rlock[r] = NoWorker /\ stableStatus[r] = "absent"
  <2>1. status[r] = "absent"
    BY DEF BeginCreate
  <2>2. rlock[r] \in Worker => status[r] # "absent"
    BY DEF LInv, Held, NewStatus
  <2> QED
    BY <2>1, <2>2 DEF IInv, LocksInv, CInv, Clean
<1>5. /\ rlock'[r] = w /\ \A x \in Reservation \ {r} : rlock'[x] = rlock[x] /\ status'[x] = status[x]
      /\ UNCHANGED <<stable, row, plock, stableStatus>>
  BY DEF BeginCreate, IInv, LocksInv
<1>6. Separate(w)
  BY <1>2, <1>4, <1>5, NoneAssumption DEF Separate
<1>7. /\ \A p \in Product : plock'[p] # w
      /\ \A x \in Reservation : rlock'[x] = w => x = r
  BY <1>1, <1>5, IdleLocksNothing
<1>8. Account(w)'
  BY <1>2, <1>3, <1>4, <1>5, <1>7 DEF Account, Plan, Moved, Copied, Known
<1>9. Clean'
  BY <1>5, NoneAssumption DEF CInv, Clean
<1>10. Balance'
  BY <1>5, BalanceStays DEF CInv
<1> QED
  BY <1>6, <1>8, <1>9, <1>10, OthersAccount DEF CInv

-----------------------------------------------------------------------------
(* The commit.                                                             *)

\* What w has taken or given back is what its reservation comes to hold or to
\* hold no longer.
LEMMA CommitBalances ==
    ASSUME CInv, IInv, LInv, Spreads, NEW w \in Worker, Commit(w),
           NEW p \in Product \ disturbed'
    PROVE  stable'[p].avail + Booked(p)' = Stock[p]
<1> DEFINE old == Shares(stableStatus, p)
           cur == Shares(stableStatus', p)
           q == Quantity[tx[w].res][p]
<1>0. /\ tx[w] \in Session /\ tx[w].pc = "commit" /\ p \notin disturbed
      /\ Account(w) /\ Taken(w) /\ Held(w)
      /\ tx[w].op \in {"confirm", "cancel", "create"} => tx[w].res \in Reservation
  BY SessionFields DEF IInv, TxInv, Commit, CInv, LInv, Spreads
<1>1. /\ stable[p].avail \in Nat /\ row[p].avail \in Nat
      /\ stable[p].avail + Booked(p) = Stock[p]
      /\ stable'[p] = IF plock[p] = w THEN row[p] ELSE stable[p]
      /\ \A r \in Reservation :
           stableStatus'[r] = IF rlock[r] = w THEN status[r] ELSE stableStatus[r]
  BY <1>0, KeptFields, SoundKept DEF CInv, Balance, Commit, IInv, RowsInv
<1>2. old \in [Reservation -> Nat] /\ cur \in [Reservation -> Nat]
  BY SharesTypes
<1>3. Sums(old, Booked(p)) /\ Sums(cur, Booked(p)')
  BY BookedSums, BookedSumsNext
<1>4. Booked(p) \in Nat /\ Booked(p)' \in Nat
  BY <1>2, <1>3, SumBounds
<1>5. plock[p] = w => row[p].avail = stable[p].avail + Delta(w, p)
  BY <1>0 DEF Account, Moved
<1>6. \A r \in Reservation : rlock[r] = w => r = tx[w].res
  BY <1>0 DEF Held
<1>7. CASE \A r \in Reservation : rlock[r] # w
  <2>1. tx[w].op \notin {"confirm", "cancel"}
    BY <1>0, <1>7 DEF Account, Plan
  <2>2. stable'[p].avail = stable[p].avail
    BY <1>1, <1>5, <2>1 DEF Delta
  <2>3. cur = old
    BY <1>1, <1>7 DEF Shares
  <2> QED
    BY <1>1, <1>3, <2>2, <2>3, SumSame
<1>8. CASE \E r \in Reservation : rlock[r] = w
  <2> DEFINE r == tx[w].res
  <2>1. r \in Reservation /\ rlock[r] = w
    BY <1>6, <1>8
  <2>2. \A x \in Reservation \ {r} : cur[x] = old[x]
    BY <1>1, <1>6 DEF Shares
  <2>3. Booked(p)' = Booked(p) - old[r] + cur[r]
    <3> HIDE DEF old, cur, r
    <3> QED
      BY <1>2, <1>3, <2>1, <2>2, SumChange
  <2>4. /\ old[r] = IF stableStatus[r] = "confirmed" THEN q ELSE 0
        /\ cur[r] = IF status[r] = "confirmed" THEN q ELSE 0
    BY <1>1, <2>1 DEF Shares
  <2>5. q \in Nat /\ (p \notin Lines(r) => q = 0)
    BY <2>1, QuantityAssumption DEF Lines
  <2>6. stable'[p].avail = stable[p].avail + old[r] - cur[r]
    <3>1. CASE tx[w].op = "create"
      <4>1. old[r] = 0 /\ cur[r] = 0
        BY <1>0, <2>1, <2>4, <3>1 DEF Account, Known, Held
      <4>2. Delta(w, p) = 0
        BY <3>1 DEF Delta
      <4> QED
        BY <1>1, <1>5, <4>1, <4>2
    <3>2. CASE tx[w].op = "confirm"
      <4>1. cur[r] = q /\ Delta(w, p) = -q
        BY <1>0, <2>1, <2>4, <3>2 DEF Held, NewStatus, Delta
      <4>2. CASE p \in Lines(r)
        <5>1. stableStatus[r] = "draft"
          BY <1>0, <2>1, <3>2, <4>2 DEF Account, Known, Plan
        <5>2. plock[p] = w
          BY <1>0, <3>2, <4>2 DEF Taken
        <5> QED
          BY <1>1, <1>5, <2>4, <2>5, <4>1, <5>1, <5>2
      <4>3. CASE p \notin Lines(r)
        BY <1>1, <1>5, <2>4, <2>5, <4>1, <4>3
      <4> QED
        BY <4>2, <4>3
    <3>3. CASE tx[w].op = "cancel"
      <4>1. cur[r] = 0 /\ Delta(w, p) = q
        BY <1>0, <2>1, <2>4, <3>3 DEF Held, NewStatus, Delta
      <4>2. CASE p \in Lines(r)
        <5>1. stableStatus[r] = tx[w].from /\ tx[w].from \in {"draft", "confirmed"}
          BY <1>0, <2>1, <3>3, <4>2 DEF Account, Known, Plan
        <5>2. tx[w].from = "confirmed" => plock[p] = w
          BY <1>0, <3>3, <4>2 DEF Account, Plan
        <5>3. tx[w].from = "draft" => plock[p] # w
          BY <1>0, <3>3 DEF Account, Moved
        <5> QED
          BY <1>1, <1>5, <2>4, <2>5, <4>1, <5>1, <5>2, <5>3
      <4>3. CASE p \notin Lines(r)
        BY <1>1, <1>5, <2>4, <2>5, <4>1, <4>3
      <4> QED
        BY <4>2, <4>3
    <3> QED
      BY <1>0, <2>1, <3>1, <3>2, <3>3 DEF Held
  <2>7. old[r] \in Nat /\ cur[r] \in Nat
    BY <2>4, <2>5
  <2> HIDE DEF old, cur, r
  <2> QED
    BY <1>1, <1>4, <2>3, <2>6, <2>7
<1> QED
  BY <1>7, <1>8

LEMMA CommitAccounts ==
    ASSUME CInv, IInv, LInv, Spreads, NEW w \in Worker, Commit(w)
    PROVE  CInv'
<1>1. /\ \A v \in Worker \ {w} : tx'[v] = tx[v]
      /\ UNCHANGED <<row, status>> /\ tx' = [tx EXCEPT ![w] = IdleTx]
  BY DEF Commit, IInv, TxInv
<1>2. /\ \A p \in Product : /\ stable'[p] = IF plock[p] = w THEN row[p] ELSE stable[p]
                            /\ plock'[p] = IF plock[p] = w THEN NoWorker ELSE plock[p]
      /\ \A r \in Reservation :
           /\ stableStatus'[r] = IF rlock[r] = w THEN status[r] ELSE stableStatus[r]
           /\ rlock'[r] = IF rlock[r] = w THEN NoWorker ELSE rlock[r]
  BY DEF Commit
<1>3. Separate(w)
  BY <1>1, <1>2, NoneAssumption DEF Separate
<1>4. Account(w)'
  <2>1. \A p \in Product : plock'[p] # w
    BY <1>2, NoneAssumption
  <2>2. \A r \in Reservation : rlock'[r] # w
    BY <1>2, NoneAssumption
  <2> QED
    BY <1>1, <2>1, <2>2, EndAccounts
<1>5. Balance'
  <2>1. \A p \in Product \ disturbed' : stable'[p].stock = Stock[p] /\ row'[p].stock = Stock[p]
    BY <1>1, <1>2 DEF CInv, Balance, Spreads
  <2> QED
    BY <2>1, CommitBalances DEF Balance
<1>6. Clean'
  BY <1>1, <1>2 DEF CInv, Clean
<1> QED
  BY <1>3, <1>4, <1>5, <1>6, OthersAccount DEF CInv

-----------------------------------------------------------------------------
\* The session and the database are as they were: an entry came or went.
LEMMA CacheAccounts ==
    ASSUME CInv, IInv, Spreads, UNCHANGED <<db, tx>>
    PROVE  CInv'
<1>1. Clean' /\ Balance'
  BY BalanceStays DEF CInv, Clean, db
<1>2. ASSUME NEW v \in Worker PROVE Account(v)'
  <2>1. Account(v) /\ \A x : x \notin disturbed' => x \notin disturbed
    BY DEF CInv, Spreads
  <2> QED
    BY <2>1 DEF Account, Plan, Moved, Copied, Known, Delta, db
<1> QED
  BY <1>1, <1>2 DEF CInv

LEMMA NextAccounts == CInv /\ IInv /\ LInv /\ [HNext]_hvars => CInv'
<1>0. ASSUME CInv, UNCHANGED hvars PROVE CInv'
  <2>1. Clean' /\ \A v \in Worker : Account(v)'
    BY <1>0 DEF CInv, Clean, Account, Plan, Moved, Copied, Known, Delta, hvars, vars
  <2>2. Balance'
    BY <1>0, BalanceStays DEF CInv, hvars, vars, Spreads
  <2> QED
    BY <2>1, <2>2 DEF CInv
<1> SUFFICES ASSUME CInv, IInv, LInv, HNext PROVE CInv'
  BY <1>0
<1>1. Spreads
  BY DEF HNext, Spreads
<1>2. ASSUME NEW w \in Worker, WorkerStep(w) PROVE CInv'
  <2>1. ASSUME NEW p \in Product,
               \/ CheckAvailability(w, p) \/ RefuseLine(w, p) \/ NextReleasedLine(w, p)
               \/ GetByIdHit(w, p) \/ GetByIdSelect(w, p) \/ GetByIdMissing(w, p)
        PROVE  CInv'
    <3>1. CASE RefuseLine(w, p) \/ GetByIdMissing(w, p)
      BY <1>1, <3>1, RollbackAccounts DEF RefuseLine, GetByIdMissing
    <3> QED
      BY <1>1, <2>1, <3>1, LineChosenAccounts, HitAccounts, SelectAccounts
  <2>2. CASE RefuseProduct(w) \/ RespondRead(w)
    BY <1>1, <2>2, RollbackAccounts DEF RefuseProduct, RespondRead
  <2> QED
    BY <1>1, <1>2, <2>1, <2>2, MoveStockAccounts, FlushStatusAccounts, FillAccounts,
       FlushAccounts, CommitAccounts, Zenon DEF WorkerStep
<1>3. ASSUME NEW w \in Worker, DeadlockVictim(w) \/ Crash(w) PROVE CInv'
  BY <1>1, <1>3, RollbackAccounts DEF DeadlockVictim, Crash
<1>4. ASSUME NEW p \in Product, Evict(p) \/ RefusedHardDelete(p) PROVE CInv'
  BY <1>1, <1>4, CacheAccounts DEF Evict, RefusedHardDelete
<1>5. ASSUME NEW w \in Worker, Request(w) PROVE CInv'
  BY <1>1, <1>5, RequestAccounts, CreateAccounts, ProductRequestAccounts DEF Request
<1>6. Next
  BY DEF HNext
<1> QED
  BY <1>2, <1>3, <1>4, <1>5, <1>6 DEF Next

LEMMA InitAccounts == HInit => CInv
<1> SUFFICES ASSUME HInit PROVE CInv
  OBVIOUS
<1>1. /\ Init /\ disturbed = {} /\ row = stable /\ status = stableStatus
      /\ \A w \in Worker : tx[w].op = "none" /\ tx[w].pc = "idle"
      /\ \A p \in Product : plock[p] = NoWorker
      /\ \A r \in Reservation : rlock[r] = NoWorker
  BY DEF HInit, Init, IdleTx
<1>2. Clean
  BY <1>1 DEF Clean
<1>3. Balance
  <2>1. ASSUME NEW p \in Product PROVE Booked(p) = 0
    <3>1. \A r \in Reservation : Shares(stableStatus, p)[r] = 0
      BY <1>1 DEF Init, Shares
    <3> QED
      BY <3>1, BookedSums, SumZero
  <2>2. \A p \in Product : stable[p].stock = Stock[p] /\ stable[p].avail = Stock[p] /\ Stock[p] \in Nat
    BY <1>1, StockAssumption DEF Init
  <2> QED
    BY <1>1, <2>1, <2>2 DEF Balance
<1>4. ASSUME NEW w \in Worker PROVE Account(w)
  BY <1>1, NoneAssumption DEF Account, Plan, Moved, Copied, Known
<1> QED
  BY <1>2, <1>3, <1>4 DEF CInv

\* The accounts of all requests stand in every state.
THEOREM AccountsKept == HSpec => [](CInv /\ IInv /\ LInv)
<1>1. HInit => CInv /\ IInv /\ LInv
  BY InitAccounts, InitIInv, InitLInv DEF HInit
<1>2. CInv /\ IInv /\ LInv /\ [HNext]_hvars => (CInv /\ IInv /\ LInv)'
  <2>1. [HNext]_hvars => [Next]_vars
    BY DEF HNext, hvars
  <2> QED
    BY <2>1, NextAccounts, NextIInv, NextLInv
<1> QED
  BY <1>1, <1>2, PTL DEF HSpec

\* On every product no stale value was used for, what is available and what
\* confirmed reservations hold add up to the stock it started with.
THEOREM StockConserved == HSpec => []ConservedUnlessDisturbed
<1>1. CInv => ConservedUnlessDisturbed
  BY DEF CInv, Balance, ConservedUnlessDisturbed
<1> QED
  BY <1>1, AccountsKept, PTL

-----------------------------------------------------------------------------
(* The ledger.                                                             *)

\* Only a commit changes what is committed.
LEMMA OnlyCommitChanges ==
    ASSUME Next, \A w \in Worker : ~Commit(w)
    PROVE  stable' = stable /\ stableStatus' = stableStatus
<1>1. ASSUME NEW w \in Worker, Rollback(w)
      PROVE  stable' = stable /\ stableStatus' = stableStatus
  BY <1>1 DEF Rollback
<1>2. ASSUME NEW w \in Worker, WorkerStep(w)
      PROVE  stable' = stable /\ stableStatus' = stableStatus
  <2>1. ASSUME NEW p \in Product,
               \/ CheckAvailability(w, p) \/ RefuseLine(w, p) \/ NextReleasedLine(w, p)
               \/ GetByIdHit(w, p) \/ GetByIdSelect(w, p) \/ GetByIdMissing(w, p)
        PROVE  stable' = stable /\ stableStatus' = stableStatus
    <3>1. CASE RefuseLine(w, p) \/ GetByIdMissing(w, p)
      BY <1>1, <3>1 DEF RefuseLine, GetByIdMissing
    <3>2. CASE CheckAvailability(w, p) \/ NextReleasedLine(w, p)
      BY <3>2 DEF CheckAvailability, NextReleasedLine, db
    <3>3. CASE GetByIdHit(w, p) \/ GetByIdSelect(w, p)
      BY <3>3 DEF GetByIdHit, GetByIdSelect, db
    <3> QED
      BY <2>1, <3>1, <3>2, <3>3
  <2>2. CASE RefuseProduct(w) \/ RespondRead(w)
    BY <1>1, <2>2 DEF RefuseProduct, RespondRead
  <2>3. CASE ReserveStock(w) \/ ReleaseStock(w)
    BY <1>1, <2>3 DEF ReserveStock, ReleaseStock, WriteRow
  <2>4. CASE FlushStatus(w) \/ FillCache(w) \/ FlushProduct(w)
    BY <2>4 DEF FlushStatus, FillCache, FlushProduct, WriteRow, db
  <2> QED
    BY <1>2, <2>1, <2>2, <2>3, <2>4, Zenon DEF WorkerStep
<1>3. ASSUME NEW w \in Worker, DeadlockVictim(w) \/ Crash(w)
      PROVE  stable' = stable /\ stableStatus' = stableStatus
  BY <1>1, <1>3 DEF DeadlockVictim, Crash
<1>4. ASSUME NEW p \in Product, Evict(p) \/ RefusedHardDelete(p)
      PROVE  stable' = stable /\ stableStatus' = stableStatus
  BY <1>4 DEF Evict, RefusedHardDelete, db
<1>5. ASSUME NEW w \in Worker, Request(w)
      PROVE  stable' = stable /\ stableStatus' = stableStatus
  BY <1>5 DEF Request, BeginConfirm, BeginCancel, BeginCreate, BeginProductRequest, db
<1> QED
  BY <1>2, <1>3, <1>4, <1>5 DEF Next

\* A commit moves an undisturbed product by all that its request is about, or,
\* when the request cancels a draft, not at all.
LEMMA CommitMoves ==
    ASSUME CInv, IInv, LInv, Spreads, NEW w \in Worker, Commit(w),
           NEW p \in Product \ disturbed'
    PROVE  stable'[p].avail = stable[p].avail +
             IF tx[w].op = "cancel" /\ tx[w].from = "draft" THEN 0 ELSE Delta(w, p)
<1> DEFINE q == Quantity[tx[w].res][p]
<1>0. /\ tx[w].pc = "commit" /\ p \notin disturbed
      /\ Account(w) /\ Taken(w)
      /\ tx[w].op \in {"confirm", "cancel"} => q \in Nat /\ (p \notin Lines(tx[w].res) => q = 0)
  BY SessionFields, QuantityAssumption DEF IInv, TxInv, Commit, CInv, LInv, Spreads, Lines
<1>1. /\ stable[p].avail \in Nat /\ row[p].avail \in Nat
      /\ stable'[p] = IF plock[p] = w THEN row[p] ELSE stable[p]
  BY KeptFields, SoundKept DEF Commit, IInv, RowsInv
<1>2. plock[p] = w => /\ row[p].avail = stable[p].avail + Delta(w, p)
                      /\ tx[w].op = "cancel" => tx[w].from = "confirmed"
  BY <1>0 DEF Account, Moved
<1>3. CASE tx[w].op = "confirm"
  <2>1. Delta(w, p) = -q
    BY <1>3 DEF Delta
  <2>2. p \in Lines(tx[w].res) => plock[p] = w
    BY <1>0, <1>3 DEF Taken
  <2> QED
    BY <1>0, <1>1, <1>2, <1>3, <2>1, <2>2
<1>4. CASE tx[w].op = "cancel"
  <2>1. Delta(w, p) = q
    BY <1>4 DEF Delta
  <2>2. tx[w].from = "confirmed" /\ p \in Lines(tx[w].res) => plock[p] = w
    BY <1>0, <1>4 DEF Account, Plan
  <2>3. tx[w].from \in {"draft", "confirmed"}
    BY <1>0, <1>4 DEF Account, Plan
  <2> QED
    BY <1>0, <1>1, <1>2, <1>4, <2>1, <2>2, <2>3
<1>5. CASE tx[w].op \notin {"confirm", "cancel"}
  <2>1. Delta(w, p) = 0
    BY <1>5 DEF Delta
  <2> QED
    BY <1>1, <1>2, <1>5, <2>1
<1> QED
  BY <1>3, <1>4, <1>5

\* The committed rows and statuses move like the ledger, as long as no product
\* is disturbed.
LedgerStep == Ledger!LNext \/ UNCHANGED Ledger!lvars

LEMMA CommitIsLedgerStep ==
    ASSUME CInv, IInv, LInv, RowsInv', disturbed' = {}, disturbed = {},
           NEW w \in Worker, Commit(w)
    PROVE  LedgerStep
<1> PICK r : r = tx[w].res
  OBVIOUS
<1>0. /\ tx[w] \in Session /\ tx[w].pc = "commit" /\ Account(w) /\ Held(w)
      /\ tx[w].op \in {"confirm", "cancel", "create"} => r \in Reservation
      /\ tx[w].op \in {"confirm", "cancel"} => r \in Reservation /\ rlock[r] = w
  BY SessionFields DEF IInv, TxInv, Commit, CInv, LInv, Account, Plan
<1>1. \A p \in Product :
        stable'[p].avail = stable[p].avail +
          IF tx[w].op = "cancel" /\ tx[w].from = "draft" THEN 0 ELSE Delta(w, p)
  BY CommitMoves DEF Spreads
<1>2. \A p \in Product : stable[p].avail \in Nat /\ stable'[p].avail \in Nat
  BY KeptFields, SoundKept DEF IInv, RowsInv
<1>3. ASSUME tx[w].op \in {"confirm", "cancel", "create"}, rlock[r] = w
      PROVE  /\ stableStatus' = [stableStatus EXCEPT ![r] = status[r]]
             /\ status[r] = IF tx[w].op = "create" THEN "draft" ELSE NewStatus(tx[w].op)
             /\ stableStatus[r] = IF tx[w].op = "create" THEN "absent" ELSE tx[w].from
  <2>1. \A x \in Reservation : rlock[x] = w => x = r
    BY <1>0 DEF Held
  <2>2. stableStatus' = [stableStatus EXCEPT ![r] = status[r]]
    BY <1>3, <2>1 DEF Commit, IInv, LocksInv
  <2>3. Lines(r) \ disturbed # {}
    BY <1>0, <1>3, LinesAssumption
  <2>4. stableStatus[r] = IF tx[w].op = "create" THEN "absent" ELSE tx[w].from
    BY <1>0, <1>3, <2>3 DEF Account, Known
  <2> QED
    BY <1>0, <1>3, <2>2, <2>4 DEF Held
<1>4. CASE tx[w].op = "confirm"
  <2>1. \A p \in Product : stable'[p].avail = stable[p].avail - Quantity[r][p]
    BY <1>0, <1>1, <1>2, <1>4, QuantityAssumption DEF Delta
  <2>2. \A p \in Product : Quantity[r][p] <= stable[p].avail
    BY <1>0, <1>2, <1>4, <2>1, QuantityAssumption
  <2>3. r \in Reservation /\ Ledger!Move(r, "draft", "confirmed")
    BY <1>0, <1>3, <1>4 DEF Ledger!Move, NewStatus, Account, Plan
  <2>4. Ledger!Book(r)
    BY <2>1, <2>2, <2>3 DEF Ledger!Book
  <2> QED
    BY <2>3, <2>4 DEF LedgerStep, Ledger!LNext
<1>5. CASE tx[w].op = "cancel" /\ tx[w].from = "confirmed"
  <2>1. \A p \in Product : stable'[p].avail = stable[p].avail + Quantity[r][p]
    BY <1>1, <1>5 DEF Delta
  <2>2. r \in Reservation /\ Ledger!Move(r, "confirmed", "cancelled")
    BY <1>0, <1>3, <1>5 DEF Ledger!Move, NewStatus
  <2>3. Ledger!Release(r)
    BY <2>1, <2>2 DEF Ledger!Release
  <2> QED
    BY <2>2, <2>3 DEF LedgerStep, Ledger!LNext
<1>6. CASE tx[w].op = "cancel" /\ tx[w].from = "draft"
  <2>1. \A p \in Product : stable'[p].avail = stable[p].avail
    BY <1>1, <1>2, <1>6
  <2>2. r \in Reservation /\ Ledger!Move(r, "draft", "cancelled")
    BY <1>0, <1>3, <1>6 DEF Ledger!Move, NewStatus
  <2>3. Ledger!Drop(r)
    BY <2>1, <2>2 DEF Ledger!Drop
  <2> QED
    BY <2>2, <2>3 DEF LedgerStep, Ledger!LNext
<1>7. CASE tx[w].op \notin {"confirm", "cancel"}
  <2>1. \A p \in Product : stable'[p].avail = stable[p].avail
    BY <1>1, <1>2, <1>7 DEF Delta
  <2>2. CASE tx[w].op = "create" /\ rlock[r] = w
    <3>1. r \in Reservation /\ Ledger!Move(r, "absent", "draft")
      BY <1>0, <1>3, <2>2 DEF Ledger!Move
    <3>2. Ledger!Open(r)
      BY <2>1, <3>1 DEF Ledger!Open
    <3> QED
      BY <3>1, <3>2 DEF LedgerStep, Ledger!LNext
  <2>3. CASE ~(tx[w].op = "create" /\ rlock[r] = w)
    <3>1. \A x \in Reservation : rlock[x] # w
      BY <1>0, <1>7, <2>3 DEF Held
    <3>2. stableStatus' = stableStatus
      BY <3>1 DEF Commit, IInv, LocksInv
    <3> QED
      BY <2>1, <3>2 DEF LedgerStep, Ledger!lvars
  <2> QED
    BY <2>2, <2>3
<1> QED
  BY <1>0, <1>4, <1>5, <1>6, <1>7 DEF Account, Plan

LEMMA NextIsLedgerStep ==
    ASSUME CInv, IInv, LInv, disturbed = {}, disturbed' = {}, [HNext]_hvars
    PROVE  LedgerStep
<1>1. CASE HNext
  <2>1. RowsInv'
    BY <1>1, NextIInv DEF HNext, IInv
  <2>2. CASE \E w \in Worker : Commit(w)
    BY <2>1, <2>2, CommitIsLedgerStep
  <2>3. CASE \A w \in Worker : ~Commit(w)
    BY <1>1, <2>3, OnlyCommitChanges DEF HNext, LedgerStep, Ledger!lvars
  <2> QED
    BY <2>2, <2>3
<1>2. CASE UNCHANGED hvars
  BY <1>2 DEF hvars, vars, LedgerStep, Ledger!lvars
<1> QED
  BY <1>1, <1>2

LEMMA InitIsLedgerInit == HInit => Ledger!LInit
BY StockAssumption DEF HInit, Init, Ledger!LInit

\* However many workers there are and whatever Redis does: as long as no request
\* uses a stale value and no quantity is patched, the handlers implement the ledger.
THEOREM LedgerUnlessDisturbed == HSpec /\ [](disturbed = {}) => ImplementsLedger
<1>1. CInv /\ IInv /\ LInv /\ disturbed = {} /\ (disturbed = {})' /\ [HNext]_hvars
        => LedgerStep
  BY NextIsLedgerStep
<1>2. HSpec /\ [](disturbed = {}) => Ledger!LInit /\ [][Ledger!LNext]_(Ledger!lvars)
  BY <1>1, AccountsKept, InitIsLedgerInit, PTL DEF HSpec, LedgerStep
<1> QED
  BY <1>2 DEF ImplementsLedger, Ledger!LSpec

-----------------------------------------------------------------------------
(* One worker, no cache, no PATCH: nothing is ever disturbed.              *)

ServedOneAtATime ==
    Redis = "down" /\ Patches = {} /\ \A v, w \in Worker : v = w

\* What the worker has loaded is what is committed.
Alone(w) ==
    /\ tx[w].op # "patch"
    /\ tx[w].pc = "idle" => tx[w].op = "none"
    /\ tx[w].op \in {"confirm", "cancel"} =>
         /\ tx[w].from = stableStatus[tx[w].res]
         /\ \A p \in tx[w].todo : tx[w].base[p] = stable[p]
    /\ tx[w].pc \in {"fill", "flush"} => tx[w].base[tx[w].cur] = stable[tx[w].cur]

\* The step of w writes only what it has loaded so, and no cache answers it.
Harmless(w) ==
    /\ \A p \in Product : plock'[p] = w /\ plock[p] # w => tx[w].base[p] = stable[p]
    /\ \A r \in Reservation : rlock'[r] = w /\ rlock[r] # w /\ tx[w].op \in {"confirm", "cancel"}
         => tx[w].from = stableStatus[r]
    /\ ~(tx[w].pc = "next" /\ tx'[w].pc = "flush" /\ tx[w].op \in GetOps)

Tidy(w) == Harmless(w) /\ Alone(w)'

Undisturbed == disturbed = {} /\ \A w \in Worker : Alone(w)

LEMMA SessionTidy ==
    ASSUME IInv, NEW w \in Worker, NEW t, tx' = [tx EXCEPT ![w] = t], UNCHANGED db,
           ~(tx[w].pc = "next" /\ t.pc = "flush" /\ tx[w].op \in GetOps),
           t.op # "patch", t.pc # "idle",
           t.op \in {"confirm", "cancel"} =>
             /\ t.from = stableStatus[t.res]
             /\ \A p \in t.todo : t.base[p] = stable[p],
           t.pc \in {"fill", "flush"} => t.base[t.cur] = stable[t.cur]
    PROVE  Tidy(w)
<1>1. tx'[w] = t
  BY DEF IInv, TxInv
<1> QED
  BY <1>1 DEF Tidy, Harmless, Alone, db

LEMMA EndTidy ==
    ASSUME IInv, NEW w \in Worker, Rollback(w) \/ Commit(w)
    PROVE  Tidy(w)
<1>1. tx'[w].op = "none" /\ tx'[w].pc = "idle"
  BY DEF IInv, TxInv, Rollback, Commit, IdleTx
<1>2. /\ \A p \in Product : plock'[p] # w
      /\ \A r \in Reservation : rlock'[r] # w
  BY NoneAssumption DEF Rollback, Commit
<1> QED
  BY <1>1, <1>2 DEF Tidy, Harmless, Alone

LEMMA RequestTidy ==
    ASSUME IInv, NEW w \in Worker, Alone(w), Patches = {}, Request(w)
    PROVE  Tidy(w)
<1>1. ASSUME NEW r \in Reservation, BeginConfirm(w, r) PROVE Tidy(w)
  <2> DEFINE t == [pc |-> "next", op |-> "confirm", res |-> r, from |-> "draft",
                   todo |-> Lines(r), cur |-> NoProduct, base |-> Loaded(r),
                   seen |-> Loaded(r)]
  <2>1. tx' = [tx EXCEPT ![w] = t] /\ UNCHANGED db /\ stableStatus[r] = "draft"
    BY <1>1 DEF BeginConfirm
  <2>2. \A p \in Lines(r) : Loaded(r)[p] = stable[p]
    BY LinesProducts DEF Loaded
  <2>3. /\ t.pc = "next" /\ t.op = "confirm" /\ t.from = "draft" /\ t.res = r
        /\ t.todo = Lines(r) /\ t.base = Loaded(r)
    OBVIOUS
  <2> HIDE DEF t
  <2> QED
    BY <2>1, <2>2, <2>3, SessionTidy
<1>2. ASSUME NEW r \in Reservation, BeginCancel(w, r) PROVE Tidy(w)
  <2> DEFINE held == IF stableStatus[r] = "confirmed" THEN Lines(r) ELSE {}
             t == [pc |-> IF held = {} THEN "status" ELSE "next", op |-> "cancel",
                   res |-> r, from |-> stableStatus[r], todo |-> held, cur |-> NoProduct,
                   base |-> Loaded(r), seen |-> Loaded(r)]
  <2>1. tx' = [tx EXCEPT ![w] = t] /\ UNCHANGED db
    BY <1>2 DEF BeginCancel
  <2>2. \A p \in held : Loaded(r)[p] = stable[p]
    BY LinesProducts DEF Loaded
  <2>3. /\ t.pc \in {"status", "next"} /\ t.op = "cancel" /\ t.from = stableStatus[r]
        /\ t.res = r /\ t.todo = held /\ t.base = Loaded(r)
    OBVIOUS
  <2> HIDE DEF t, held
  <2> QED
    BY <2>1, <2>2, <2>3, SessionTidy
<1>3. ASSUME NEW r \in Reservation, BeginCreate(w, r) PROVE Tidy(w)
  <2> DEFINE t == [IdleTx EXCEPT !.pc = "next", !.op = "create", !.res = r,
                                 !.todo = Lines(r)]
  <2>1. /\ tx' = [tx EXCEPT ![w] = t] /\ t.op = "create" /\ t.pc = "next"
        /\ tx[w].pc = "idle" /\ plock' = plock
        /\ rlock' = [rlock EXCEPT ![r] = w]
    BY <1>3 DEF BeginCreate, IdleTx
  <2> HIDE DEF t
  <2>2. tx'[w] = t
    BY <2>1 DEF IInv, TxInv
  <2> QED
    BY <2>1, <2>2 DEF Tidy, Harmless, Alone, IInv, LocksInv
<1>4. ASSUME NEW p \in Product, NEW op \in {"patch", "delete", "read"},
             BeginProductRequest(w, p, op)
      PROVE  Tidy(w)
  <2> DEFINE t == [IdleTx EXCEPT !.pc = "next", !.op = op, !.todo = {p}]
  <2>1. /\ tx' = [tx EXCEPT ![w] = t] /\ UNCHANGED db /\ t.op = op /\ t.pc = "next"
        /\ op # "patch"
    BY <1>4 DEF BeginProductRequest, IdleTx
  <2> HIDE DEF t
  <2>2. t.op \notin {"confirm", "cancel"}
    BY <2>1
  <2> QED
    BY <2>1, <2>2, SessionTidy
<1> QED
  BY <1>1, <1>2, <1>3, <1>4 DEF Request

LEMMA LineDoneTidy ==
    ASSUME IInv, NEW w \in Worker, Alone(w), NEW last \in {"status", "commit"}, NEW seen,
           LineDone(w, last, seen), UNCHANGED <<stable, stableStatus>>
    PROVE  Alone(w)' /\ tx'[w].pc # "flush"
<1> DEFINE next == IF tx[w].todo = {tx[w].cur} THEN last ELSE "next"
           t == [tx[w] EXCEPT !.todo = tx[w].todo \ {tx[w].cur}, !.seen = seen, !.pc = next]
<1>1. tx' = [tx EXCEPT ![w] = t]
  BY DEF LineDone
<1>2. next \in {"status", "commit", "next"}
  OBVIOUS
<1> HIDE DEF next
<1>3. tx[w] \in Tx
  BY SessionFields DEF IInv, TxInv
<1>4. /\ t.pc = next /\ t.op = tx[w].op /\ t.base = tx[w].base /\ t.from = tx[w].from
      /\ t.res = tx[w].res /\ t.todo = tx[w].todo \ {tx[w].cur}
  BY <1>3 DEF Tx
<1>5. tx'[w] = t
  BY <1>1 DEF IInv, TxInv
<1> HIDE DEF t
<1> QED
  BY <1>2, <1>4, <1>5 DEF Alone

LEMMA WorkerTidy ==
    ASSUME IInv, NEW w \in Worker, Alone(w), Redis = "down", WorkerStep(w)
    PROVE  Tidy(w)
<1>0. /\ tx[w] \in Session /\ tx[w] \in Tx
      /\ tx[w].base \in [Product -> Kept] /\ tx[w].todo \in SUBSET Product
      /\ tx[w].pc \in {"fill", "flush"} => tx[w].cur \in tx[w].todo /\ tx[w].cur \in Product
      /\ tx[w].pc = "status" => tx[w].op \in {"confirm", "cancel"} /\ tx[w].res \in Reservation
  BY SessionFields DEF IInv, TxInv
<1>1. ASSUME NEW p \in Product, RefuseLine(w, p) \/ GetByIdMissing(w, p) PROVE Tidy(w)
  BY <1>1, EndTidy DEF RefuseLine, GetByIdMissing
<1>2. CASE RefuseProduct(w) \/ RespondRead(w)
  BY <1>2, EndTidy DEF RefuseProduct, RespondRead
<1>3. ASSUME NEW p \in Product, CheckAvailability(w, p) \/ NextReleasedLine(w, p) PROVE Tidy(w)
  <2> DEFINE t == [tx[w] EXCEPT !.pc = "flush", !.cur = p]
  <2>1. /\ tx' = [tx EXCEPT ![w] = t] /\ UNCHANGED db
        /\ tx[w].op \in {"confirm", "cancel"} /\ p \in tx[w].todo
    BY <1>3 DEF CheckAvailability, NextReleasedLine
  <2>2. /\ t.pc = "flush" /\ t.op = tx[w].op /\ t.cur = p /\ t.base = tx[w].base /\ t.from = tx[w].from
        /\ t.res = tx[w].res /\ t.todo = tx[w].todo
    BY <1>0 DEF Tx
  <2> HIDE DEF t
  <2>3. tx[w].op \notin GetOps /\ t.base[t.cur] = stable[t.cur]
    BY <2>1, <2>2 DEF Alone, GetOps
  <2> QED
    BY <2>1, <2>2, <2>3, SessionTidy DEF Alone
<1>4. ASSUME NEW p \in Product PROVE ~GetByIdHit(w, p)
  BY DEF GetByIdHit, CacheHit
<1>5. ASSUME NEW p \in Product, GetByIdSelect(w, p) PROVE Tidy(w)
  <2> DEFINE base == [tx[w].base EXCEPT ![p] = stable[p]]
             t == [tx[w] EXCEPT !.pc = "fill", !.cur = p, !.base = base]
  <2>1. tx' = [tx EXCEPT ![w] = t] /\ UNCHANGED db /\ tx[w].op \in GetOps
    BY <1>5 DEF GetByIdSelect
  <2>2. base[p] = stable[p]
    BY <1>0
  <2> HIDE DEF base
  <2>3. /\ t.pc = "fill" /\ t.op = tx[w].op /\ t.cur = p /\ t.base = base
    BY <1>0 DEF Tx
  <2> HIDE DEF t
  <2>4. t.op \notin {"confirm", "cancel", "patch"}
    BY <2>1, <2>3 DEF Alone, GetOps
  <2> QED
    BY <2>1, <2>2, <2>3, <2>4, SessionTidy
<1>6. CASE FillCache(w)
  <2>1. PICK after \in Modified(tx[w].op, tx[w].base[tx[w].cur]) :
          tx' = [tx EXCEPT ![w] = [tx[w] EXCEPT !.pc = "flush",
                                    !.seen = [tx[w].seen EXCEPT ![tx[w].cur] = after]]]
    BY <1>6 DEF FillCache
  <2> DEFINE seen == [tx[w].seen EXCEPT ![tx[w].cur] = after]
             t == [tx[w] EXCEPT !.pc = "flush", !.seen = seen]
  <2>2. tx' = [tx EXCEPT ![w] = t] /\ UNCHANGED db /\ tx[w].pc = "fill"
    BY <1>6, <2>1 DEF FillCache
  <2> HIDE DEF seen
  <2>3. /\ t.pc = "flush" /\ t.op = tx[w].op /\ t.cur = tx[w].cur /\ t.base = tx[w].base /\ t.from = tx[w].from
        /\ t.res = tx[w].res /\ t.todo = tx[w].todo
    BY <1>0 DEF Tx
  <2> HIDE DEF t
  <2> QED
    BY <2>2, <2>3, SessionTidy DEF Alone
<1>7. CASE FlushStatus(w)
  <2> DEFINE t == [tx[w] EXCEPT !.pc = "commit"]
  <2>1. /\ tx' = [tx EXCEPT ![w] = t] /\ tx[w].pc = "status"
        /\ rlock' = [rlock EXCEPT ![tx[w].res] = w]
        /\ UNCHANGED <<stable, plock, stableStatus>>
    BY <1>7 DEF FlushStatus
  <2>2. /\ t.pc = "commit" /\ t.op = tx[w].op /\ t.base = tx[w].base /\ t.from = tx[w].from
        /\ t.res = tx[w].res /\ t.todo = tx[w].todo
    BY <1>0 DEF Tx
  <2> HIDE DEF t
  <2>3. tx'[w] = t
    BY <2>1 DEF IInv, TxInv
  <2>4. \A r \in Reservation : rlock'[r] = w /\ rlock[r] # w => r = tx[w].res
    BY <2>1 DEF IInv, LocksInv
  <2> QED
    BY <1>0, <2>1, <2>2, <2>3, <2>4 DEF Tidy, Harmless, Alone
<1>8. CASE ReserveStock(w) \/ ReleaseStock(w)
  <2>1. CASE Rollback(w)
    BY <2>1, EndTidy
  <2>2. CASE ~Rollback(w)
    <3>1. /\ tx[w].pc = "flush"
          /\ \E new : WriteRow(w, tx[w].cur, new)
          /\ \E seen : LineDone(w, "status", seen)
      BY <1>8, <2>2 DEF ReserveStock, ReleaseStock
    <3>2. /\ rlock' = rlock /\ UNCHANGED <<stable, stableStatus>>
          /\ \A p \in Product : plock'[p] = w /\ plock[p] # w => p = tx[w].cur
      BY <3>1 DEF WriteRow, IInv, LocksInv
    <3>3. Alone(w)' /\ tx'[w].pc # "flush"
      BY <3>1, <3>2, LineDoneTidy
    <3> QED
      BY <3>1, <3>2, <3>3 DEF Tidy, Harmless, Alone
  <2> QED
    BY <2>1, <2>2
<1>9. CASE FlushProduct(w)
  <2>1. /\ tx[w].pc = "flush" /\ LineDone(w, "commit", tx[w].seen)
        /\ (\E new : WriteRow(w, tx[w].cur, new)) \/ UNCHANGED db
    BY <1>9 DEF FlushProduct
  <2>2. /\ rlock' = rlock /\ UNCHANGED <<stable, stableStatus>>
        /\ \A p \in Product : plock'[p] = w /\ plock[p] # w => p = tx[w].cur
    BY <2>1 DEF WriteRow, IInv, LocksInv, db
  <2>3. Alone(w)' /\ tx'[w].pc # "flush"
    BY <2>1, <2>2, LineDoneTidy
  <2> QED
    BY <2>1, <2>2, <2>3 DEF Tidy, Harmless, Alone
<1>10. CASE Commit(w)
  BY <1>10, EndTidy
<1> QED
  BY <1>1, <1>2, <1>3, <1>4, <1>5, <1>6, <1>7, <1>8, <1>9, <1>10 DEF WorkerStep

LEMMA NextUndisturbed ==
    ServedOneAtATime /\ IInv /\ Undisturbed /\ HNext => Undisturbed'
<1> SUFFICES ASSUME ServedOneAtATime, IInv, Undisturbed, HNext
             PROVE  Undisturbed'
  OBVIOUS
<1>1. ASSUME NEW w \in Worker PROVE Tidy(w)
  <2>0. Alone(w) /\ \A v \in Worker : v = w
    BY DEF ServedOneAtATime, Undisturbed
  <2>1. CASE Request(w) \/ WorkerStep(w)
    BY <2>0, <2>1, RequestTidy, WorkerTidy DEF ServedOneAtATime
  <2>2. CASE DeadlockVictim(w) \/ Crash(w)
    BY <2>2, EndTidy DEF DeadlockVictim, Crash
  <2>3. ASSUME NEW p \in Product, Evict(p) \/ RefusedHardDelete(p) PROVE Tidy(w)
    BY <2>0, <2>3 DEF Evict, RefusedHardDelete, db, Tidy, Harmless, Alone
  <2> QED
    BY <2>0, <2>1, <2>2, <2>3 DEF HNext, Next
<1>2. ASSUME NEW w \in Worker, NEW p \in Product
      PROVE  ~StaleWrite(w, p) /\ ~StaleHit(w, p) /\ ~PatchWrite(w, p)
  BY <1>1 DEF Tidy, Harmless, Undisturbed, Alone, StaleWrite, StaleHit, PatchWrite
<1>3. ASSUME NEW w \in Worker, NEW r \in Reservation PROVE ~StaleStatus(w, r)
  BY <1>1 DEF Tidy, Harmless, StaleStatus
<1>4. disturbed' = disturbed \cup
        {p \in Product : \E v \in Worker :
            \/ StaleWrite(v, p) \/ StaleHit(v, p) \/ PatchWrite(v, p)
            \/ \E r \in Reservation : p \in Lines(r) /\ StaleStatus(v, r)}
  BY DEF HNext
<1>5. disturbed' = {}
  BY <1>2, <1>3, <1>4 DEF Undisturbed
<1> QED
  BY <1>1, <1>5 DEF Tidy, Undisturbed

\* Served one at a time, without the cache and without a PATCH, the handlers
\* implement the ledger: stock moves only with a status, all lines at once,
\* whatever requests fail or crash on the way.
THEOREM LedgerOneAtATime == ServedOneAtATime /\ HSpec => ImplementsLedger
<1>1. ServedOneAtATime /\ HInit => Undisturbed
  BY DEF HInit, Init, Undisturbed, Alone, IdleTx
<1>2. ServedOneAtATime /\ IInv /\ Undisturbed /\ [HNext]_hvars
        => ServedOneAtATime' /\ Undisturbed'
  <2>1. Undisturbed /\ UNCHANGED hvars => Undisturbed'
    BY DEF hvars, vars, Undisturbed, Alone
  <2>2. ServedOneAtATime => ServedOneAtATime'
    BY DEF ServedOneAtATime
  <2> QED
    BY <2>1, <2>2, NextUndisturbed
<1>3. Undisturbed => disturbed = {}
  BY DEF Undisturbed
<1> QED
  BY <1>1, <1>2, <1>3, AccountsKept, LedgerUnlessDisturbed, PTL DEF HSpec
==============================================================================
