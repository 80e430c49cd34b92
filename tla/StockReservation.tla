-------------------------- MODULE StockReservation --------------------------
(***************************************************************************)
(* Product stock under concurrent requests: the reservation workflow       *)
(* (create, confirm, cancel), the product handlers (read, PATCH, DELETE),  *)
(* the SQLAlchemy session each request works in, the PostgreSQL row locks  *)
(* and constraints underneath, and the Redis read-through cache of         *)
(* BaseRepository.                                                         *)
(*                                                                         *)
(* A worker is a thread of the server's pool serving one request at a      *)
(* time.  Its session is tx[w]: `seen' holds the attributes of the product *)
(* instances in the identity map, `base' what the session believes is in   *)
(* the database (a flush writes the columns in which they differ).  The    *)
(* database keeps two versions of a row: `stable', the committed one every *)
(* other transaction reads (READ COMMITTED), and `row', the newest one,    *)
(* which only the holder of the row lock may have changed.                 *)
(***************************************************************************)
EXTENDS Integers, FiniteSets

CONSTANTS
    Worker,         \* threads serving requests
    Product,        \* product rows of one tenant
    Reservation,    \* reservations of one tenant
    Quantity,       \* Quantity[r][p]: quantity of r's line for p, 0 without a line
    Stock,          \* Stock[p]: the initial stock_quantity of p, all of it available
    Drafted,        \* reservations that exist already, as drafts
    Patches,        \* PATCH /products bodies tried
    Deletable,      \* products DELETE /products is called on
    Redis,          \* "up"; "flaky": any command may fail; "down": every command fails
    NoWorker, NoProduct, NoReservation, NoEntry

ASSUME QuantityAssumption == Quantity \in [Reservation -> [Product -> Nat]]
ASSUME StockAssumption == Stock \in [Product -> Nat]
ASSUME DraftedAssumption == Drafted \subseteq Reservation
ASSUME PatchesAssumption ==
    Patches \subseteq [fields : SUBSET {"stock", "avail"}, stock : Nat, avail : Nat]
ASSUME DeletableAssumption == Deletable \subseteq Product
ASSUME RedisAssumption == Redis \in {"up", "flaky", "down"}
ASSUME NoneAssumption ==
    /\ NoWorker \notin Worker
    /\ NoProduct \notin Product
    /\ NoReservation \notin Reservation

Row == [stock : Nat, avail : Int, active : BOOLEAN]
ASSUME NoEntryAssumption == NoEntry \notin Row

Lines(r) == {p \in Product : Quantity[r][p] > 0}
ASSUME LinesAssumption == \A r \in Reservation : Lines(r) # {}

VARIABLES
    stable,         \* product rows, last committed version
    row,            \* product rows, newest version
    plock,          \* holder of each product row's lock
    stableStatus,   \* reservation statuses, last committed
    status,         \* reservation statuses, newest version
    rlock,          \* holder of each reservation row's lock
    cache,          \* Redis entries product:{tenant}:{id}
    tx              \* the request and session of each worker

db == <<stable, row, plock, stableStatus, status, rlock>>
vars == <<stable, row, plock, stableStatus, status, rlock, cache, tx>>

Statuses == {"absent", "draft", "confirmed", "cancelled"}
Ops == {"none", "confirm", "cancel", "create", "patch", "delete", "read"}

Tx == [pc : {"idle", "next", "fill", "flush", "status", "commit"},
       op : Ops,
       res : Reservation \cup {NoReservation},
       from : Statuses,                       \* status of res when loaded
       todo : SUBSET Product,                 \* lines not yet processed
       cur : Product \cup {NoProduct},        \* line being processed
       base : [Product -> Row],
       seen : [Product -> Row]]

Blank == [p \in Product |-> [stock |-> 0, avail |-> 0, active |-> FALSE]]

IdleTx == [pc |-> "idle", op |-> "none", res |-> NoReservation, from |-> "absent",
           todo |-> {}, cur |-> NoProduct, base |-> Blank, seen |-> Blank]

Init ==
    /\ stable = [p \in Product |-> [stock |-> Stock[p], avail |-> Stock[p], active |-> TRUE]]
    /\ row = stable
    /\ plock = [p \in Product |-> NoWorker]
    /\ stableStatus = [r \in Reservation |-> IF r \in Drafted THEN "draft" ELSE "absent"]
    /\ status = stableStatus
    /\ rlock = [r \in Reservation |-> NoWorker]
    /\ cache = [p \in Product |-> NoEntry]
    /\ tx = [w \in Worker |-> IdleTx]

-----------------------------------------------------------------------------
(* The session and the database.                                           *)

\* UPDATE of the columns in which the instance differs from what was loaded.
Update(current, before, after) ==
    [stock  |-> IF after.stock # before.stock THEN after.stock ELSE current.stock,
     avail  |-> IF after.avail # before.avail THEN after.avail ELSE current.avail,
     active |-> IF after.active # before.active THEN after.active ELSE current.active]

\* CHECK (available_quantity <= stock_quantity), evaluated by every UPDATE.
CheckHolds(r) == r.avail <= r.stock

LockFree(w, p) == plock[p] \in {NoWorker, w}

\* Mutant of Rollback: the error path commits what was flushed so far.
RollbackKeepsFlushed(w) ==
    /\ stable' = row
    /\ plock' = [p \in Product |-> IF plock[p] = w THEN NoWorker ELSE plock[p]]
    /\ rlock' = [r \in Reservation |-> IF rlock[r] = w THEN NoWorker ELSE rlock[r]]
    /\ tx' = [tx EXCEPT ![w] = IdleTx]
    /\ UNCHANGED <<row, status, stableStatus>>

\* The session is closed without a commit: every uncommitted version is dropped.
Rollback(w) ==
    /\ row' = [p \in Product |-> IF plock[p] = w THEN stable[p] ELSE row[p]]
    /\ status' = [r \in Reservation |-> IF rlock[r] = w THEN stableStatus[r] ELSE status[r]]
    /\ plock' = [p \in Product |-> IF plock[p] = w THEN NoWorker ELSE plock[p]]
    /\ rlock' = [r \in Reservation |-> IF rlock[r] = w THEN NoWorker ELSE rlock[r]]
    /\ tx' = [tx EXCEPT ![w] = IdleTx]
    /\ UNCHANGED <<stable, stableStatus>>

Commit(w) ==
    /\ tx[w].pc = "commit"
    /\ stable' = [p \in Product |-> IF plock[p] = w THEN row[p] ELSE stable[p]]
    /\ stableStatus' =
         [r \in Reservation |-> IF rlock[r] = w THEN status[r] ELSE stableStatus[r]]
    /\ plock' = [p \in Product |-> IF plock[p] = w THEN NoWorker ELSE plock[p]]
    /\ rlock' = [r \in Reservation |-> IF rlock[r] = w THEN NoWorker ELSE rlock[r]]
    /\ tx' = [tx EXCEPT ![w] = IdleTx]
    /\ UNCHANGED <<row, status, cache>>

\* The UPDATE of product p by w: the row lock is taken and kept until the end.
WriteRow(w, p, new) ==
    /\ row' = [row EXCEPT ![p] = new]
    /\ plock' = [plock EXCEPT ![p] = w]
    /\ UNCHANGED <<stable, stableStatus, status, rlock>>

\* Mutant of LineDone: the loop over the lines ends after the first one.
LineDoneEarly(w, last, seen) ==
    tx' = [tx EXCEPT ![w] = [tx[w] EXCEPT !.todo = {}, !.seen = seen, !.pc = last]]

\* Where the session goes once the line for tx[w].cur is done.
LineDone(w, last, seen) ==
    tx' = [tx EXCEPT ![w] =
             [tx[w] EXCEPT !.todo = tx[w].todo \ {tx[w].cur},
                           !.seen = seen,
                           !.pc = IF tx[w].todo = {tx[w].cur} THEN last ELSE "next"]]

-----------------------------------------------------------------------------
(* CacheService is fail-open: a failed get is a miss, a failed set or      *)
(* delete leaves the entry as it is.                                       *)

CacheHit(p) == Redis # "down" /\ cache[p] # NoEntry
CacheMiss(p) == Redis # "up" \/ cache[p] = NoEntry

CacheAfter(p, entry) ==
    {c \in {cache, [cache EXCEPT ![p] = entry]} :
        /\ Redis = "up" => c[p] = entry
        /\ Redis = "down" => c = cache}

-----------------------------------------------------------------------------
(* POST /reservations/{id}/confirm                                         *)

\* get_by_id_with_relations loads the reservation, its lines and their
\* products in one statement; anything but a draft is refused (no effect).
Loaded(r) == [p \in Product |-> IF p \in Lines(r) THEN stable[p] ELSE Blank[p]]

BeginConfirm(w, r) ==
    /\ tx[w].pc = "idle"
    /\ stableStatus[r] = "draft"
    /\ tx' = [tx EXCEPT ![w] = [pc |-> "next", op |-> "confirm", res |-> r, from |-> "draft",
                                todo |-> Lines(r), cur |-> NoProduct,
                                base |-> Loaded(r), seen |-> Loaded(r)]]
    /\ UNCHANGED <<db, cache>>

\* Mutant of CheckAvailability: the quantity is not compared.
CheckAvailabilityAnyQuantity(w, p) ==
    /\ tx[w].pc = "next" /\ tx[w].op = "confirm" /\ p \in tx[w].todo
    /\ tx[w].seen[p].active
    /\ tx' = [tx EXCEPT ![w] = [tx[w] EXCEPT !.pc = "flush", !.cur = p]]
    /\ UNCHANGED <<db, cache>>

\* reserve_stock first calls check_availability, whose get_by_id answers with
\* the instance of the identity map: after a cache hit its own is_active is
\* checked, after a miss the SELECT's is_active filter applies and the instance
\* is written to the cache (the write is lost when Redis fails).
CheckAvailability(w, p) ==
    /\ tx[w].pc = "next" /\ tx[w].op = "confirm" /\ p \in tx[w].todo
    /\ \/ /\ CacheHit(p)
          /\ tx[w].seen[p].active
          /\ UNCHANGED cache
       \/ /\ CacheMiss(p)
          /\ stable[p].active
          /\ cache' \in CacheAfter(p, tx[w].seen[p])
    /\ tx[w].seen[p].avail >= Quantity[tx[w].res][p]
    /\ tx' = [tx EXCEPT ![w] = [tx[w] EXCEPT !.pc = "flush", !.cur = p]]
    /\ UNCHANGED db

\* Mutant of RefuseLine: the handler polls for stock instead of answering 400.
RefuseLinePolls(w, p) ==
    /\ tx[w].pc = "next" /\ tx[w].op = "confirm" /\ p \in tx[w].todo
    /\ tx[w].seen[p].avail < Quantity[tx[w].res][p]
    /\ UNCHANGED vars

\* The same check failing: 404 for an inactive product, 400 for a short stock.
RefuseLine(w, p) ==
    /\ tx[w].pc = "next" /\ tx[w].op = "confirm" /\ p \in tx[w].todo
    /\ \/ /\ CacheHit(p)
          /\ \/ ~tx[w].seen[p].active
             \/ tx[w].seen[p].avail < Quantity[tx[w].res][p]
          /\ UNCHANGED cache
       \/ /\ CacheMiss(p)
          /\ ~stable[p].active
          /\ UNCHANGED cache
       \/ /\ CacheMiss(p)
          /\ stable[p].active
          /\ tx[w].seen[p].avail < Quantity[tx[w].res][p]
          /\ cache' \in CacheAfter(p, tx[w].seen[p])
    /\ Rollback(w)

\* SELECT ... FOR UPDATE waits for the row lock and returns the instance already
\* in the identity map, with the attributes loaded before the wait.
ReserveStock(w) ==
    LET p == tx[w].cur
        taken == [tx[w].seen[p] EXCEPT !.avail = @ - Quantity[tx[w].res][p]]
        new == Update(row[p], tx[w].base[p], taken)
    IN  /\ tx[w].pc = "flush" /\ tx[w].op = "confirm"
        /\ LockFree(w, p)
        /\ \/ /\ row[p].active /\ CheckHolds(new)
              /\ WriteRow(w, p, new)
              /\ LineDone(w, "status", [tx[w].seen EXCEPT ![p] = taken])
           \/ /\ ~(row[p].active /\ CheckHolds(new))
              /\ Rollback(w)
        /\ UNCHANGED cache

-----------------------------------------------------------------------------
(* POST /reservations/{id}/cancel                                          *)

\* Mutant of BeginCancel: the lines of a draft are released too.
BeginCancelReleasesDraft(w, r) ==
    /\ tx[w].pc = "idle"
    /\ stableStatus[r] \in {"draft", "confirmed"}
    /\ tx' = [tx EXCEPT ![w] = [pc |-> "next", op |-> "cancel", res |-> r,
                                from |-> stableStatus[r], todo |-> Lines(r),
                                cur |-> NoProduct, base |-> Loaded(r), seen |-> Loaded(r)]]
    /\ UNCHANGED <<db, cache>>

BeginCancel(w, r) ==
    /\ tx[w].pc = "idle"
    /\ stableStatus[r] \in {"draft", "confirmed"}
    /\ LET held == IF stableStatus[r] = "confirmed" THEN Lines(r) ELSE {}
       IN  tx' = [tx EXCEPT ![w] = [pc |-> IF held = {} THEN "status" ELSE "next",
                                    op |-> "cancel", res |-> r, from |-> stableStatus[r],
                                    todo |-> held, cur |-> NoProduct,
                                    base |-> Loaded(r), seen |-> Loaded(r)]]
    /\ UNCHANGED <<db, cache>>

NextReleasedLine(w, p) ==
    /\ tx[w].pc = "next" /\ tx[w].op = "cancel" /\ p \in tx[w].todo
    /\ tx' = [tx EXCEPT ![w] = [tx[w] EXCEPT !.pc = "flush", !.cur = p]]
    /\ UNCHANGED <<db, cache>>

\* release_stock: the same stale instance, capped at its stock_quantity; an
\* inactive product makes the whole cancellation fail (404).
ReleaseStock(w) ==
    LET p == tx[w].cur
        back == tx[w].seen[p].avail + Quantity[tx[w].res][p]
        cap == tx[w].seen[p].stock
        released == [tx[w].seen[p] EXCEPT !.avail = IF back > cap THEN cap ELSE back]
        new == Update(row[p], tx[w].base[p], released)
    IN  /\ tx[w].pc = "flush" /\ tx[w].op = "cancel"
        /\ LockFree(w, p)
        /\ \/ /\ row[p].active /\ CheckHolds(new)
              /\ WriteRow(w, p, new)
              /\ LineDone(w, "status", [tx[w].seen EXCEPT ![p] = released])
           \/ /\ ~(row[p].active /\ CheckHolds(new))
              /\ Rollback(w)
        /\ UNCHANGED cache

\* Mutant of NewStatus: the wrong member of ReservationStatus.
NewStatusDelivered(op) == IF op = "confirm" THEN "delivered" ELSE "cancelled"

\* repo.update(reservation): confirm and cancel write the status last, whatever
\* the row has become since it was loaded (there is no version column).
NewStatus(op) == IF op = "confirm" THEN "confirmed" ELSE "cancelled"

FlushStatus(w) ==
    LET r == tx[w].res
    IN  /\ tx[w].pc = "status"
        /\ rlock[r] = NoWorker
        /\ rlock' = [rlock EXCEPT ![r] = w]
        /\ status' = [status EXCEPT ![r] = NewStatus(tx[w].op)]
        /\ tx' = [tx EXCEPT ![w].pc = "commit"]
        /\ UNCHANGED <<stable, row, plock, stableStatus, cache>>

-----------------------------------------------------------------------------
(* The handlers that read products with BaseRepository.get_by_id: create a *)
(* reservation (for each line), PATCH, DELETE and GET a product.           *)

GetOps == {"create", "patch", "delete", "read"}

\* INSERT of the reservation: nobody else sees or locks it before the commit.
BeginCreate(w, r) ==
    /\ tx[w].pc = "idle"
    /\ status[r] = "absent"
    /\ status' = [status EXCEPT ![r] = "draft"]
    /\ rlock' = [rlock EXCEPT ![r] = w]
    /\ tx' = [tx EXCEPT ![w] = [IdleTx EXCEPT !.pc = "next", !.op = "create",
                                              !.res = r, !.todo = Lines(r)]]
    /\ UNCHANGED <<stable, row, plock, stableStatus, cache>>

BeginProductRequest(w, p, op) ==
    /\ tx[w].pc = "idle"
    /\ \/ op = "patch" /\ Patches # {}
       \/ op = "delete" /\ p \in Deletable
       \/ op = "read"
    /\ tx' = [tx EXCEPT ![w] = [IdleTx EXCEPT !.pc = "next", !.op = op, !.todo = {p}]]
    /\ UNCHANGED <<db, cache>>

Patched(r, body) ==
    [r EXCEPT !.stock = IF "stock" \in body.fields THEN body.stock ELSE @,
              !.avail = IF "avail" \in body.fields THEN body.avail ELSE @]

\* Mutant of Modified: DELETE toggles is_active.
ModifiedToggles(op, r) ==
    CASE op = "patch"  -> {Patched(r, body) : body \in Patches}
      [] op = "delete" -> {[r EXCEPT !.active = ~@]}
      [] OTHER         -> {r}

\* What the handler makes of the instance get_by_id returned.
Modified(op, r) ==
    CASE op = "patch"  -> {Patched(r, body) : body \in Patches}
      [] op = "delete" -> {[r EXCEPT !.active = FALSE]}
      [] OTHER         -> {r}

\* Cache hit: from_dict rebuilds the cached instance and merge() copies it over
\* the row it loads, so that the cached columns become pending changes.  No
\* is_active check on this path.
GetByIdHit(w, p) ==
    /\ tx[w].pc = "next" /\ tx[w].op \in GetOps /\ p \in tx[w].todo
    /\ CacheHit(p)
    /\ \E after \in Modified(tx[w].op, cache[p]) :
         tx' = [tx EXCEPT ![w] = [tx[w] EXCEPT !.pc = "flush", !.cur = p,
                                               !.base = [tx[w].base EXCEPT ![p] = stable[p]],
                                               !.seen = [tx[w].seen EXCEPT ![p] = after]]]
    /\ UNCHANGED <<db, cache>>

\* Cache miss (or Redis failure): the row is read from the database ...
GetByIdSelect(w, p) ==
    /\ tx[w].pc = "next" /\ tx[w].op \in GetOps /\ p \in tx[w].todo
    /\ CacheMiss(p)
    /\ stable[p].active
    /\ tx' = [tx EXCEPT ![w] = [tx[w] EXCEPT !.pc = "fill", !.cur = p,
                                             !.base = [tx[w].base EXCEPT ![p] = stable[p]]]]
    /\ UNCHANGED <<db, cache>>

\* ... or not found: 404.
GetByIdMissing(w, p) ==
    /\ tx[w].pc = "next" /\ tx[w].op \in GetOps /\ p \in tx[w].todo
    /\ CacheMiss(p)
    /\ ~stable[p].active
    /\ Rollback(w)
    /\ UNCHANGED cache

\* Mutant of FillCache: the instance is cached after the handler changed it.
FillCacheLate(w) ==
    LET p == tx[w].cur
    IN  /\ tx[w].pc = "fill"
        /\ \E after \in Modified(tx[w].op, tx[w].base[p]) :
             /\ cache' \in CacheAfter(p, after)
             /\ tx' = [tx EXCEPT ![w] = [tx[w] EXCEPT !.pc = "flush",
                                                      !.seen = [tx[w].seen EXCEPT ![p] = after]]]
        /\ UNCHANGED db

\* ... and then written to the cache, unless Redis fails.
FillCache(w) ==
    LET p == tx[w].cur
    IN  /\ tx[w].pc = "fill"
        /\ cache' \in CacheAfter(p, tx[w].base[p])
        /\ \E after \in Modified(tx[w].op, tx[w].base[p]) :
             tx' = [tx EXCEPT ![w] = [tx[w] EXCEPT !.pc = "flush",
                                                   !.seen = [tx[w].seen EXCEPT ![p] = after]]]
        /\ UNCHANGED db

\* A create flushes the product with the line it inserts, when the merge left
\* it dirty; a PATCH and a DELETE flush it and drop the cache entry (a Redis
\* failure keeps it).  The columns left out make every PATCH write something.
Invalidates(op) == op \in {"patch", "delete"}

Dirty(w) == tx[w].op = "patch" \/ tx[w].seen[tx[w].cur] # tx[w].base[tx[w].cur]

FlushProduct(w) ==
    LET p == tx[w].cur
        new == Update(row[p], tx[w].base[p], tx[w].seen[p])
    IN  /\ tx[w].pc = "flush" /\ tx[w].op \in {"create", "patch", "delete"}
        /\ tx[w].op = "patch" => CheckHolds(tx[w].seen[p])
        /\ Dirty(w) => LockFree(w, p) /\ CheckHolds(new)
        /\ IF Dirty(w) THEN WriteRow(w, p, new) ELSE UNCHANGED db
        /\ IF Invalidates(tx[w].op) THEN cache' \in CacheAfter(p, NoEntry)
                                    ELSE UNCHANGED cache
        /\ LineDone(w, "commit", tx[w].seen)

\* 400 from the service's check, or the CHECK constraint refusing the UPDATE.
RefuseProduct(w) ==
    LET p == tx[w].cur
        new == Update(row[p], tx[w].base[p], tx[w].seen[p])
    IN  /\ tx[w].pc = "flush" /\ tx[w].op \in {"create", "patch", "delete"}
        /\ \/ tx[w].op = "patch" /\ ~CheckHolds(tx[w].seen[p])
           \/ Dirty(w) /\ LockFree(w, p) /\ ~CheckHolds(new)
        /\ Rollback(w)
        /\ UNCHANGED cache

\* GET /products/{id} answers and closes its session: nothing is flushed.
RespondRead(w) ==
    /\ tx[w].pc = "flush" /\ tx[w].op = "read"
    /\ Rollback(w)
    /\ UNCHANGED cache

\* DELETE ?hard_delete=true of a product that has lines: get_by_id with
\* include_inactive caches the row, then the foreign key refuses the DELETE.
RefusedHardDelete(p) ==
    /\ p \in Deletable
    /\ \E r \in Reservation : p \in Lines(r) /\ stableStatus[r] # "absent"
    /\ CacheMiss(p)
    /\ cache' \in CacheAfter(p, stable[p])
    /\ UNCHANGED <<db, tx>>

-----------------------------------------------------------------------------
(* The environment.                                                        *)

\* Expiry of the TTL, eviction, or a restart of Redis.
Evict(p) ==
    /\ cache[p] # NoEntry
    /\ cache' = [cache EXCEPT ![p] = NoEntry]
    /\ UNCHANGED <<db, tx>>

\* The process or its connection dies: PostgreSQL rolls the transaction back.
Crash(w) ==
    /\ tx[w].pc # "idle"
    /\ Rollback(w)
    /\ UNCHANGED cache

\* Who the statement w is about to execute has to wait for.
AwaitsRow(w) ==
    /\ tx[w].pc = "flush"
    /\ \/ tx[w].op \in {"confirm", "cancel"}
       \/ tx[w].op = "patch" /\ CheckHolds(tx[w].seen[tx[w].cur])
       \/ tx[w].op \in {"create", "delete"} /\ Dirty(w)
    /\ ~LockFree(w, tx[w].cur)

Blocker(w) ==
    CASE AwaitsRow(w) -> plock[tx[w].cur]
      [] tx[w].pc = "status" -> rlock[tx[w].res]
      [] OTHER -> NoWorker

\* PostgreSQL's deadlock detector aborts a transaction on a cycle of waits.
DeadlockVictim(w) ==
    /\ \E S \in SUBSET Worker : w \in S /\ {Blocker(v) : v \in S} = S
    /\ Rollback(w)
    /\ UNCHANGED cache

-----------------------------------------------------------------------------
WorkerStep(w) ==
    \/ \E p \in Product :
         \/ CheckAvailability(w, p) \/ RefuseLine(w, p) \/ NextReleasedLine(w, p)
         \/ GetByIdHit(w, p) \/ GetByIdSelect(w, p) \/ GetByIdMissing(w, p)
    \/ ReserveStock(w) \/ ReleaseStock(w) \/ FlushStatus(w)
    \/ FillCache(w) \/ FlushProduct(w) \/ RefuseProduct(w) \/ RespondRead(w)
    \/ Commit(w)

Request(w) ==
    \/ \E r \in Reservation : BeginConfirm(w, r) \/ BeginCancel(w, r) \/ BeginCreate(w, r)
    \/ \E p \in Product, op \in {"patch", "delete", "read"} : BeginProductRequest(w, p, op)

Next ==
    \/ \E w \in Worker : Request(w) \/ WorkerStep(w) \/ DeadlockVictim(w) \/ Crash(w)
    \/ \E p \in Product : Evict(p) \/ RefusedHardDelete(p)

Spec == Init /\ [][Next]_vars

\* A thread runs on, a waiter is granted the lock in turn (PostgreSQL queues
\* waiters), and the deadlock detector runs.  Nothing obliges a client to send a
\* request, a process to crash or an entry to expire.
Fairness == \A w \in Worker : SF_vars(WorkerStep(w)) /\ WF_vars(DeadlockVictim(w))

FairSpec == Spec /\ Fairness
-----------------------------------------------------------------------------
\* The variables keep their types.
TypeOK ==
    /\ stable \in [Product -> Row]
    /\ row \in [Product -> Row]
    /\ plock \in [Product -> Worker \cup {NoWorker}]
    /\ stableStatus \in [Reservation -> Statuses]
    /\ status \in [Reservation -> Statuses]
    /\ rlock \in [Reservation -> Worker \cup {NoWorker}]
    /\ cache \in [Product -> Row \cup {NoEntry}]
    /\ tx \in [Worker -> Tx]

\* However stale the values requests work with, a product row never promises
\* less than nothing nor more than its stock: only `available <= stock' is a
\* database constraint, `0 <= available' rests on the handlers' checks.
StockBounds ==
    \A p \in Product : /\ 0 <= stable[p].avail /\ stable[p].avail <= stable[p].stock
                       /\ 0 <= row[p].avail /\ row[p].avail <= row[p].stock

\* "ATOMIQUE: Toutes reservations stock reussies OU rollback complet": a
\* reservation becomes confirmed only in a commit that also takes every one of
\* its lines, each from what the request had loaded.
ConfirmTakesEveryLine ==
    [][\A r \in Reservation :
         stableStatus'[r] = "confirmed" /\ stableStatus[r] # "confirmed" =>
           \E w \in Worker :
             /\ tx[w].op = "confirm" /\ tx[w].res = r
             /\ \A p \in Lines(r) :
                  /\ stable'[p].avail = tx[w].base[p].avail - Quantity[r][p]
                  /\ stable'[p].active]_vars

\* Row locks are taken in the arbitrary order of the lines, yet no request stays
\* blocked: the detector breaks every cycle and the others go through.
EveryRequestEnds ==
    \A w \in Worker : tx[w].pc # "idle" ~> tx[w].pc = "idle"

=============================================================================
