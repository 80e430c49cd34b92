----------------------- MODULE StockReservation_proofs -----------------------
(***************************************************************************)
(* Proofs about StockReservation: typing and the bounds of every row, for  *)
(* any number of workers, products and reservations and whatever Redis     *)
(* does.                                                                   *)
(*                                                                         *)
(* StockBounds is not inductive: a request computes with the values its    *)
(* session or the cache remembers.  IInv therefore bounds those too.       *)
(***************************************************************************)
EXTENDS StockReservation, StockHistory, TLAPS

\* Rows a session or the cache may hold: nothing negative is promised, but the
\* two quantities need not fit together.
Kept == {r \in Row : r.avail >= 0}

\* Rows the database may hold.
Sound == {r \in Kept : r.avail <= r.stock}

\* Sessions between two steps: a line being processed is one still to do,
\* reservation requests name a reservation, and a confirmation about to flush
\* has checked the quantity it is going to subtract.
Session ==
    {t \in Tx :
       /\ t.base \in [Product -> Kept]
       /\ t.seen \in [Product -> Kept]
       /\ t.pc \in {"fill", "flush"} => t.cur \in t.todo
       /\ t.op \in {"confirm", "cancel", "create"} => t.res \in Reservation
       /\ t.pc = "status" => t.op \in {"confirm", "cancel"}
       /\ t.pc = "fill" => t.op # "confirm"
       /\ t.pc = "flush" /\ t.op = "confirm" =>
            t.seen[t.cur].avail >= Quantity[t.res][t.cur]}

RowsInv == stable \in [Product -> Sound] /\ row \in [Product -> Sound]

LocksInv ==
    /\ plock \in [Product -> Worker \cup {NoWorker}]
    /\ stableStatus \in [Reservation -> Statuses]
    /\ status \in [Reservation -> Statuses]
    /\ rlock \in [Reservation -> Worker \cup {NoWorker}]

CacheInv == cache \in [Product -> Kept \cup {NoEntry}]

TxInv == tx \in [Worker -> Session]

IInv == RowsInv /\ LocksInv /\ CacheInv /\ TxInv

-----------------------------------------------------------------------------
(* Lemmas about the operators of the module.                               *)

\* An UPDATE the CHECK constraint accepts yields a row within its bounds,
\* whatever the session that sends it believed to be in the database.
LEMMA UpdateRow ==
    ASSUME NEW current \in Sound, NEW before \in Kept, NEW after \in Kept,
           CheckHolds(Update(current, before, after))
    PROVE  Update(current, before, after) \in Sound
BY DEF Update, CheckHolds, Sound, Kept, Row

\* A command sent to Redis sets the entry or leaves the cache alone.
LEMMA CacheAfterTypes ==
    ASSUME CacheInv, NEW p \in Product, NEW entry \in Kept \cup {NoEntry},
           cache' \in CacheAfter(p, entry)
    PROVE  CacheInv'
<1>1. cache' = cache \/ cache' = [cache EXCEPT ![p] = entry]
  BY DEF CacheAfter
<1> QED
  BY <1>1 DEF CacheInv

\* What a handler makes of a row it was given it may keep.
LEMMA ModifiedRow ==
    ASSUME NEW op \in Ops, NEW r \in Kept, NEW after \in Modified(op, r)
    PROVE  after \in Kept
<1>1. CASE op = "patch"
  <2>1. PICK body \in Patches : after = Patched(r, body)
    BY <1>1 DEF Modified
  <2>2. body.stock \in Nat /\ body.avail \in Nat
    BY PatchesAssumption
  <2>3. after = [stock |-> IF "stock" \in body.fields THEN body.stock ELSE r.stock,
                 avail |-> IF "avail" \in body.fields THEN body.avail ELSE r.avail,
                 active |-> r.active]
    BY <2>1 DEF Patched, Kept, Row
  <2> QED
    BY <2>2, <2>3 DEF Kept, Row
<1>2. CASE op = "delete"
  BY <1>2 DEF Modified, Kept, Row
<1>3. CASE op # "patch" /\ op # "delete"
  BY <1>3 DEF Modified
<1> QED
  BY <1>1, <1>2, <1>3

LEMMA LinesProducts == \A r \in Reservation : Lines(r) \in SUBSET Product
BY DEF Lines

LEMMA SoundKept == Sound \subseteq Kept
BY DEF Sound

LEMMA BlankRows == Blank \in [Product -> Kept] /\ \A p \in Product : Blank[p] \in Kept
BY DEF Blank, Kept, Row

LEMMA LoadedRows == ASSUME RowsInv, NEW r \in Reservation PROVE Loaded(r) \in [Product -> Kept]
BY BlankRows, SoundKept DEF Loaded, RowsInv

LEMMA KeptFields == \A r \in Kept : /\ r \in Row /\ r.stock \in Nat /\ r.avail \in Nat
                                    /\ r.active \in BOOLEAN
BY DEF Kept, Row

\* The fields of a session.
LEMMA SessionFields ==
    ASSUME NEW t \in Session
    PROVE  /\ t \in Tx
           /\ t.op \in Ops /\ t.from \in Statuses
           /\ t.todo \in SUBSET Product
           /\ t.base \in [Product -> Kept] /\ t.seen \in [Product -> Kept]
           /\ t.pc \in {"fill", "flush"} => t.cur \in t.todo /\ t.cur \in Product
           /\ t.op \in {"confirm", "cancel", "create"} => t.res \in Reservation
           /\ t.pc = "status" => t.op \in {"confirm", "cancel"}
           /\ t.pc = "fill" => t.op # "confirm"
BY DEF Session, Tx

LEMMA IdleSession == IdleTx \in Session
<1>1. IdleTx \in Tx
  <2>1. Blank \in [Product -> Row]
    BY BlankRows, KeptFields
  <2> QED
    BY <2>1 DEF IdleTx, Tx, Ops, Statuses
<1> QED
  BY <1>1, BlankRows DEF IdleTx, Session

\* A session replaced by a session leaves sessions.
LEMMA SessionStep ==
    ASSUME TxInv, NEW w \in Worker, NEW t \in Session, tx' = [tx EXCEPT ![w] = t]
    PROVE  TxInv'
BY DEF TxInv

\* The end of a transaction, either way, leaves an idle session.
LEMMA RollbackStep ==
    ASSUME IInv, NEW w \in Worker, Rollback(w), CacheInv'
    PROVE  IInv'
<1>1. RowsInv' /\ LocksInv'
  BY DEF IInv, RowsInv, LocksInv, Rollback
<1>2. TxInv'
  BY IdleSession, SessionStep DEF IInv, Rollback
<1> QED
  BY <1>1, <1>2 DEF IInv

\* A finished line leaves a session whatever state it goes to.
LEMMA LineDoneStep ==
    ASSUME TxInv, NEW w \in Worker, NEW last \in {"status", "commit"},
           NEW seen \in [Product -> Kept], LineDone(w, last, seen),
           last = "status" => tx[w].op \in {"confirm", "cancel"}
    PROVE  TxInv'
<1> DEFINE next == IF tx[w].todo = {tx[w].cur} THEN last ELSE "next"
           t == [tx[w] EXCEPT !.todo = tx[w].todo \ {tx[w].cur}, !.seen = seen, !.pc = next]
<1>1. next \in {last, "next"}
  OBVIOUS
<1>2. tx' = [tx EXCEPT ![w] = t]
  BY DEF LineDone
<1> HIDE DEF next
<1>3. tx[w] \in Session
  BY DEF TxInv
<1>4. seen \in [Product -> Row]
  BY KeptFields
<1>5. t \in Tx
  BY <1>1, <1>3, <1>4, SessionFields DEF Tx
<1>6. t \in Session
  BY <1>1, <1>3, <1>5, SessionFields DEF Session, Tx
<1> QED
  BY <1>2, <1>6, SessionStep

-----------------------------------------------------------------------------
(* Requests.                                                               *)

LEMMA BeginReservationStep ==
    ASSUME IInv, NEW w \in Worker, NEW r \in Reservation,
           BeginConfirm(w, r) \/ BeginCancel(w, r)
    PROVE  IInv'
<1>1. /\ stableStatus[r] \in Statuses
      /\ Loaded(r) \in [Product -> Kept]
      /\ Loaded(r) \in [Product -> Row]
      /\ Lines(r) \in SUBSET Product
  BY LoadedRows, LinesProducts, KeptFields DEF IInv, LocksInv
<1> DEFINE S(pc, op, from, todo) ==
             [pc |-> pc, op |-> op, res |-> r, from |-> from, todo |-> todo,
              cur |-> NoProduct, base |-> Loaded(r), seen |-> Loaded(r)]
<1>2. ASSUME NEW pc \in {"next", "status"}, NEW op \in {"confirm", "cancel"},
             NEW from \in Statuses, NEW todo \in SUBSET Product
      PROVE  S(pc, op, from, todo) \in Session
  BY <1>1 DEF Session, Tx, Ops
<1>3. \E pc \in {"next", "status"}, op \in {"confirm", "cancel"}, from \in Statuses,
         todo \in SUBSET Product : tx' = [tx EXCEPT ![w] = S(pc, op, from, todo)]
  <2>1. CASE BeginConfirm(w, r)
    BY <2>1, <1>1 DEF BeginConfirm, Statuses
  <2>2. CASE BeginCancel(w, r)
    BY <2>2, <1>1 DEF BeginCancel
  <2> QED
    BY <2>1, <2>2
<1>4. TxInv'
  BY <1>2, <1>3, SessionStep DEF IInv
<1>5. UNCHANGED <<db, cache>>
  BY DEF BeginConfirm, BeginCancel
<1> QED
  BY <1>4, <1>5 DEF IInv, RowsInv, LocksInv, CacheInv, db

LEMMA BeginCreateStep ==
    ASSUME IInv, NEW w \in Worker, NEW r \in Reservation, BeginCreate(w, r)
    PROVE  IInv'
<1> DEFINE t == [IdleTx EXCEPT !.pc = "next", !.op = "create", !.res = r, !.todo = Lines(r)]
<1>1. t \in Tx
  BY IdleSession, LinesProducts DEF Session, Tx, Ops
<1>2. t \in Session
  BY <1>1, BlankRows DEF Session, IdleTx
<1>3. TxInv'
  BY <1>2, SessionStep DEF IInv, BeginCreate
<1>4. LocksInv'
  BY DEF IInv, LocksInv, BeginCreate, Statuses
<1> QED
  BY <1>3, <1>4 DEF IInv, RowsInv, CacheInv, BeginCreate

LEMMA BeginProductStep ==
    ASSUME IInv, NEW w \in Worker, NEW p \in Product, NEW op \in {"patch", "delete", "read"},
           BeginProductRequest(w, p, op)
    PROVE  IInv'
<1> DEFINE t == [IdleTx EXCEPT !.pc = "next", !.op = op, !.todo = {p}]
<1>1. t \in Tx
  BY IdleSession DEF Session, Tx, Ops
<1>2. t \in Session
  BY <1>1, BlankRows DEF Session, IdleTx
<1>3. TxInv'
  BY <1>2, SessionStep DEF IInv, BeginProductRequest
<1> QED
  BY <1>3 DEF IInv, RowsInv, LocksInv, CacheInv, BeginProductRequest, db

-----------------------------------------------------------------------------
(* Steps of a worker.                                                      *)

\* The session that has picked the line for p.
LEMMA PickLine ==
    ASSUME TxInv, NEW w \in Worker, NEW p \in tx[w].todo,
           tx[w].op = "confirm" => tx[w].seen[p].avail >= Quantity[tx[w].res][p]
    PROVE  [tx[w] EXCEPT !.pc = "flush", !.cur = p] \in Session
<1> DEFINE t == [tx[w] EXCEPT !.pc = "flush", !.cur = p]
<1>1. tx[w] \in Session
  BY DEF TxInv
<1>2. t \in Tx
  BY <1>1, SessionFields DEF Tx
<1> QED
  BY <1>1, <1>2, SessionFields DEF Session, Tx

LEMMA CheckAvailabilityStep ==
    ASSUME IInv, NEW w \in Worker, NEW p \in Product, CheckAvailability(w, p)
    PROVE  IInv'
<1>1. tx[w] \in Session
  BY DEF IInv, TxInv
<1>2. TxInv'
  BY PickLine, SessionStep DEF IInv, CheckAvailability
<1>3. tx[w].seen[p] \in Kept
  BY <1>1, SessionFields
<1>4. CacheInv'
  <2>1. CASE UNCHANGED cache
    BY <2>1 DEF IInv, CacheInv
  <2>2. CASE cache' \in CacheAfter(p, tx[w].seen[p])
    BY <2>2, <1>3, CacheAfterTypes DEF IInv
  <2> QED
    BY <2>1, <2>2 DEF CheckAvailability
<1> QED
  BY <1>2, <1>4 DEF IInv, RowsInv, LocksInv, CheckAvailability, db

LEMMA RefuseLineStep ==
    ASSUME IInv, NEW w \in Worker, NEW p \in Product, RefuseLine(w, p)
    PROVE  IInv'
<1>1. tx[w].seen[p] \in Kept
  BY SessionFields DEF IInv, TxInv
<1>2. CacheInv'
  <2>1. CASE UNCHANGED cache
    BY <2>1 DEF IInv, CacheInv
  <2>2. CASE cache' \in CacheAfter(p, tx[w].seen[p])
    BY <2>2, <1>1, CacheAfterTypes DEF IInv
  <2> QED
    BY <2>1, <2>2 DEF RefuseLine
<1> QED
  BY <1>2, RollbackStep DEF RefuseLine

\* A row written within its bounds keeps the rows and the locks typed.
LEMMA WriteRowTypes ==
    ASSUME IInv, NEW w \in Worker, NEW p \in Product, NEW new \in Sound, WriteRow(w, p, new)
    PROVE  RowsInv' /\ LocksInv'
BY DEF IInv, RowsInv, LocksInv, WriteRow

LEMMA ReserveStockStep ==
    ASSUME IInv, NEW w \in Worker, ReserveStock(w)
    PROVE  IInv'
<1> DEFINE p == tx[w].cur
           q == Quantity[tx[w].res][p]
           taken == [tx[w].seen[p] EXCEPT !.avail = @ - q]
           new == Update(row[p], tx[w].base[p], taken)
<1>1. /\ tx[w] \in Session
      /\ tx[w].pc = "flush" /\ tx[w].op = "confirm"
  BY DEF IInv, TxInv, ReserveStock
<1>2. /\ p \in Product /\ tx[w].res \in Reservation
      /\ tx[w].base[p] \in Kept /\ tx[w].seen[p] \in Kept
      /\ row[p] \in Sound
      /\ tx[w].seen[p].avail >= q
  BY <1>1, SessionFields DEF IInv, RowsInv, Session
<1>3. q \in Nat
  BY <1>2, QuantityAssumption
<1>4. taken \in Kept
  BY <1>2, <1>3 DEF Kept, Row
<1>5. CacheInv'
  BY DEF IInv, CacheInv, ReserveStock
<1>6. CASE /\ row[p].active /\ CheckHolds(new) /\ WriteRow(w, p, new)
           /\ LineDone(w, "status", [tx[w].seen EXCEPT ![p] = taken])
  <2>1. new \in Sound
    BY <1>2, <1>4, <1>6, UpdateRow
  <2>2. [tx[w].seen EXCEPT ![p] = taken] \in [Product -> Kept]
    BY <1>1, <1>4, SessionFields
  <2>3. TxInv'
    BY <1>1, <1>6, <2>2, LineDoneStep DEF IInv
  <2>4. RowsInv' /\ LocksInv'
    BY <1>2, <1>6, <2>1, WriteRowTypes
  <2> QED
    BY <1>5, <2>3, <2>4 DEF IInv
<1>7. CASE Rollback(w)
  BY <1>5, <1>7, RollbackStep
<1> QED
  BY <1>6, <1>7 DEF ReserveStock

LEMMA NextReleasedLineStep ==
    ASSUME IInv, NEW w \in Worker, NEW p \in Product, NextReleasedLine(w, p)
    PROVE  IInv'
<1>1. TxInv'
  BY PickLine, SessionStep DEF IInv, NextReleasedLine
<1> QED
  BY <1>1 DEF IInv, RowsInv, LocksInv, CacheInv, NextReleasedLine, db

LEMMA ReleaseStockStep ==
    ASSUME IInv, NEW w \in Worker, ReleaseStock(w)
    PROVE  IInv'
<1> DEFINE p == tx[w].cur
           back == tx[w].seen[p].avail + Quantity[tx[w].res][p]
           cap == tx[w].seen[p].stock
           released == [tx[w].seen[p] EXCEPT !.avail = IF back > cap THEN cap ELSE back]
           new == Update(row[p], tx[w].base[p], released)
<1>1. /\ tx[w] \in Session
      /\ tx[w].pc = "flush" /\ tx[w].op = "cancel"
  BY DEF IInv, TxInv, ReleaseStock
<1>2. /\ p \in Product /\ tx[w].res \in Reservation
      /\ tx[w].base[p] \in Kept /\ tx[w].seen[p] \in Kept
      /\ row[p] \in Sound
  BY <1>1, SessionFields DEF IInv, RowsInv
<1>3. back \in Nat /\ cap \in Nat
  <2>1. tx[w].seen[p].avail \in Nat /\ tx[w].seen[p].stock \in Nat
    BY <1>2, KeptFields
  <2>2. Quantity[tx[w].res][p] \in Nat
    BY <1>2, QuantityAssumption
  <2> QED
    BY <2>1, <2>2
<1>4. released \in Kept
  <2>1. PICK a \in Nat : a = IF back > cap THEN cap ELSE back
    BY <1>3
  <2>2. PICK r \in Kept : r = tx[w].seen[p]
    BY <1>2
  <2>3. [r EXCEPT !.avail = a] \in Kept
    BY DEF Kept, Row
  <2> QED
    BY <2>1, <2>2, <2>3
<1>5. CacheInv'
  BY DEF IInv, CacheInv, ReleaseStock
<1>6. CASE /\ row[p].active /\ CheckHolds(new) /\ WriteRow(w, p, new)
           /\ LineDone(w, "status", [tx[w].seen EXCEPT ![p] = released])
  <2>1. new \in Sound
    BY <1>2, <1>4, <1>6, UpdateRow
  <2>2. [tx[w].seen EXCEPT ![p] = released] \in [Product -> Kept]
    BY <1>1, <1>4, SessionFields
  <2>3. TxInv'
    BY <1>1, <1>6, <2>2, LineDoneStep DEF IInv
  <2>4. RowsInv' /\ LocksInv'
    BY <1>2, <1>6, <2>1, WriteRowTypes
  <2> QED
    BY <1>5, <2>3, <2>4 DEF IInv
<1>7. CASE Rollback(w)
  BY <1>5, <1>7, RollbackStep
<1> QED
  BY <1>6, <1>7 DEF ReleaseStock

LEMMA FlushStatusStep ==
    ASSUME IInv, NEW w \in Worker, FlushStatus(w)
    PROVE  IInv'
<1> DEFINE t == [tx[w] EXCEPT !.pc = "commit"]
<1>1. /\ tx[w] \in Session
      /\ tx[w].res \in Reservation
  BY SessionFields DEF IInv, TxInv, FlushStatus
<1>2. t \in Tx
  BY <1>1, SessionFields DEF Tx
<1>3. t \in Session
  BY <1>1, <1>2, SessionFields DEF Session, Tx
<1>4. TxInv'
  <2>1. tx' = [tx EXCEPT ![w] = t]
    BY DEF FlushStatus
  <2> QED
    BY <1>3, <2>1, SessionStep DEF IInv
<1>5. LocksInv'
  BY <1>1 DEF IInv, LocksInv, FlushStatus, NewStatus, Statuses
<1> QED
  BY <1>4, <1>5 DEF IInv, RowsInv, CacheInv, FlushStatus

LEMMA GetByIdHitStep ==
    ASSUME IInv, NEW w \in Worker, NEW p \in Product, GetByIdHit(w, p)
    PROVE  IInv'
<1>1. PICK after \in Modified(tx[w].op, cache[p]) :
        tx' = [tx EXCEPT ![w] = [tx[w] EXCEPT !.pc = "flush", !.cur = p,
                                              !.base = [tx[w].base EXCEPT ![p] = stable[p]],
                                              !.seen = [tx[w].seen EXCEPT ![p] = after]]]
  BY DEF GetByIdHit
<1> DEFINE base == [tx[w].base EXCEPT ![p] = stable[p]]
           seen == [tx[w].seen EXCEPT ![p] = after]
           t == [tx[w] EXCEPT !.pc = "flush", !.cur = p, !.base = base, !.seen = seen]
<1>2. /\ tx[w] \in Session /\ p \in tx[w].todo /\ tx[w].op \in GetOps
      /\ cache[p] \in Kept /\ stable[p] \in Kept
  BY SoundKept DEF IInv, TxInv, CacheInv, RowsInv, GetByIdHit, CacheHit
<1>3. after \in Kept
  BY <1>1, <1>2, ModifiedRow, SessionFields
<1>4. base \in [Product -> Kept] /\ seen \in [Product -> Kept]
  BY <1>2, <1>3, SessionFields
<1>5. base \in [Product -> Row] /\ seen \in [Product -> Row]
  BY <1>4, KeptFields
<1> HIDE DEF base, seen
<1>6. t \in Tx
  BY <1>2, <1>5, SessionFields DEF Tx
<1>7. t \in Session
  BY <1>2, <1>4, <1>6, SessionFields DEF Session, Tx, GetOps
<1>8. TxInv'
  BY <1>1, <1>7, SessionStep DEF IInv, base, seen
<1> QED
  BY <1>8 DEF IInv, RowsInv, LocksInv, CacheInv, GetByIdHit, db

LEMMA GetByIdSelectStep ==
    ASSUME IInv, NEW w \in Worker, NEW p \in Product, GetByIdSelect(w, p)
    PROVE  IInv'
<1> DEFINE base == [tx[w].base EXCEPT ![p] = stable[p]]
           t == [tx[w] EXCEPT !.pc = "fill", !.cur = p, !.base = base]
<1>1. /\ tx[w] \in Session /\ p \in tx[w].todo
      /\ stable[p] \in Kept
      /\ tx[w].op # "confirm"
  BY SoundKept DEF IInv, TxInv, RowsInv, GetByIdSelect, GetOps
<1>2. base \in [Product -> Kept]
  BY <1>1, SessionFields
<1>3. base \in [Product -> Row]
  BY <1>2, KeptFields
<1>4. tx' = [tx EXCEPT ![w] = t]
  BY DEF GetByIdSelect
<1> HIDE DEF base
<1>5. t \in Tx
  BY <1>1, <1>3, SessionFields DEF Tx
<1>6. t \in Session
  BY <1>1, <1>2, <1>5, SessionFields DEF Session, Tx
<1>7. TxInv'
  BY <1>4, <1>6, SessionStep DEF IInv
<1> QED
  BY <1>7 DEF IInv, RowsInv, LocksInv, CacheInv, GetByIdSelect, db

LEMMA FillCacheStep ==
    ASSUME IInv, NEW w \in Worker, FillCache(w)
    PROVE  IInv'
<1> DEFINE p == tx[w].cur
<1>1. PICK after \in Modified(tx[w].op, tx[w].base[p]) :
        tx' = [tx EXCEPT ![w] = [tx[w] EXCEPT !.pc = "flush",
                                              !.seen = [tx[w].seen EXCEPT ![p] = after]]]
  BY DEF FillCache
<1> DEFINE seen == [tx[w].seen EXCEPT ![p] = after]
           t == [tx[w] EXCEPT !.pc = "flush", !.seen = seen]
<1>2. tx[w] \in Session /\ tx[w].pc = "fill"
  BY DEF IInv, TxInv, FillCache
<1>3. /\ p \in Product /\ p \in tx[w].todo
      /\ tx[w].base[p] \in Kept
      /\ after \in Kept
  BY <1>2, ModifiedRow, SessionFields
<1>4. seen \in [Product -> Kept]
  BY <1>2, <1>3, SessionFields
<1>5. seen \in [Product -> Row]
  BY <1>4, KeptFields
<1> HIDE DEF seen
<1>6. t \in Tx
  BY <1>2, <1>5, SessionFields DEF Tx
<1>7. t \in Session
  BY <1>2, <1>3, <1>4, <1>6, SessionFields DEF Session, Tx
<1>8. TxInv'
  BY <1>1, <1>7, SessionStep DEF IInv, seen
<1>9. CacheInv'
  BY <1>3, CacheAfterTypes DEF IInv, FillCache
<1> QED
  BY <1>8, <1>9 DEF IInv, RowsInv, LocksInv, FillCache, db

LEMMA FlushProductStep ==
    ASSUME IInv, NEW w \in Worker, FlushProduct(w)
    PROVE  IInv'
<1> DEFINE p == tx[w].cur
           new == Update(row[p], tx[w].base[p], tx[w].seen[p])
<1>1. tx[w] \in Session /\ tx[w].pc = "flush"
  BY DEF IInv, TxInv, FlushProduct
<1>2. /\ p \in Product
      /\ tx[w].base[p] \in Kept /\ tx[w].seen[p] \in Kept
      /\ tx[w].seen \in [Product -> Kept]
      /\ row[p] \in Sound
  BY <1>1, SessionFields DEF IInv, RowsInv
<1>3. TxInv'
  BY <1>2, LineDoneStep DEF IInv, FlushProduct
<1>4. CacheInv'
  <2>1. CASE UNCHANGED cache
    BY <2>1 DEF IInv, CacheInv
  <2>2. CASE cache' \in CacheAfter(p, NoEntry)
    BY <1>2, <2>2, CacheAfterTypes DEF IInv
  <2> QED
    BY <2>1, <2>2 DEF FlushProduct
<1>5. RowsInv' /\ LocksInv'
  <2>1. CASE Dirty(w)
    <3>1. CheckHolds(new) /\ WriteRow(w, p, new)
      BY <2>1 DEF FlushProduct
    <3>2. new \in Sound
      BY <1>2, <3>1, UpdateRow
    <3> QED
      BY <1>2, <3>1, <3>2, WriteRowTypes
  <2>2. CASE UNCHANGED db
    BY <2>2 DEF IInv, RowsInv, LocksInv, db
  <2> QED
    BY <2>1, <2>2 DEF FlushProduct
<1> QED
  BY <1>3, <1>4, <1>5 DEF IInv

LEMMA WorkerStepPreserves ==
    ASSUME IInv, NEW w \in Worker, WorkerStep(w)
    PROVE  IInv'
<1>1. ASSUME Rollback(w), UNCHANGED cache
      PROVE  IInv'
  BY <1>1, RollbackStep DEF IInv, CacheInv
<1>2. ASSUME NEW p \in Product, GetByIdMissing(w, p)
      PROVE  IInv'
  BY <1>1, <1>2 DEF GetByIdMissing
<1>3. CASE RefuseProduct(w)
  BY <1>1, <1>3 DEF RefuseProduct
<1>4. CASE RespondRead(w)
  BY <1>1, <1>4 DEF RespondRead
<1>5. CASE Commit(w)
  <2>1. RowsInv' /\ LocksInv'
    BY <1>5 DEF IInv, RowsInv, LocksInv, Commit
  <2>2. TxInv'
    BY <1>5, IdleSession, SessionStep DEF IInv, Commit
  <2> QED
    BY <1>5, <2>1, <2>2 DEF IInv, CacheInv, Commit
<1>6. ASSUME NEW p \in Product,
             \/ CheckAvailability(w, p) \/ RefuseLine(w, p) \/ NextReleasedLine(w, p)
             \/ GetByIdHit(w, p) \/ GetByIdSelect(w, p)
      PROVE  IInv'
  BY <1>6, CheckAvailabilityStep, RefuseLineStep, NextReleasedLineStep, GetByIdHitStep,
     GetByIdSelectStep
<1>7. CASE ReserveStock(w) \/ ReleaseStock(w) \/ FlushStatus(w)
  BY <1>7, ReserveStockStep, ReleaseStockStep, FlushStatusStep
<1>8. CASE FillCache(w) \/ FlushProduct(w)
  BY <1>8, FillCacheStep, FlushProductStep
<1> QED
  BY <1>2, <1>3, <1>4, <1>5, <1>6, <1>7, <1>8, Zenon DEF WorkerStep

-----------------------------------------------------------------------------
(* The invariant and the theorems.                                         *)

\* The initial rows are all available, nothing is cached, nobody is served.
LEMMA InitIInv == Init => IInv
<1> SUFFICES ASSUME Init PROVE IInv
  OBVIOUS
<1>1. RowsInv
  BY StockAssumption DEF Init, RowsInv, Sound, Kept, Row
<1>2. LocksInv
  BY DEF Init, LocksInv, Statuses
<1>3. CacheInv /\ TxInv
  BY IdleSession DEF Init, CacheInv, TxInv
<1> QED
  BY <1>1, <1>2, <1>3 DEF IInv

\* Every step of a worker, of the environment and of PostgreSQL keeps IInv.
LEMMA NextIInv == IInv /\ [Next]_vars => IInv'
<1> SUFFICES ASSUME IInv, [Next]_vars PROVE IInv'
  OBVIOUS
<1>1. ASSUME NEW w \in Worker, Request(w)
      PROVE  IInv'
  BY <1>1, BeginReservationStep, BeginCreateStep, BeginProductStep DEF Request
<1>2. ASSUME NEW w \in Worker, DeadlockVictim(w) \/ Crash(w)
      PROVE  IInv'
  BY <1>2, RollbackStep DEF DeadlockVictim, Crash, IInv, CacheInv
<1>3. ASSUME NEW p \in Product, Evict(p)
      PROVE  IInv'
  BY <1>3 DEF Evict, IInv, RowsInv, LocksInv, CacheInv, TxInv, db
<1>4. ASSUME NEW p \in Product, RefusedHardDelete(p)
      PROVE  IInv'
  <2>1. stable[p] \in Kept
    BY SoundKept DEF IInv, RowsInv
  <2>2. CacheInv'
    BY <1>4, <2>1, CacheAfterTypes DEF RefusedHardDelete, IInv
  <2> QED
    BY <1>4, <2>2 DEF RefusedHardDelete, IInv, RowsInv, LocksInv, TxInv, db
<1>5. CASE UNCHANGED vars
  BY <1>5 DEF vars, IInv, RowsInv, LocksInv, CacheInv, TxInv
<1> QED
  BY <1>1, <1>2, <1>3, <1>4, <1>5, WorkerStepPreserves DEF Next

\* Every behaviour keeps the inductive invariant.
THEOREM Invariance == Spec => []IInv
  BY InitIInv, NextIInv, PTL DEF Spec

\* Type correctness, for any number of workers, products and reservations.
THEOREM TypeCorrect == Spec => []TypeOK
<1>1. IInv => TypeOK
  BY KeptFields, SoundKept DEF IInv, RowsInv, LocksInv, CacheInv, TxInv, TypeOK, Session
<1> QED
  BY <1>1, Invariance, PTL

\* However stale the values requests compute with, no product row is ever below
\* zero or above its stock, committed or not.
THEOREM RowsWithinBounds == Spec => []StockBounds
<1>1. IInv => StockBounds
  BY DEF IInv, RowsInv, StockBounds, Sound, Kept
<1> QED
  BY <1>1, Invariance, PTL

-----------------------------------------------------------------------------
(***************************************************************************)
(* What a commit may do, for any number of workers, products and           *)
(* reservations: a reservation is confirmed with all of its lines or not   *)
(* at all; the cache holds committed rows only; a soft-deleted product     *)
(* comes back only through a stale value.                                  *)
(*                                                                         *)
(* Each property speaks of one commit or one cache command; why it holds   *)
(* is spread over the steps that led to it.  LInv says what a confirmation *)
(* has achieved so far: every line it is done with is locked, and taken    *)
(* from the quantity the request loaded; and a status nobody committed yet *)
(* belongs to the worker that has just written it.  PInv says that what a  *)
(* session loaded and may yet cache was committed, DInv that no session    *)
(* and no uncommitted row makes an undisturbed product active again.       *)
(***************************************************************************)

\* The lines a confirmation has done are its own and taken; the others are as
\* they were loaded.
Taken(w) ==
    tx[w].op = "confirm" =>
      /\ tx[w].todo \subseteq Lines(tx[w].res)
      /\ tx[w].pc \in {"status", "commit"} => tx[w].todo = {}
      /\ \A p \in tx[w].todo : tx[w].seen[p] = tx[w].base[p]
      /\ \A p \in Lines(tx[w].res) \ tx[w].todo :
           /\ plock[p] = w
           /\ row[p].avail = tx[w].base[p].avail - Quantity[tx[w].res][p]
           /\ row[p].active

\* A worker locks the reservation of its request only, when it creates it or
\* once it has written the final status.
Held(w) ==
    \A r \in Reservation : rlock[r] = w =>
      /\ tx[w].res = r
      /\ \/ tx[w].op = "create" /\ tx[w].pc # "idle" /\ status[r] = "draft"
         \/ /\ tx[w].op \in {"confirm", "cancel"} /\ tx[w].pc = "commit"
            /\ status[r] = NewStatus(tx[w].op)

LInv == \A w \in Worker : Taken(w) /\ Held(w)

-----------------------------------------------------------------------------
\* What a step of one worker must leave alone for the others: their sessions,
\* the rows and the statuses they have locked.
Apart(w) ==
    \A v \in Worker \ {w} :
      /\ tx'[v] = tx[v]
      /\ \A p \in Product : plock[p] = v => plock'[p] = v /\ row'[p] = row[p]
      /\ \A r \in Reservation : rlock'[r] = v => rlock[r] = v /\ status'[r] = status[r]

LEMMA Frame ==
    ASSUME LInv, IInv, NEW w \in Worker, Apart(w), Taken(w)', Held(w)'
    PROVE  LInv'
<1> SUFFICES ASSUME NEW v \in Worker, v # w
             PROVE  Taken(v)' /\ Held(v)'
  BY DEF LInv
<1>1. Taken(v)'
  <2>1. tx'[v] = tx[v] /\ Taken(v)
    BY DEF Apart, LInv
  <2>2. tx[v] \in Session
    BY DEF IInv, TxInv
  <2>3. tx[v].op = "confirm" => Lines(tx[v].res) \in SUBSET Product
    BY <2>2, SessionFields, LinesProducts
  <2>4. \A p \in Product : plock[p] = v => plock'[p] = v /\ row'[p] = row[p]
    BY DEF Apart
  <2> QED
    BY <2>1, <2>3, <2>4 DEF Taken
<1>2. Held(v)'
  <2>1. tx'[v] = tx[v] /\ Held(v)
    BY DEF Apart, LInv
  <2>2. \A r \in Reservation : rlock'[r] = v => rlock[r] = v /\ status'[r] = status[r]
    BY DEF Apart
  <2> QED
    BY <2>1, <2>2 DEF Held
<1> QED
  BY <1>1, <1>2

\* A step that is neither of a confirmation nor the first or last of a request.
LEMMA QuietStep ==
    ASSUME LInv, IInv, NEW w \in Worker, NEW t, tx' = [tx EXCEPT ![w] = t],
           tx[w].pc \notin {"idle", "commit"}, t.pc # "idle",
           t.op = tx[w].op, t.op # "confirm", t.res = tx[w].res,
           rlock' = rlock, status' = status,
           \A v \in Worker \ {w} : \A p \in Product :
             plock[p] = v => plock'[p] = v /\ row'[p] = row[p]
    PROVE  LInv'
<1>1. tx'[w] = t /\ \A v \in Worker \ {w} : tx'[v] = tx[v]
  BY DEF IInv, TxInv
<1>2. Apart(w)
  BY <1>1 DEF Apart
<1>3. Taken(w)'
  BY <1>1 DEF Taken
<1>4. Held(w)'
  BY <1>1 DEF Held, LInv
<1> QED
  BY <1>2, <1>3, <1>4, Frame

\* The end of a transaction: the worker holds nothing and confirms nothing.
LEMMA EndStep ==
    ASSUME LInv, IInv, NEW w \in Worker, tx' = [tx EXCEPT ![w] = IdleTx],
           plock' = [p \in Product |-> IF plock[p] = w THEN NoWorker ELSE plock[p]],
           rlock' = [r \in Reservation |-> IF rlock[r] = w THEN NoWorker ELSE rlock[r]],
           \A p \in Product : plock[p] # w => row'[p] = row[p],
           \A r \in Reservation : rlock[r] # w => status'[r] = status[r]
    PROVE  LInv'
<1>1. tx'[w] = IdleTx /\ \A v \in Worker \ {w} : tx'[v] = tx[v]
  BY DEF IInv, TxInv
<1>2. Apart(w)
  BY <1>1, NoneAssumption DEF Apart
<1>3. Taken(w)'
  BY <1>1 DEF Taken, IdleTx
<1>4. Held(w)'
  BY NoneAssumption DEF Held
<1> QED
  BY <1>2, <1>3, <1>4, Frame

LEMMA RollbackEnds ==
    ASSUME LInv, IInv, NEW w \in Worker, Rollback(w)
    PROVE  LInv'
<1>1. \A p \in Product : plock[p] # w => row'[p] = row[p]
  BY DEF Rollback, IInv, RowsInv
<1>2. \A r \in Reservation : rlock[r] # w => status'[r] = status[r]
  BY DEF Rollback, IInv, LocksInv
<1> QED
  BY <1>1, <1>2, EndStep DEF Rollback

-----------------------------------------------------------------------------
\* A session that starts holds no reservation: it was idle.
LEMMA IdleHoldsNothing ==
    ASSUME LInv, NEW w \in Worker, tx[w].pc = "idle"
    PROVE  \A r \in Reservation : rlock[r] # w
BY DEF LInv, Held

LEMMA BeginConfirmTakes ==
    ASSUME LInv, IInv, NEW w \in Worker, NEW r \in Reservation, BeginConfirm(w, r)
    PROVE  LInv'
<1> DEFINE t == [pc |-> "next", op |-> "confirm", res |-> r, from |-> "draft",
                 todo |-> Lines(r), cur |-> NoProduct, base |-> Loaded(r), seen |-> Loaded(r)]
<1>1. tx'[w] = t /\ \A v \in Worker \ {w} : tx'[v] = tx[v]
  BY DEF IInv, TxInv, BeginConfirm
<1>2. Apart(w)
  BY <1>1 DEF Apart, BeginConfirm, db
<1>3. Taken(w)'
  BY <1>1 DEF Taken
<1>4. Held(w)'
  BY IdleHoldsNothing DEF Held, BeginConfirm, db
<1> QED
  BY <1>2, <1>3, <1>4, Frame

LEMMA BeginOtherTakes ==
    ASSUME LInv, IInv, NEW w \in Worker, NEW t, tx' = [tx EXCEPT ![w] = t],
           tx[w].pc = "idle", t.op # "confirm", UNCHANGED db
    PROVE  LInv'
<1>1. tx'[w] = t /\ \A v \in Worker \ {w} : tx'[v] = tx[v]
  BY DEF IInv, TxInv
<1>2. Apart(w)
  BY <1>1 DEF Apart, db
<1>3. Taken(w)'
  BY <1>1 DEF Taken
<1>4. Held(w)'
  BY IdleHoldsNothing DEF Held, db
<1> QED
  BY <1>2, <1>3, <1>4, Frame

LEMMA BeginCreateTakes ==
    ASSUME LInv, IInv, NEW w \in Worker, NEW r \in Reservation, BeginCreate(w, r)
    PROVE  LInv'
<1>1. /\ tx'[w] = [IdleTx EXCEPT !.pc = "next", !.op = "create", !.res = r, !.todo = Lines(r)]
      /\ \A v \in Worker \ {w} : tx'[v] = tx[v]
  BY DEF IInv, TxInv, BeginCreate
<1>2. /\ tx'[w].op = "create" /\ tx'[w].pc = "next" /\ tx'[w].res = r
  BY <1>1 DEF IdleTx
<1>3. Apart(w)
  BY <1>1 DEF Apart, BeginCreate, IInv, LocksInv
<1>4. Taken(w)'
  BY <1>2 DEF Taken
<1>5. Held(w)'
  BY <1>2, IdleHoldsNothing DEF Held, BeginCreate, IInv, LocksInv
<1> QED
  BY <1>3, <1>4, <1>5, Frame

-----------------------------------------------------------------------------
(* Steps of a confirmation.                                                *)

LEMMA CheckAvailabilityTakes ==
    ASSUME LInv, IInv, NEW w \in Worker, NEW p \in Product, CheckAvailability(w, p)
    PROVE  LInv'
<1> DEFINE t == [tx[w] EXCEPT !.pc = "flush", !.cur = p]
<1>1. /\ tx'[w] = t /\ \A v \in Worker \ {w} : tx'[v] = tx[v]
      /\ tx[w] \in Tx /\ tx[w].pc = "next" /\ tx[w].op = "confirm"
  BY SessionFields DEF IInv, TxInv, CheckAvailability
<1>2. /\ t.pc = "flush" /\ t.op = tx[w].op /\ t.res = tx[w].res /\ t.todo = tx[w].todo
      /\ t.base = tx[w].base /\ t.seen = tx[w].seen
  BY <1>1 DEF Tx
<1>3. Apart(w)
  BY <1>1 DEF Apart, CheckAvailability, db
<1>4. Taken(w)'
  BY <1>1, <1>2 DEF LInv, Taken, CheckAvailability, db
<1>5. Held(w)'
  BY <1>1 DEF LInv, Held, CheckAvailability, db
<1> QED
  BY <1>3, <1>4, <1>5, Frame

LEMMA ReserveStockTakes ==
    ASSUME LInv, IInv, NEW w \in Worker, ReserveStock(w)
    PROVE  LInv'
<1> DEFINE p == tx[w].cur
           q == Quantity[tx[w].res][p]
           taken == [tx[w].seen[p] EXCEPT !.avail = @ - q]
           new == Update(row[p], tx[w].base[p], taken)
           seen == [tx[w].seen EXCEPT ![p] = taken]
           next == IF tx[w].todo = {p} THEN "status" ELSE "next"
<1>1. /\ tx[w] \in Session
      /\ tx[w].pc = "flush" /\ tx[w].op = "confirm"
      /\ LockFree(w, p)
  BY DEF IInv, TxInv, ReserveStock
<1>2. CASE Rollback(w)
  BY <1>2, RollbackEnds
<1>3. CASE /\ row[p].active /\ CheckHolds(new) /\ WriteRow(w, p, new)
           /\ LineDone(w, "status", seen)
  <2> DEFINE t == [tx[w] EXCEPT !.todo = tx[w].todo \ {p}, !.seen = seen, !.pc = next]
  <2>1. tx' = [tx EXCEPT ![w] = t]
    BY <1>3 DEF LineDone
  <2>2. tx'[w] = t /\ \A v \in Worker \ {w} : tx'[v] = tx[v]
    BY <2>1 DEF IInv, TxInv
  <2> HIDE DEF seen, next
  <2>3. /\ t.pc = next /\ t.op = "confirm" /\ t.res = tx[w].res /\ t.todo = tx[w].todo \ {p}
        /\ t.base = tx[w].base /\ t.seen = seen
    BY <1>1, SessionFields DEF Tx
  <2>4. /\ p \in tx[w].todo /\ p \in Product /\ tx[w].res \in Reservation
        /\ tx[w].base[p] \in Kept /\ tx[w].seen[p] = tx[w].base[p] /\ row[p] \in Kept
        /\ p \in Lines(tx[w].res)
    BY <1>1, SessionFields, SoundKept DEF IInv, RowsInv, LInv, Taken
  <2>5. q \in Nat /\ q > 0
    BY <2>4, QuantityAssumption DEF Lines
  <2>6. /\ new.avail = tx[w].base[p].avail - q
        /\ new.active
    <3>1. /\ taken.avail = tx[w].base[p].avail - q
          /\ taken.active = tx[w].base[p].active
      BY <2>4 DEF Kept, Row
    <3>2. taken.avail # tx[w].base[p].avail
      BY <2>4, <2>5, <3>1, KeptFields
    <3> QED
      BY <1>3, <3>1, <3>2 DEF Update
  <2>7. /\ row' = [row EXCEPT ![p] = new] /\ plock' = [plock EXCEPT ![p] = w]
        /\ UNCHANGED <<status, rlock>>
    BY <1>3 DEF WriteRow
  <2>8. Apart(w)
    BY <1>1, <2>2, <2>4, <2>7, NoneAssumption DEF Apart, LockFree, IInv, RowsInv, LocksInv
  <2>9. Taken(w)'
    <3>1. Taken(w)
      BY DEF LInv
    <3>2. \A x \in tx[w].todo \ {p} : seen[x] = tx[w].seen[x]
      BY <1>1, SessionFields DEF seen
    <3>3. next \in {"status", "commit"} => tx[w].todo \ {p} = {}
      BY DEF next
    <3>4. row'[p] = new /\ plock'[p] = w
      BY <2>4, <2>7 DEF IInv, RowsInv, LocksInv
    <3>5. \A x \in Lines(tx[w].res) \ tx[w].todo :
            /\ plock'[x] = w
            /\ row'[x] = row[x]
      BY <1>1, <2>4, <2>7, <3>1, LinesProducts DEF Taken, IInv, RowsInv, LocksInv
    <3>6. \A x \in Lines(tx[w].res) \ (tx[w].todo \ {p}) :
            /\ plock'[x] = w
            /\ row'[x].avail = tx[w].base[x].avail - Quantity[tx[w].res][x]
            /\ row'[x].active
      BY <1>1, <2>6, <3>1, <3>4, <3>5 DEF Taken
    <3>7. \A x \in tx[w].todo \ {p} : seen[x] = tx[w].base[x]
      BY <1>1, <3>1, <3>2 DEF Taken
    <3>8. tx[w].todo \ {p} \subseteq Lines(tx[w].res)
      BY <1>1, <3>1 DEF Taken
    <3> QED
      BY <2>2, <2>3, <3>3, <3>6, <3>7, <3>8 DEF Taken
  <2>10. Held(w)'
    BY <1>1, <2>7 DEF LInv, Held
  <2> QED
    BY <2>8, <2>9, <2>10, Frame
<1> QED
  BY <1>2, <1>3 DEF ReserveStock

LEMMA FlushStatusTakes ==
    ASSUME LInv, IInv, NEW w \in Worker, FlushStatus(w)
    PROVE  LInv'
<1> DEFINE r == tx[w].res
           t == [tx[w] EXCEPT !.pc = "commit"]
<1>1. /\ tx[w] \in Session /\ tx[w].pc = "status"
      /\ tx[w].op \in {"confirm", "cancel"} /\ r \in Reservation
  BY SessionFields DEF IInv, TxInv, FlushStatus
<1>2. tx' = [tx EXCEPT ![w] = t]
  BY DEF FlushStatus
<1>3. tx'[w] = t /\ \A v \in Worker \ {w} : tx'[v] = tx[v]
  BY <1>2 DEF IInv, TxInv
<1>4. /\ t.pc = "commit" /\ t.op = tx[w].op /\ t.res = r /\ t.todo = tx[w].todo
      /\ t.base = tx[w].base /\ t.seen = tx[w].seen
  BY <1>1, SessionFields DEF Tx
<1>5. Apart(w)
  BY <1>1, <1>3 DEF Apart, FlushStatus, IInv, LocksInv
<1>6. Taken(w)'
  BY <1>1, <1>3, <1>4 DEF LInv, Taken, FlushStatus
<1>7. \A x \in Reservation : rlock[x] # w
  BY <1>1 DEF LInv, Held
<1>8. Held(w)'
  BY <1>1, <1>3, <1>4, <1>7 DEF Held, FlushStatus, IInv, LocksInv
<1> QED
  BY <1>5, <1>6, <1>8, Frame

-----------------------------------------------------------------------------
(* The other steps.                                                        *)

LEMMA LineDoneQuiet ==
    ASSUME LInv, IInv, NEW w \in Worker, NEW last \in {"status", "commit"}, NEW seen,
           LineDone(w, last, seen), tx[w].pc = "flush", tx[w].op # "confirm",
           rlock' = rlock, status' = status,
           \A v \in Worker \ {w} : \A p \in Product :
             plock[p] = v => plock'[p] = v /\ row'[p] = row[p]
    PROVE  LInv'
<1> DEFINE next == IF tx[w].todo = {tx[w].cur} THEN last ELSE "next"
           t == [tx[w] EXCEPT !.todo = tx[w].todo \ {tx[w].cur}, !.seen = seen, !.pc = next]
<1>1. tx' = [tx EXCEPT ![w] = t]
  BY DEF LineDone
<1>2. next \in {"status", "commit", "next"}
  OBVIOUS
<1> HIDE DEF next
<1>3. tx[w] \in Tx
  BY SessionFields DEF IInv, TxInv
<1>4. t.pc = next /\ t.op = tx[w].op /\ t.res = tx[w].res
  BY <1>3 DEF Tx
<1> QED
  BY <1>1, <1>2, <1>4, QuietStep

\* The write of w leaves the rows the others have locked alone.
LEMMA WriteRowApart ==
    ASSUME IInv, NEW w \in Worker, NEW p \in Product, NEW new,
           LockFree(w, p), WriteRow(w, p, new)
    PROVE  \A v \in Worker \ {w} : \A x \in Product :
             plock[x] = v => plock'[x] = v /\ row'[x] = row[x]
BY NoneAssumption DEF LockFree, WriteRow, IInv, RowsInv, LocksInv

LEMMA ReleaseStockTakes ==
    ASSUME LInv, IInv, NEW w \in Worker, ReleaseStock(w)
    PROVE  LInv'
<1>1. /\ tx[w].pc = "flush" /\ tx[w].op = "cancel" /\ tx[w].cur \in Product
      /\ LockFree(w, tx[w].cur)
  BY SessionFields DEF IInv, TxInv, ReleaseStock
<1>2. CASE Rollback(w)
  BY <1>2, RollbackEnds
<1>3. ASSUME NEW new, NEW seen, WriteRow(w, tx[w].cur, new), LineDone(w, "status", seen)
      PROVE  LInv'
  <2>1. \A v \in Worker \ {w} : \A x \in Product :
          plock[x] = v => plock'[x] = v /\ row'[x] = row[x]
    BY <1>1, <1>3, WriteRowApart
  <2> QED
    BY <1>1, <1>3, <2>1, LineDoneQuiet DEF WriteRow
<1> QED
  BY <1>2, <1>3 DEF ReleaseStock

LEMMA FlushProductTakes ==
    ASSUME LInv, IInv, NEW w \in Worker, FlushProduct(w)
    PROVE  LInv'
<1>1. /\ tx[w].pc = "flush" /\ tx[w].op # "confirm" /\ tx[w].cur \in Product
      /\ LineDone(w, "commit", tx[w].seen)
  BY SessionFields DEF IInv, TxInv, FlushProduct
<1>2. /\ rlock' = rlock /\ status' = status
      /\ \A v \in Worker \ {w} : \A x \in Product :
           plock[x] = v => plock'[x] = v /\ row'[x] = row[x]
  <2>1. CASE Dirty(w)
    BY <1>1, <2>1, WriteRowApart DEF FlushProduct, WriteRow
  <2>2. CASE ~Dirty(w)
    BY <2>2 DEF FlushProduct, db
  <2> QED
    BY <2>1, <2>2
<1> QED
  BY <1>1, <1>2, LineDoneQuiet

LEMMA NextReleasedLineTakes ==
    ASSUME LInv, IInv, NEW w \in Worker, NEW p \in Product, NextReleasedLine(w, p)
    PROVE  LInv'
<1> DEFINE t == [tx[w] EXCEPT !.pc = "flush", !.cur = p]
<1>1. tx[w] \in Tx /\ tx[w].pc = "next" /\ tx[w].op = "cancel"
  BY SessionFields DEF IInv, TxInv, NextReleasedLine
<1>2. t.pc = "flush" /\ t.op = tx[w].op /\ t.res = tx[w].res
  BY <1>1 DEF Tx
<1> QED
  BY <1>1, <1>2, QuietStep DEF NextReleasedLine, db

LEMMA GetByIdHitTakes ==
    ASSUME LInv, IInv, NEW w \in Worker, NEW p \in Product, GetByIdHit(w, p)
    PROVE  LInv'
<1>1. PICK after \in Modified(tx[w].op, cache[p]) :
        tx' = [tx EXCEPT ![w] = [tx[w] EXCEPT !.pc = "flush", !.cur = p,
                                              !.base = [tx[w].base EXCEPT ![p] = stable[p]],
                                              !.seen = [tx[w].seen EXCEPT ![p] = after]]]
  BY DEF GetByIdHit
<1> DEFINE base == [tx[w].base EXCEPT ![p] = stable[p]]
           seen == [tx[w].seen EXCEPT ![p] = after]
           t == [tx[w] EXCEPT !.pc = "flush", !.cur = p, !.base = base, !.seen = seen]
<1>2. tx' = [tx EXCEPT ![w] = t]
  BY <1>1
<1> HIDE DEF base, seen
<1>3. tx[w] \in Tx /\ tx[w].pc = "next" /\ tx[w].op # "confirm"
  BY SessionFields DEF IInv, TxInv, GetByIdHit, GetOps
<1>4. t.pc = "flush" /\ t.op = tx[w].op /\ t.res = tx[w].res
  BY <1>3 DEF Tx
<1> QED
  BY <1>2, <1>3, <1>4, QuietStep DEF GetByIdHit, db

LEMMA GetByIdSelectTakes ==
    ASSUME LInv, IInv, NEW w \in Worker, NEW p \in Product, GetByIdSelect(w, p)
    PROVE  LInv'
<1> DEFINE base == [tx[w].base EXCEPT ![p] = stable[p]]
           t == [tx[w] EXCEPT !.pc = "fill", !.cur = p, !.base = base]
<1>1. tx' = [tx EXCEPT ![w] = t]
  BY DEF GetByIdSelect
<1> HIDE DEF base
<1>2. tx[w] \in Tx /\ tx[w].pc = "next" /\ tx[w].op # "confirm"
  BY SessionFields DEF IInv, TxInv, GetByIdSelect, GetOps
<1>3. t.pc = "fill" /\ t.op = tx[w].op /\ t.res = tx[w].res
  BY <1>2 DEF Tx
<1> QED
  BY <1>1, <1>2, <1>3, QuietStep DEF GetByIdSelect, db

LEMMA FillCacheTakes ==
    ASSUME LInv, IInv, NEW w \in Worker, FillCache(w)
    PROVE  LInv'
<1>1. PICK after \in Modified(tx[w].op, tx[w].base[tx[w].cur]) :
        tx' = [tx EXCEPT ![w] = [tx[w] EXCEPT !.pc = "flush",
                                  !.seen = [tx[w].seen EXCEPT ![tx[w].cur] = after]]]
  BY DEF FillCache
<1> DEFINE seen == [tx[w].seen EXCEPT ![tx[w].cur] = after]
           t == [tx[w] EXCEPT !.pc = "flush", !.seen = seen]
<1>2. tx' = [tx EXCEPT ![w] = t]
  BY <1>1
<1> HIDE DEF seen
<1>3. tx[w] \in Tx /\ tx[w].pc = "fill" /\ tx[w].op # "confirm"
  BY SessionFields DEF IInv, TxInv, FillCache
<1>4. t.pc = "flush" /\ t.op = tx[w].op /\ t.res = tx[w].res
  BY <1>3 DEF Tx
<1> QED
  BY <1>2, <1>3, <1>4, QuietStep DEF FillCache, db

LEMMA CommitEnds ==
    ASSUME LInv, IInv, NEW w \in Worker, Commit(w)
    PROVE  LInv'
BY EndStep DEF Commit

LEMMA WorkerStepTakes ==
    ASSUME LInv, IInv, NEW w \in Worker, WorkerStep(w)
    PROVE  LInv'
<1>1. ASSUME NEW p \in Product,
             \/ CheckAvailability(w, p) \/ RefuseLine(w, p) \/ NextReleasedLine(w, p)
             \/ GetByIdHit(w, p) \/ GetByIdSelect(w, p) \/ GetByIdMissing(w, p)
      PROVE  LInv'
  <2>1. CASE RefuseLine(w, p) \/ GetByIdMissing(w, p)
    BY <2>1, RollbackEnds DEF RefuseLine, GetByIdMissing
  <2> QED
    BY <1>1, <2>1, CheckAvailabilityTakes, NextReleasedLineTakes, GetByIdHitTakes,
       GetByIdSelectTakes
<1>2. CASE ReserveStock(w) \/ ReleaseStock(w) \/ FlushStatus(w)
  BY <1>2, ReserveStockTakes, ReleaseStockTakes, FlushStatusTakes
<1>3. CASE FillCache(w) \/ FlushProduct(w)
  BY <1>3, FillCacheTakes, FlushProductTakes
<1>4. CASE RefuseProduct(w) \/ RespondRead(w)
  BY <1>4, RollbackEnds DEF RefuseProduct, RespondRead
<1>5. CASE Commit(w)
  BY <1>5, CommitEnds
<1> QED
  BY <1>1, <1>2, <1>3, <1>4, <1>5, Zenon DEF WorkerStep

LEMMA RequestTakes ==
    ASSUME LInv, IInv, NEW w \in Worker, Request(w)
    PROVE  LInv'
<1>1. ASSUME NEW r \in Reservation, BeginCancel(w, r)
      PROVE  LInv'
  <2> DEFINE held == IF stableStatus[r] = "confirmed" THEN Lines(r) ELSE {}
             t == [pc |-> IF held = {} THEN "status" ELSE "next", op |-> "cancel",
                   res |-> r, from |-> stableStatus[r], todo |-> held, cur |-> NoProduct,
                   base |-> Loaded(r), seen |-> Loaded(r)]
  <2>1. tx' = [tx EXCEPT ![w] = t] /\ t.op # "confirm"
    BY <1>1 DEF BeginCancel
  <2> QED
    BY <1>1, <2>1, BeginOtherTakes DEF BeginCancel, db
<1>2. ASSUME NEW p \in Product, NEW op \in {"patch", "delete", "read"},
             BeginProductRequest(w, p, op)
      PROVE  LInv'
  <2> DEFINE t == [IdleTx EXCEPT !.pc = "next", !.op = op, !.todo = {p}]
  <2>1. tx' = [tx EXCEPT ![w] = t] /\ t.op # "confirm"
    BY <1>2 DEF BeginProductRequest, IdleTx
  <2> QED
    BY <1>2, <2>1, BeginOtherTakes DEF BeginProductRequest, db
<1> QED
  BY <1>1, <1>2, BeginConfirmTakes, BeginCreateTakes DEF Request

\* A step that touches neither a session nor the database.
LEMMA IdleStepTakes == LInv /\ UNCHANGED <<db, tx>> => LInv'
BY DEF LInv, Taken, Held, db

-----------------------------------------------------------------------------
(* The invariant and the theorem.                                          *)

LEMMA InitLInv == Init => LInv
BY NoneAssumption DEF Init, LInv, Taken, Held, IdleTx

LEMMA NextLInv == LInv /\ IInv /\ [Next]_vars => LInv'
<1> SUFFICES ASSUME LInv, IInv, [Next]_vars PROVE LInv'
  OBVIOUS
<1>1. ASSUME NEW w \in Worker, DeadlockVictim(w) \/ Crash(w)
      PROVE  LInv'
  BY <1>1, RollbackEnds DEF DeadlockVictim, Crash
<1>2. ASSUME NEW p \in Product, Evict(p) \/ RefusedHardDelete(p)
      PROVE  LInv'
  BY <1>2, IdleStepTakes DEF Evict, RefusedHardDelete
<1>3. CASE UNCHANGED vars
  BY <1>3, IdleStepTakes DEF vars, db
<1> QED
  BY <1>1, <1>2, <1>3, RequestTakes, WorkerStepTakes DEF Next

\* What ConfirmTakesEveryLine says of one step.
ConfirmStep ==
    \A r \in Reservation :
      stableStatus'[r] = "confirmed" /\ stableStatus[r] # "confirmed" =>
        \E w \in Worker :
          /\ tx[w].op = "confirm" /\ tx[w].res = r
          /\ \A p \in Lines(r) :
               /\ stable'[p].avail = tx[w].base[p].avail - Quantity[r][p]
               /\ stable'[p].active

\* Only a commit changes a committed status, and it finds every line taken.
LEMMA CommitConfirms ==
    ASSUME LInv, IInv, NEW w \in Worker, Commit(w)
    PROVE  ConfirmStep
<1> SUFFICES ASSUME NEW r \in Reservation,
                    stableStatus'[r] = "confirmed", stableStatus[r] # "confirmed"
             PROVE  /\ tx[w].op = "confirm" /\ tx[w].res = r
                    /\ \A p \in Lines(r) :
                         /\ stable'[p].avail = tx[w].base[p].avail - Quantity[r][p]
                         /\ stable'[p].active
  BY DEF ConfirmStep
<1>1. rlock[r] = w /\ status[r] = "confirmed"
  BY DEF Commit
<1>2. tx[w].res = r /\ tx[w].op = "confirm" /\ tx[w].pc = "commit"
  BY <1>1 DEF LInv, Held, NewStatus
<1>3. \A p \in Lines(r) : /\ plock[p] = w
                          /\ row[p].avail = tx[w].base[p].avail - Quantity[r][p]
                          /\ row[p].active
  BY <1>2 DEF LInv, Taken
<1>4. \A p \in Lines(r) : stable'[p] = row[p]
  BY <1>3, LinesProducts DEF Commit
<1> QED
  BY <1>2, <1>3, <1>4

LEMMA StepConfirms == LInv /\ IInv /\ [Next]_vars => ConfirmStep \/ UNCHANGED vars
<1> SUFFICES ASSUME LInv, IInv, Next PROVE ConfirmStep
  BY DEF vars
<1>1. ASSUME UNCHANGED stableStatus PROVE ConfirmStep
  BY <1>1 DEF ConfirmStep
<1>2. ASSUME NEW w \in Worker, Rollback(w) PROVE ConfirmStep
  BY <1>1, <1>2 DEF Rollback
<1>3. ASSUME NEW w \in Worker, WorkerStep(w) PROVE ConfirmStep
  <2>1. ASSUME NEW p \in Product,
               \/ CheckAvailability(w, p) \/ RefuseLine(w, p) \/ NextReleasedLine(w, p)
               \/ GetByIdHit(w, p) \/ GetByIdSelect(w, p) \/ GetByIdMissing(w, p)
        PROVE  ConfirmStep
    BY <1>1, <1>2, <2>1 DEF CheckAvailability, RefuseLine, NextReleasedLine, GetByIdHit,
       GetByIdSelect, GetByIdMissing, db
  <2>2. CASE ReserveStock(w) \/ ReleaseStock(w) \/ FlushStatus(w)
    BY <1>1, <1>2, <2>2 DEF ReserveStock, ReleaseStock, FlushStatus, WriteRow
  <2>3. CASE FillCache(w) \/ FlushProduct(w)
    BY <1>1, <2>3 DEF FillCache, FlushProduct, WriteRow, db
  <2>4. CASE RefuseProduct(w) \/ RespondRead(w)
    BY <1>2, <2>4 DEF RefuseProduct, RespondRead
  <2>5. CASE Commit(w)
    BY <2>5, CommitConfirms
  <2> QED
    BY <1>3, <2>1, <2>2, <2>3, <2>4, <2>5, Zenon DEF WorkerStep
<1>4. ASSUME NEW w \in Worker, Request(w) PROVE ConfirmStep
  BY <1>1, <1>4 DEF Request, BeginConfirm, BeginCancel, BeginCreate, BeginProductRequest, db
<1>5. ASSUME NEW w \in Worker, DeadlockVictim(w) \/ Crash(w) PROVE ConfirmStep
  BY <1>2, <1>5 DEF DeadlockVictim, Crash
<1>6. ASSUME NEW p \in Product, Evict(p) \/ RefusedHardDelete(p) PROVE ConfirmStep
  BY <1>1, <1>6 DEF Evict, RefusedHardDelete, db
<1> QED
  BY <1>3, <1>4, <1>5, <1>6 DEF Next

\* A reservation becomes confirmed only in a commit that takes every one of its
\* lines from what its request had loaded, however the workers interleave.
THEOREM ConfirmationIsAtomic == Spec => ConfirmTakesEveryLine
<1>1. LInv /\ IInv /\ [Next]_vars => LInv' /\ IInv'
  BY NextLInv, NextIInv
<1>2. Init => LInv /\ IInv
  BY InitLInv, InitIInv
<1>3. Spec => [](LInv /\ IInv)
  BY <1>1, <1>2, PTL DEF Spec
<1>4. Spec => [][ConfirmStep]_vars
  BY <1>3, StepConfirms, PTL DEF Spec
<1> QED
  BY <1>4 DEF ConfirmTakesEveryLine, ConfirmStep

-----------------------------------------------------------------------------
(* What the cache may hold.                                                *)

\* The versions a step adds to the past.
Grows ==
    /\ \A p \in Product : past[p] \subseteq past'[p]
    /\ \A p \in Product : stable'[p] \in past'[p]

\* What w loaded, and may yet send to the cache, was committed.
LoadedKnown(w) ==
    /\ tx[w].op = "confirm" =>
         \A p \in Lines(tx[w].res) : tx[w].base[p] \in past[p]
    /\ tx[w].pc = "fill" => tx[w].base[tx[w].cur] \in past[tx[w].cur]

PInv ==
    /\ \A p \in Product : stable[p] \in past[p]
    /\ CacheHoldsCommittedRows
    /\ \A w \in Worker : LoadedKnown(w)

AllInv == IInv /\ LInv /\ PInv

LEMMA CacheStays ==
    ASSUME PInv, Grows, UNCHANGED cache
    PROVE  CacheHoldsCommittedRows'
BY DEF PInv, Grows, CacheHoldsCommittedRows

\* A command sent to Redis with a committed row, or to delete the entry.
LEMMA CacheCommand ==
    ASSUME PInv, IInv, Grows, NEW p \in Product, NEW entry,
           entry = NoEntry \/ entry \in past[p], cache' \in CacheAfter(p, entry)
    PROVE  CacheHoldsCommittedRows'
<1>1. cache' = cache \/ cache' = [cache EXCEPT ![p] = entry]
  BY DEF CacheAfter
<1> QED
  BY <1>1 DEF PInv, Grows, CacheHoldsCommittedRows, IInv, CacheInv

LEMMA SessionKnows ==
    ASSUME PInv, IInv, Grows, NEW w \in Worker, NEW t, tx' = [tx EXCEPT ![w] = t],
           t.op = "confirm" =>
             t.res \in Reservation /\ \A p \in Lines(t.res) : t.base[p] \in past[p],
           t.pc = "fill" => t.cur \in Product /\ t.base[t.cur] \in past[t.cur]
    PROVE  \A v \in Worker : LoadedKnown(v)'
<1>1. tx'[w] = t /\ \A v \in Worker \ {w} : tx'[v] = tx[v]
  BY DEF IInv, TxInv
<1>2. LoadedKnown(w)'
  BY <1>1, LinesProducts DEF LoadedKnown, Grows
<1>3. ASSUME NEW v \in Worker \ {w} PROVE LoadedKnown(v)'
  <2>1. tx[v] \in Session /\ tx'[v] = tx[v] /\ LoadedKnown(v)
    BY <1>1 DEF IInv, TxInv, PInv
  <2>2. tx[v].op = "confirm" => Lines(tx[v].res) \in SUBSET Product
    BY <2>1, SessionFields, LinesProducts
  <2>3. tx[v].pc = "fill" => tx[v].cur \in Product
    BY <2>1, SessionFields
  <2> QED
    BY <2>1, <2>2, <2>3 DEF LoadedKnown, Grows
<1> QED
  BY <1>2, <1>3

\* A session that goes on with what it has loaded.
LEMMA SessionKeeps ==
    ASSUME PInv, IInv, Grows, NEW w \in Worker, NEW t, tx' = [tx EXCEPT ![w] = t],
           t.op = tx[w].op, t.res = tx[w].res, t.base = tx[w].base, t.pc # "fill"
    PROVE  \A v \in Worker : LoadedKnown(v)'
<1>1. tx[w] \in Session /\ LoadedKnown(w)
  BY DEF IInv, TxInv, PInv
<1> QED
  BY <1>1, SessionFields, SessionKnows DEF LoadedKnown

LEMMA RollbackKnows ==
    ASSUME PInv, IInv, Grows, NEW w \in Worker, Rollback(w)
    PROVE  \A v \in Worker : LoadedKnown(v)'
BY SessionKnows DEF Rollback, IdleTx

\* A cache fill of a confirmation: what it is about to check is as it was loaded.
LEMMA TodoKnown ==
    ASSUME AllInv, NEW w \in Worker, NEW p \in tx[w].todo, tx[w].op = "confirm"
    PROVE  tx[w].seen[p] \in past[p]
<1>1. Taken(w) /\ LoadedKnown(w)
  BY DEF AllInv, LInv, PInv
<1> QED
  BY <1>1 DEF Taken, LoadedKnown

LEMMA LineDoneKnows ==
    ASSUME PInv, IInv, Grows, NEW w \in Worker, NEW last \in {"status", "commit"},
           NEW seen, LineDone(w, last, seen)
    PROVE  \A v \in Worker : LoadedKnown(v)'
<1> DEFINE next == IF tx[w].todo = {tx[w].cur} THEN last ELSE "next"
           t == [tx[w] EXCEPT !.todo = tx[w].todo \ {tx[w].cur}, !.seen = seen, !.pc = next]
<1>1. tx' = [tx EXCEPT ![w] = t]
  BY DEF LineDone
<1>2. next # "fill"
  OBVIOUS
<1> HIDE DEF next
<1>3. tx[w] \in Tx
  BY SessionFields DEF IInv, TxInv
<1>4. t.pc = next /\ t.op = tx[w].op /\ t.res = tx[w].res /\ t.base = tx[w].base
  BY <1>3 DEF Tx
<1> QED
  BY <1>1, <1>2, <1>4, SessionKeeps

\* The lines of a reservation that was just loaded.
LEMMA LoadedCommitted ==
    ASSUME PInv, NEW r \in Reservation
    PROVE  \A p \in Lines(r) : Loaded(r)[p] \in past[p]
BY LinesProducts DEF Loaded, PInv

LEMMA RequestKnows ==
    ASSUME PInv, IInv, Grows, NEW w \in Worker, Request(w)
    PROVE  PInv'
<1>1. CacheHoldsCommittedRows'
  BY CacheStays DEF Request, BeginConfirm, BeginCancel, BeginCreate, BeginProductRequest
<1>2. \A v \in Worker : LoadedKnown(v)'
  <2>1. ASSUME NEW r \in Reservation, BeginConfirm(w, r)
        PROVE  \A v \in Worker : LoadedKnown(v)'
    <3> DEFINE t == [pc |-> "next", op |-> "confirm", res |-> r, from |-> "draft",
                     todo |-> Lines(r), cur |-> NoProduct, base |-> Loaded(r),
                     seen |-> Loaded(r)]
    <3>1. tx' = [tx EXCEPT ![w] = t]
      BY <2>1 DEF BeginConfirm
    <3> QED
      BY <3>1, LoadedCommitted, SessionKnows
  <2>2. ASSUME NEW r \in Reservation, BeginCancel(w, r)
        PROVE  \A v \in Worker : LoadedKnown(v)'
    <3> DEFINE held == IF stableStatus[r] = "confirmed" THEN Lines(r) ELSE {}
               t == [pc |-> IF held = {} THEN "status" ELSE "next", op |-> "cancel",
                     res |-> r, from |-> stableStatus[r], todo |-> held, cur |-> NoProduct,
                     base |-> Loaded(r), seen |-> Loaded(r)]
    <3>1. tx' = [tx EXCEPT ![w] = t] /\ t.op # "confirm" /\ t.pc # "fill"
      BY <2>2 DEF BeginCancel
    <3> QED
      BY <3>1, SessionKnows
  <2>3. ASSUME NEW r \in Reservation, BeginCreate(w, r)
        PROVE  \A v \in Worker : LoadedKnown(v)'
    <3> DEFINE t == [IdleTx EXCEPT !.pc = "next", !.op = "create", !.res = r,
                                   !.todo = Lines(r)]
    <3>1. tx' = [tx EXCEPT ![w] = t] /\ t.op # "confirm" /\ t.pc # "fill"
      BY <2>3 DEF BeginCreate, IdleTx
    <3> QED
      BY <3>1, SessionKnows
  <2>4. ASSUME NEW p \in Product, NEW op \in {"patch", "delete", "read"},
               BeginProductRequest(w, p, op)
        PROVE  \A v \in Worker : LoadedKnown(v)'
    <3> DEFINE t == [IdleTx EXCEPT !.pc = "next", !.op = op, !.todo = {p}]
    <3>1. tx' = [tx EXCEPT ![w] = t] /\ t.op # "confirm" /\ t.pc # "fill"
      BY <2>4 DEF BeginProductRequest, IdleTx
    <3> QED
      BY <3>1, SessionKnows
  <2> QED
    BY <2>1, <2>2, <2>3, <2>4 DEF Request
<1> QED
  BY <1>1, <1>2 DEF PInv, Grows

\* The steps that ask the cache or fill it.
LEMMA LookupKnows ==
    ASSUME AllInv, Grows, NEW w \in Worker, NEW p \in Product,
           \/ CheckAvailability(w, p) \/ RefuseLine(w, p) \/ NextReleasedLine(w, p)
           \/ GetByIdHit(w, p) \/ GetByIdSelect(w, p) \/ GetByIdMissing(w, p)
    PROVE  PInv'
<1>0. PInv /\ IInv /\ tx[w] \in Tx /\ LoadedKnown(w)
  BY SessionFields DEF AllInv, IInv, TxInv, PInv
<1>1. CacheHoldsCommittedRows'
  <2>1. CASE UNCHANGED cache
    BY <1>0, <2>1, CacheStays
  <2>2. CASE ~UNCHANGED cache
    <3>1. /\ tx[w].op = "confirm" /\ p \in tx[w].todo
          /\ cache' \in CacheAfter(p, tx[w].seen[p])
      BY <2>2 DEF CheckAvailability, RefuseLine, NextReleasedLine, GetByIdHit,
         GetByIdSelect, GetByIdMissing
    <3>2. tx[w].seen[p] \in past[p]
      BY <3>1, TodoKnown
    <3> QED
      BY <1>0, <3>1, <3>2, CacheCommand
  <2> QED
    BY <2>1, <2>2
<1>2. \A v \in Worker : LoadedKnown(v)'
  <2>1. CASE RefuseLine(w, p) \/ GetByIdMissing(w, p)
    BY <1>0, <2>1, RollbackKnows DEF RefuseLine, GetByIdMissing
  <2>2. CASE CheckAvailability(w, p) \/ NextReleasedLine(w, p)
    <3> DEFINE t == [tx[w] EXCEPT !.pc = "flush", !.cur = p]
    <3>1. tx' = [tx EXCEPT ![w] = t]
      BY <2>2 DEF CheckAvailability, NextReleasedLine
    <3>2. /\ t.pc = "flush" /\ t.op = tx[w].op /\ t.res = tx[w].res
          /\ t.base = tx[w].base
      BY <1>0 DEF Tx
    <3> QED
      BY <1>0, <3>1, <3>2, SessionKeeps
  <2>3. CASE GetByIdHit(w, p)
    <3>1. PICK after \in Modified(tx[w].op, cache[p]) :
            tx' = [tx EXCEPT ![w] = [tx[w] EXCEPT !.pc = "flush", !.cur = p,
                                              !.base = [tx[w].base EXCEPT ![p] = stable[p]],
                                              !.seen = [tx[w].seen EXCEPT ![p] = after]]]
      BY <2>3 DEF GetByIdHit
    <3> DEFINE base == [tx[w].base EXCEPT ![p] = stable[p]]
               seen == [tx[w].seen EXCEPT ![p] = after]
               t == [tx[w] EXCEPT !.pc = "flush", !.cur = p, !.base = base, !.seen = seen]
    <3>2. tx' = [tx EXCEPT ![w] = t]
      BY <3>1
    <3> HIDE DEF base, seen
    <3>3. tx[w].op # "confirm"
      BY <2>3 DEF GetByIdHit, GetOps
    <3>4. t.pc = "flush" /\ t.op = tx[w].op
      BY <1>0 DEF Tx
    <3> QED
      BY <1>0, <3>2, <3>3, <3>4, SessionKnows
  <2>4. CASE GetByIdSelect(w, p)
    <3> DEFINE base == [tx[w].base EXCEPT ![p] = stable[p]]
               t == [tx[w] EXCEPT !.pc = "fill", !.cur = p, !.base = base]
    <3>1. tx' = [tx EXCEPT ![w] = t]
      BY <2>4 DEF GetByIdSelect
    <3>2. base[p] \in past[p]
      BY <1>0 DEF Tx, PInv
    <3> HIDE DEF base
    <3>3. tx[w].op # "confirm"
      BY <2>4 DEF GetByIdSelect, GetOps
    <3>4. t.pc = "fill" /\ t.op = tx[w].op /\ t.cur = p /\ t.base = base
      BY <1>0 DEF Tx
    <3> QED
      BY <1>0, <3>1, <3>2, <3>3, <3>4, SessionKnows
  <2> QED
    BY <2>1, <2>2, <2>3, <2>4
<1> QED
  BY <1>1, <1>2 DEF PInv, Grows

LEMMA FillKnows ==
    ASSUME AllInv, Grows, NEW w \in Worker, FillCache(w)
    PROVE  PInv'
<1>0. /\ PInv /\ IInv /\ tx[w] \in Tx /\ LoadedKnown(w)
      /\ tx[w].pc = "fill" /\ tx[w].cur \in Product /\ tx[w].op # "confirm"
  BY SessionFields DEF AllInv, IInv, TxInv, PInv, FillCache
<1>1. CacheHoldsCommittedRows'
  <2>1. tx[w].base[tx[w].cur] \in past[tx[w].cur]
    BY <1>0 DEF LoadedKnown
  <2> QED
    BY <1>0, <2>1, CacheCommand DEF FillCache
<1>2. PICK after \in Modified(tx[w].op, tx[w].base[tx[w].cur]) :
        tx' = [tx EXCEPT ![w] = [tx[w] EXCEPT !.pc = "flush",
                                  !.seen = [tx[w].seen EXCEPT ![tx[w].cur] = after]]]
  BY DEF FillCache
<1> DEFINE seen == [tx[w].seen EXCEPT ![tx[w].cur] = after]
           t == [tx[w] EXCEPT !.pc = "flush", !.seen = seen]
<1>3. tx' = [tx EXCEPT ![w] = t]
  BY <1>2
<1> HIDE DEF seen
<1>4. t.pc = "flush" /\ t.op = tx[w].op
  BY <1>0 DEF Tx
<1>5. \A v \in Worker : LoadedKnown(v)'
  BY <1>0, <1>3, <1>4, SessionKnows
<1> QED
  BY <1>1, <1>5 DEF PInv, Grows

LEMMA FlushKnows ==
    ASSUME PInv, IInv, Grows, NEW w \in Worker,
           \/ ReserveStock(w) \/ ReleaseStock(w) \/ FlushStatus(w) \/ FlushProduct(w)
           \/ RefuseProduct(w) \/ RespondRead(w) \/ Commit(w)
    PROVE  PInv'
<1>0. tx[w] \in Session /\ tx[w] \in Tx
  BY SessionFields DEF IInv, TxInv
<1>1. CacheHoldsCommittedRows'
  <2>1. CASE UNCHANGED cache
    BY <2>1, CacheStays
  <2>2. CASE ~UNCHANGED cache
    <3>1. tx[w].cur \in Product /\ cache' \in CacheAfter(tx[w].cur, NoEntry)
      BY <1>0, <2>2, SessionFields DEF ReserveStock, ReleaseStock, FlushStatus,
         FlushProduct, RefuseProduct, RespondRead, Commit
    <3> QED
      BY <3>1, CacheCommand
  <2> QED
    BY <2>1, <2>2
<1>2. \A v \in Worker : LoadedKnown(v)'
  <2>1. CASE Rollback(w)
    BY <2>1, RollbackKnows
  <2>2. CASE Commit(w)
    BY <2>2, SessionKnows DEF Commit, IdleTx
  <2>3. CASE FlushStatus(w)
    <3> DEFINE t == [tx[w] EXCEPT !.pc = "commit"]
    <3>1. tx' = [tx EXCEPT ![w] = t]
      BY <2>3 DEF FlushStatus
    <3>2. /\ t.pc = "commit" /\ t.op = tx[w].op /\ t.res = tx[w].res
          /\ t.base = tx[w].base
      BY <1>0 DEF Tx
    <3> QED
      BY <3>1, <3>2, SessionKeeps
  <2>4. ASSUME NEW last \in {"status", "commit"}, NEW seen, LineDone(w, last, seen)
        PROVE  \A v \in Worker : LoadedKnown(v)'
    BY <2>4, LineDoneKnows
  <2> QED
    BY <2>1, <2>2, <2>3, <2>4 DEF ReserveStock, ReleaseStock, FlushProduct, RefuseProduct,
       RespondRead
<1> QED
  BY <1>1, <1>2 DEF PInv, Grows

\* A step that leaves the sessions alone.
LEMMA TxStays ==
    ASSUME PInv, IInv, Grows, UNCHANGED tx, CacheHoldsCommittedRows'
    PROVE  PInv'
<1>1. ASSUME NEW v \in Worker PROVE LoadedKnown(v)'
  <2>1. tx[v] \in Session /\ LoadedKnown(v)
    BY DEF IInv, TxInv, PInv
  <2>2. tx[v].op = "confirm" => Lines(tx[v].res) \in SUBSET Product
    BY <2>1, SessionFields, LinesProducts
  <2>3. tx[v].pc = "fill" => tx[v].cur \in Product
    BY <2>1, SessionFields
  <2> QED
    BY <2>1, <2>2, <2>3 DEF LoadedKnown, Grows
<1> QED
  BY <1>1 DEF PInv, Grows

LEMMA NextKnows == AllInv /\ Grows /\ Next => PInv'
<1> SUFFICES ASSUME AllInv, Grows, Next PROVE PInv'
  OBVIOUS
<1>0. PInv /\ IInv
  BY DEF AllInv
<1>1. ASSUME NEW w \in Worker, WorkerStep(w) PROVE PInv'
  BY <1>0, <1>1, LookupKnows, FillKnows, FlushKnows, Zenon DEF WorkerStep
<1>2. ASSUME NEW w \in Worker, DeadlockVictim(w) \/ Crash(w) PROVE PInv'
  BY <1>0, <1>2, RollbackKnows, CacheStays DEF DeadlockVictim, Crash, PInv, Grows
<1>3. ASSUME NEW p \in Product, Evict(p) PROVE PInv'
  <2>1. CacheHoldsCommittedRows'
    BY <1>0, <1>3 DEF Evict, PInv, Grows, CacheHoldsCommittedRows, IInv, CacheInv
  <2> QED
    BY <1>0, <1>3, <2>1, TxStays DEF Evict
<1>4. ASSUME NEW p \in Product, RefusedHardDelete(p) PROVE PInv'
  <2>1. CacheHoldsCommittedRows'
    BY <1>0, <1>4, CacheCommand DEF RefusedHardDelete, PInv
  <2> QED
    BY <1>0, <1>4, <2>1, TxStays DEF RefusedHardDelete
<1>5. ASSUME NEW w \in Worker, Request(w) PROVE PInv'
  BY <1>0, <1>5, RequestKnows
<1> QED
  BY <1>1, <1>2, <1>3, <1>4, <1>5 DEF Next

LEMMA HNextKnows == AllInv /\ [HNext]_hvars => AllInv'
<1> SUFFICES ASSUME AllInv, [HNext]_hvars PROVE AllInv'
  OBVIOUS
<1>1. IInv' /\ LInv'
  BY NextIInv, NextLInv DEF AllInv, HNext, hvars
<1>2. CASE UNCHANGED hvars
  BY <1>2 DEF hvars, vars, AllInv, PInv, CacheHoldsCommittedRows, LoadedKnown, IInv,
     RowsInv, LocksInv, CacheInv, TxInv, LInv, Taken, Held
<1>3. CASE HNext
  <2>1. Grows
    BY <1>3 DEF HNext, Grows
  <2> QED
    BY <1>1, <1>3, <2>1, NextKnows DEF HNext, AllInv
<1> QED
  BY <1>2, <1>3

LEMMA HInitKnows == HInit => AllInv
<1> SUFFICES ASSUME HInit PROVE AllInv
  OBVIOUS
<1>1. IInv /\ LInv
  BY InitIInv, InitLInv DEF HInit
<1>2. PInv
  BY DEF HInit, Init, PInv, CacheHoldsCommittedRows, LoadedKnown, IdleTx
<1> QED
  BY <1>1, <1>2 DEF AllInv

\* Whatever the requests, crashes and failures of Redis, an entry of the cache is
\* a version of its row that was committed: never a pending change, never a
\* mixture of two versions.
THEOREM CacheIsCommitted == HSpec => []CacheHoldsCommittedRows
<1>1. HSpec => []AllInv
  BY HInitKnows, HNextKnows, PTL DEF HSpec
<1>2. AllInv => CacheHoldsCommittedRows
  BY DEF AllInv, PInv
<1> QED
  BY <1>1, <1>2, PTL

-----------------------------------------------------------------------------
(* A soft-deleted product stays deleted, unless it is disturbed.           *)

\* What w does with an instance does not make it active again.
Fresh(w) ==
    /\ tx[w].op \in {"confirm", "cancel"} =>
         \A p \in Product : tx[w].seen[p].active => tx[w].base[p].active
    /\ tx[w].pc = "flush" /\ tx[w].cur \notin disturbed =>
         (tx[w].seen[tx[w].cur].active => tx[w].base[tx[w].cur].active)

DInv ==
    /\ \A p \in Product : plock[p] = NoWorker => row[p] = stable[p]
    /\ \A p \in Product \ disturbed : row[p].active => stable[p].active
    /\ \A w \in Worker : Fresh(w)

\* What DeletedUnlessDisturbed says of one step.
DeadStep == \A p \in Product \ disturbed' : ~stable[p].active => ~stable'[p].active

Spreads == disturbed \subseteq disturbed'

Grown == DInv' /\ DeadStep

LEMMA DatabaseStays ==
    ASSUME DInv, Spreads, UNCHANGED <<stable, row, plock>>, \A v \in Worker : Fresh(v)'
    PROVE  Grown
BY DEF DInv, Spreads, DeadStep, Grown

LEMMA SessionFresh ==
    ASSUME DInv, IInv, Spreads, NEW w \in Worker, NEW t, tx' = [tx EXCEPT ![w] = t],
           t.op \in {"confirm", "cancel"} =>
             \A p \in Product : t.seen[p].active => t.base[p].active,
           t.pc = "flush" /\ t.cur \notin disturbed' =>
             (t.seen[t.cur].active => t.base[t.cur].active)
    PROVE  \A v \in Worker : Fresh(v)'
<1>1. tx'[w] = t /\ \A v \in Worker \ {w} : tx'[v] = tx[v]
  BY DEF IInv, TxInv
<1>2. Fresh(w)'
  BY <1>1 DEF Fresh
<1>3. ASSUME NEW v \in Worker \ {w} PROVE Fresh(v)'
  BY <1>1 DEF Fresh, Spreads, DInv
<1> QED
  BY <1>2, <1>3

LEMMA RollbackDead ==
    ASSUME DInv, IInv, Spreads, NEW w \in Worker, Rollback(w)
    PROVE  Grown
<1>1. \A v \in Worker : Fresh(v)'
  BY SessionFresh DEF Rollback, IdleTx
<1> QED
  BY <1>1 DEF Rollback, DInv, Spreads, DeadStep, Grown, IInv, RowsInv, LocksInv

LEMMA CommitDead ==
    ASSUME DInv, IInv, Spreads, NEW w \in Worker, Commit(w)
    PROVE  Grown
<1>1. \A v \in Worker : Fresh(v)'
  BY SessionFresh DEF Commit, IdleTx
<1> QED
  BY <1>1 DEF Commit, DInv, Spreads, DeadStep, Grown, IInv, RowsInv, LocksInv

\* A write from an instance that is not active again.
LEMMA WriteDead ==
    ASSUME DInv, IInv, Spreads, NEW w \in Worker, NEW p \in Product,
           NEW before \in Kept, NEW after \in Kept,
           p \notin disturbed => (after.active => before.active),
           LockFree(w, p), WriteRow(w, p, Update(row[p], before, after)),
           \A v \in Worker : Fresh(v)'
    PROVE  Grown
<1> DEFINE new == Update(row[p], before, after)
<1>1. /\ row' = [row EXCEPT ![p] = new] /\ plock' = [plock EXCEPT ![p] = w]
      /\ stable' = stable
  BY DEF WriteRow
<1>2. new.active => row[p].active \/ (after.active /\ after.active # before.active)
  BY DEF Update
<1>3. row[p].active \in BOOLEAN /\ before.active \in BOOLEAN /\ after.active \in BOOLEAN
  BY KeptFields, SoundKept DEF IInv, RowsInv
<1>4. p \notin disturbed => (new.active => stable[p].active)
  BY <1>2, <1>3 DEF DInv
<1> HIDE DEF new
<1>5. row'[p] = new /\ \A x \in Product \ {p} : row'[x] = row[x]
  BY <1>1 DEF IInv, RowsInv
<1>6. plock'[p] = w /\ \A x \in Product \ {p} : plock'[x] = plock[x]
  BY <1>1 DEF IInv, LocksInv
<1>7. \A x \in Product : plock'[x] = NoWorker => row'[x] = stable'[x]
  BY <1>1, <1>5, <1>6, NoneAssumption DEF DInv
<1>8. \A x \in Product \ disturbed' : row'[x].active => stable'[x].active
  BY <1>1, <1>4, <1>5 DEF DInv, Spreads
<1> QED
  BY <1>1, <1>7, <1>8 DEF DInv, DeadStep, Grown

LEMMA LineDoneFresh ==
    ASSUME DInv, IInv, Spreads, NEW w \in Worker, NEW last \in {"status", "commit"},
           NEW seen, LineDone(w, last, seen),
           tx[w].op \in {"confirm", "cancel"} =>
             \A p \in Product : seen[p].active => tx[w].base[p].active
    PROVE  \A v \in Worker : Fresh(v)'
<1> DEFINE next == IF tx[w].todo = {tx[w].cur} THEN last ELSE "next"
           t == [tx[w] EXCEPT !.todo = tx[w].todo \ {tx[w].cur}, !.seen = seen, !.pc = next]
<1>1. tx' = [tx EXCEPT ![w] = t]
  BY DEF LineDone
<1>2. next # "flush"
  OBVIOUS
<1> HIDE DEF next
<1>3. tx[w] \in Tx
  BY SessionFields DEF IInv, TxInv
<1>4. t.pc = next /\ t.op = tx[w].op /\ t.base = tx[w].base /\ t.seen = seen
  BY <1>3 DEF Tx
<1> QED
  BY <1>1, <1>2, <1>4, SessionFresh

LEMMA RequestDead ==
    ASSUME DInv, IInv, Spreads, NEW w \in Worker, Request(w)
    PROVE  Grown
<1>1. \A v \in Worker : Fresh(v)'
  <2>1. ASSUME NEW r \in Reservation, BeginConfirm(w, r)
        PROVE  \A v \in Worker : Fresh(v)'
    <3> DEFINE t == [pc |-> "next", op |-> "confirm", res |-> r, from |-> "draft",
                     todo |-> Lines(r), cur |-> NoProduct, base |-> Loaded(r),
                     seen |-> Loaded(r)]
    <3>1. tx' = [tx EXCEPT ![w] = t]
      BY <2>1 DEF BeginConfirm
    <3> QED
      BY <3>1, SessionFresh
  <2>2. ASSUME NEW r \in Reservation, BeginCancel(w, r)
        PROVE  \A v \in Worker : Fresh(v)'
    <3> DEFINE held == IF stableStatus[r] = "confirmed" THEN Lines(r) ELSE {}
               t == [pc |-> IF held = {} THEN "status" ELSE "next", op |-> "cancel",
                     res |-> r, from |-> stableStatus[r], todo |-> held, cur |-> NoProduct,
                     base |-> Loaded(r), seen |-> Loaded(r)]
    <3>1. tx' = [tx EXCEPT ![w] = t] /\ t.pc # "flush" /\ t.seen = t.base
      BY <2>2 DEF BeginCancel
    <3> QED
      BY <3>1, SessionFresh
  <2>3. ASSUME NEW r \in Reservation, BeginCreate(w, r)
        PROVE  \A v \in Worker : Fresh(v)'
    <3> DEFINE t == [IdleTx EXCEPT !.pc = "next", !.op = "create", !.res = r,
                                   !.todo = Lines(r)]
    <3>1. tx' = [tx EXCEPT ![w] = t] /\ t.op = "create" /\ t.pc = "next"
      BY <2>3 DEF BeginCreate, IdleTx
    <3> QED
      BY <3>1, SessionFresh
  <2>4. ASSUME NEW p \in Product, NEW op \in {"patch", "delete", "read"},
               BeginProductRequest(w, p, op)
        PROVE  \A v \in Worker : Fresh(v)'
    <3> DEFINE t == [IdleTx EXCEPT !.pc = "next", !.op = op, !.todo = {p}]
    <3>1. tx' = [tx EXCEPT ![w] = t] /\ t.op = op /\ t.pc = "next"
      BY <2>4 DEF BeginProductRequest, IdleTx
    <3> QED
      BY <3>1, SessionFresh
  <2> QED
    BY <2>1, <2>2, <2>3, <2>4 DEF Request
<1> QED
  BY <1>1, DatabaseStays DEF Request, BeginConfirm, BeginCancel, BeginCreate,
     BeginProductRequest, db

\* What a handler makes of an instance is active only if that instance was.
LEMMA ModifiedActive ==
    ASSUME NEW op, NEW r \in Kept, NEW after \in Modified(op, r), after.active
    PROVE  r.active
<1>1. CASE op = "patch"
  BY <1>1 DEF Modified, Patched, Kept, Row
<1>2. CASE op = "delete"
  BY <1>2 DEF Modified, Kept, Row
<1>3. CASE op # "patch" /\ op # "delete"
  BY <1>3 DEF Modified
<1> QED
  BY <1>1, <1>2, <1>3

\* get_by_id answers with the cached row: on an undisturbed product it is the
\* committed one.
LEMMA HitDead ==
    ASSUME DInv, IInv, HNext, NEW w \in Worker, NEW p \in Product, GetByIdHit(w, p)
    PROVE  Grown
<1>0. /\ tx[w] \in Tx /\ tx[w].pc = "next" /\ tx[w].op \in GetOps
      /\ tx[w].base \in [Product -> Kept] /\ tx[w].seen \in [Product -> Kept]
      /\ cache[p] \in Kept
  BY SessionFields DEF IInv, TxInv, CacheInv, GetByIdHit, CacheHit
<1>1. PICK after \in Modified(tx[w].op, cache[p]) :
        tx' = [tx EXCEPT ![w] = [tx[w] EXCEPT !.pc = "flush", !.cur = p,
                                          !.base = [tx[w].base EXCEPT ![p] = stable[p]],
                                          !.seen = [tx[w].seen EXCEPT ![p] = after]]]
  BY DEF GetByIdHit
<1> DEFINE base == [tx[w].base EXCEPT ![p] = stable[p]]
           seen == [tx[w].seen EXCEPT ![p] = after]
           t == [tx[w] EXCEPT !.pc = "flush", !.cur = p, !.base = base, !.seen = seen]
<1>2. tx' = [tx EXCEPT ![w] = t]
  BY <1>1
<1>3. base[p] = stable[p] /\ seen[p] = after
  BY <1>0
<1> HIDE DEF base, seen
<1>4. /\ t.pc = "flush" /\ t.op = tx[w].op /\ t.cur = p /\ t.base = base /\ t.seen = seen
  BY <1>0 DEF Tx
<1>5. tx'[w] = t
  BY <1>2 DEF IInv, TxInv
<1>6. p \notin disturbed' => cache[p] = stable[p]
  BY <1>0, <1>4, <1>5 DEF HNext, StaleHit
<1>7. p \notin disturbed' => (after.active => stable[p].active)
  BY <1>0, <1>6, ModifiedActive
<1>8. Spreads
  BY DEF HNext, Spreads
<1>9. \A v \in Worker : Fresh(v)'
  BY <1>0, <1>2, <1>3, <1>4, <1>7, <1>8, SessionFresh DEF GetOps
<1> QED
  BY <1>8, <1>9, DatabaseStays DEF GetByIdHit, db

LEMMA LookupDead ==
    ASSUME DInv, IInv, Spreads, NEW w \in Worker, NEW p \in Product,
           \/ CheckAvailability(w, p) \/ RefuseLine(w, p) \/ NextReleasedLine(w, p)
           \/ GetByIdSelect(w, p) \/ GetByIdMissing(w, p)
    PROVE  Grown
<1>0. tx[w] \in Tx /\ Fresh(w)
  BY SessionFields DEF IInv, TxInv, DInv
<1>1. CASE RefuseLine(w, p) \/ GetByIdMissing(w, p)
  BY <1>1, RollbackDead DEF RefuseLine, GetByIdMissing
<1>2. CASE CheckAvailability(w, p) \/ NextReleasedLine(w, p)
  <2> DEFINE t == [tx[w] EXCEPT !.pc = "flush", !.cur = p]
  <2>1. /\ tx' = [tx EXCEPT ![w] = t] /\ UNCHANGED db
        /\ tx[w].op \in {"confirm", "cancel"}
    BY <1>2 DEF CheckAvailability, NextReleasedLine
  <2>2. /\ t.op = tx[w].op /\ t.cur = p /\ t.base = tx[w].base /\ t.seen = tx[w].seen
    BY <1>0 DEF Tx
  <2>3. \A v \in Worker : Fresh(v)'
    BY <1>0, <2>1, <2>2, SessionFresh DEF Fresh
  <2> QED
    BY <2>1, <2>3, DatabaseStays DEF db
<1>3. CASE GetByIdSelect(w, p)
  <2> DEFINE base == [tx[w].base EXCEPT ![p] = stable[p]]
             t == [tx[w] EXCEPT !.pc = "fill", !.cur = p, !.base = base]
  <2>1. /\ tx' = [tx EXCEPT ![w] = t] /\ UNCHANGED db
        /\ tx[w].op \notin {"confirm", "cancel"}
    BY <1>3 DEF GetByIdSelect, GetOps
  <2> HIDE DEF base
  <2>2. t.pc = "fill" /\ t.op = tx[w].op
    BY <1>0 DEF Tx
  <2>3. \A v \in Worker : Fresh(v)'
    BY <2>1, <2>2, SessionFresh
  <2> QED
    BY <2>1, <2>3, DatabaseStays DEF db
<1> QED
  BY <1>1, <1>2, <1>3

LEMMA FillDead ==
    ASSUME DInv, IInv, Spreads, NEW w \in Worker, FillCache(w)
    PROVE  Grown
<1> DEFINE p == tx[w].cur
<1>0. /\ tx[w] \in Tx /\ tx[w].pc = "fill" /\ p \in Product
      /\ tx[w].base \in [Product -> Kept] /\ tx[w].seen \in [Product -> Kept]
      /\ Fresh(w)
  BY SessionFields DEF IInv, TxInv, FillCache, DInv
<1>1. PICK after \in Modified(tx[w].op, tx[w].base[p]) :
        tx' = [tx EXCEPT ![w] = [tx[w] EXCEPT !.pc = "flush",
                                  !.seen = [tx[w].seen EXCEPT ![p] = after]]]
  BY DEF FillCache
<1> DEFINE seen == [tx[w].seen EXCEPT ![p] = after]
           t == [tx[w] EXCEPT !.pc = "flush", !.seen = seen]
<1>2. tx' = [tx EXCEPT ![w] = t]
  BY <1>1
<1>3. seen[p] = after /\ (after.active => tx[w].base[p].active)
  BY <1>0, ModifiedActive
<1>4. tx[w].op \in {"confirm", "cancel"} =>
        \A x \in Product : seen[x].active => tx[w].base[x].active
  BY <1>0, <1>3 DEF Fresh
<1> HIDE DEF seen
<1>5. /\ t.op = tx[w].op /\ t.cur = p /\ t.base = tx[w].base /\ t.seen = seen
  BY <1>0 DEF Tx
<1>6. \A v \in Worker : Fresh(v)'
  BY <1>2, <1>3, <1>4, <1>5, SessionFresh
<1> QED
  BY <1>6, DatabaseStays DEF FillCache, db

LEMMA MoveStockDead ==
    ASSUME DInv, IInv, Spreads, NEW w \in Worker, ReserveStock(w) \/ ReleaseStock(w)
    PROVE  Grown
<1> DEFINE p == tx[w].cur
           q == Quantity[tx[w].res][p]
           cap == tx[w].seen[p].stock
           back == tx[w].seen[p].avail + q
           less == tx[w].seen[p].avail - q
           more == IF back > cap THEN cap ELSE back
           taken(a) == [tx[w].seen[p] EXCEPT !.avail = a]
           seen(a) == [tx[w].seen EXCEPT ![p] = taken(a)]
<1>0. /\ tx[w] \in Session /\ tx[w] \in Tx /\ tx[w].op \in {"confirm", "cancel"}
      /\ tx[w].pc = "flush" /\ p \in Product /\ tx[w].res \in Reservation /\ q \in Nat
      /\ tx[w].base \in [Product -> Kept] /\ tx[w].seen \in [Product -> Kept]
      /\ Fresh(w) /\ LockFree(w, p)
  BY SessionFields, QuantityAssumption DEF IInv, TxInv, ReserveStock, ReleaseStock, DInv
<1>1. CASE Rollback(w)
  BY <1>1, RollbackDead
<1>2. ASSUME NEW a \in Nat, WriteRow(w, p, Update(row[p], tx[w].base[p], taken(a))),
             LineDone(w, "status", seen(a))
      PROVE  Grown
  <2>1. tx[w].seen[p] \in Kept /\ tx[w].base[p] \in Kept
    BY <1>0
  <2>2. taken(a) \in Kept /\ taken(a).active = tx[w].seen[p].active
    BY <2>1 DEF Kept, Row
  <2>3. \A x \in Product : seen(a)[x].active = tx[w].seen[x].active
    <3>1. PICK r : r = taken(a)
      OBVIOUS
    <3>2. \A x \in Product : [tx[w].seen EXCEPT ![p] = r][x] = IF x = p THEN r ELSE tx[w].seen[x]
      BY <1>0
    <3> QED
      BY <2>2, <3>1, <3>2
  <2>4. \A v \in Worker : Fresh(v)'
    BY <1>0, <1>2, <2>3, LineDoneFresh DEF Fresh
  <2>5. taken(a).active => tx[w].base[p].active
    BY <1>0, <2>2 DEF Fresh
  <2> QED
    BY <1>0, <1>2, <2>1, <2>2, <2>4, <2>5, WriteDead
<1>3. CASE ReserveStock(w) /\ ~Rollback(w)
  <2>1. less \in Nat
    <3>1. tx[w].seen[p].avail >= q
      BY <1>0, <1>3 DEF Session, ReserveStock
    <3>2. tx[w].seen[p].avail \in Nat
      BY <1>0, KeptFields
    <3> QED
      BY <1>0, <3>1, <3>2
  <2> QED
    BY <1>2, <1>3, <2>1 DEF ReserveStock
<1>4. CASE ReleaseStock(w) /\ ~Rollback(w)
  <2>1. more \in Nat
    <3>1. tx[w].seen[p].avail \in Nat /\ cap \in Nat
      BY <1>0, KeptFields
    <3> QED
      BY <1>0, <3>1
  <2> QED
    BY <1>2, <1>4, <2>1 DEF ReleaseStock
<1> QED
  BY <1>1, <1>3, <1>4

LEMMA FlushDead ==
    ASSUME DInv, IInv, Spreads, NEW w \in Worker, FlushProduct(w)
    PROVE  Grown
<1> DEFINE p == tx[w].cur
<1>0. /\ tx[w] \in Session /\ p \in Product /\ tx[w].pc = "flush"
      /\ tx[w].base[p] \in Kept /\ tx[w].seen[p] \in Kept
      /\ tx[w].op \notin {"confirm", "cancel"} /\ Fresh(w)
  BY SessionFields DEF IInv, TxInv, FlushProduct, DInv
<1>1. \A v \in Worker : Fresh(v)'
  BY <1>0, LineDoneFresh DEF FlushProduct
<1>2. CASE Dirty(w)
  <2>1. p \notin disturbed => (tx[w].seen[p].active => tx[w].base[p].active)
    BY <1>0 DEF Fresh
  <2> QED
    BY <1>0, <1>1, <1>2, <2>1, WriteDead DEF FlushProduct
<1>3. CASE ~Dirty(w)
  BY <1>1, <1>3, DatabaseStays DEF FlushProduct, db
<1> QED
  BY <1>2, <1>3

LEMMA FlushStatusDead ==
    ASSUME DInv, IInv, Spreads, NEW w \in Worker, FlushStatus(w)
    PROVE  Grown
<1> DEFINE t == [tx[w] EXCEPT !.pc = "commit"]
<1>0. tx[w] \in Tx /\ Fresh(w)
  BY SessionFields DEF IInv, TxInv, DInv
<1>1. tx' = [tx EXCEPT ![w] = t]
  BY DEF FlushStatus
<1>2. /\ t.pc = "commit" /\ t.op = tx[w].op /\ t.base = tx[w].base /\ t.seen = tx[w].seen
  BY <1>0 DEF Tx
<1>3. \A v \in Worker : Fresh(v)'
  BY <1>0, <1>1, <1>2, SessionFresh DEF Fresh
<1> QED
  BY <1>3, DatabaseStays DEF FlushStatus

LEMMA NextDead == DInv /\ IInv /\ HNext => Grown
<1> SUFFICES ASSUME DInv, IInv, HNext PROVE Grown
  OBVIOUS
<1>0. Spreads
  BY DEF HNext, Spreads
<1>1. ASSUME NEW w \in Worker, WorkerStep(w) PROVE Grown
  <2>1. CASE RefuseProduct(w) \/ RespondRead(w)
    BY <1>0, <2>1, RollbackDead DEF RefuseProduct, RespondRead
  <2> QED
    BY <1>0, <1>1, <2>1, HitDead, LookupDead, FillDead, MoveStockDead, FlushDead,
       FlushStatusDead, CommitDead, Zenon DEF WorkerStep
<1>2. ASSUME NEW w \in Worker, DeadlockVictim(w) \/ Crash(w) PROVE Grown
  BY <1>0, <1>2, RollbackDead DEF DeadlockVictim, Crash
<1>3. ASSUME NEW p \in Product, Evict(p) \/ RefusedHardDelete(p) PROVE Grown
  <2>1. \A v \in Worker : Fresh(v)'
    BY <1>0, <1>3 DEF Evict, RefusedHardDelete, DInv, Fresh, Spreads
  <2> QED
    BY <1>0, <1>3, <2>1, DatabaseStays DEF Evict, RefusedHardDelete, db
<1>4. ASSUME NEW w \in Worker, Request(w) PROVE Grown
  BY <1>0, <1>4, RequestDead
<1>5. Next
  BY DEF HNext
<1> QED
  BY <1>1, <1>2, <1>3, <1>4, <1>5 DEF Next

\* A soft-deleted product comes back only if a request used a value of it that
\* was no longer the committed one.
THEOREM DeletedStays == HSpec => DeletedUnlessDisturbed
<1>1. HInit => DInv
  BY NoneAssumption DEF HInit, Init, DInv, Fresh, IdleTx
<1>2. DInv /\ IInv /\ [HNext]_hvars => DInv'
  <2>1. CASE HNext
    BY <2>1, NextDead DEF Grown
  <2>2. DInv /\ UNCHANGED hvars => DInv'
    BY DEF DInv, Fresh, hvars, vars
  <2> QED
    BY <2>1, <2>2
<1>3. HSpec => []IInv
  <2>1. HInit => IInv
    BY InitIInv DEF HInit
  <2>2. IInv /\ [HNext]_hvars => IInv'
    BY NextIInv DEF HNext, hvars
  <2> QED
    BY <2>1, <2>2, PTL DEF HSpec
<1>4. DInv /\ IInv /\ [HNext]_hvars => DeadStep \/ UNCHANGED hvars
  BY NextDead DEF Grown
<1>5. HSpec => [][DeadStep]_hvars
  BY <1>1, <1>2, <1>3, <1>4, PTL DEF HSpec
<1> QED
  BY <1>5 DEF DeletedUnlessDisturbed, DeadStep
==============================================================================
