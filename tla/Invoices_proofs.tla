--------------------------- MODULE Invoices_proofs ---------------------------
(***************************************************************************)
(* Proofs about Invoices and InvoiceHistory for any number of workers,     *)
(* invoices and tenants: typing, no payment beyond the total, the          *)
(* numbering; and, off the races, payments add up and settled invoices are *)
(* final.                                                                  *)
(*                                                                         *)
(* Requests decide on what they loaded and write later, so IInv says of    *)
(* every session what its pending values still guarantee when they are     *)
(* written: an amount within the total, a number whose predecessors are    *)
(* issued for good, or the number the row has had since it was committed.  *)
(* The last two follow from what a lock says: a locked row is what its     *)
(* holder had loaded with its changes, unless the committed row was        *)
(* another by then, which is the definition of a race.                     *)
(***************************************************************************)
EXTENDS InvoiceHistory, TLAPS

\* No session is about to write more than the total.
Bounded == \A w \in Worker, i \in Invoice : tx[w].seen[i].paid <= Total[i]

\* A number that can be issued: those before it are.
Placed(n) == n \in 1..MaxNumber /\ 1..(n - 1) \subseteq Issued

Inserted(i) == row[i].status # "absent"

\* A committed invoice stays, and keeps its number.
Lasting == \A i \in Invoice : Exists(i) => Inserted(i) /\ row[i].number = stable[i].number

\* Only a transaction that waits for its commit has a row nobody else sees.
Hidden == \A i \in Invoice :
            Inserted(i) /\ ~Exists(i) => lock[i] \in Worker /\ tx[lock[i]].pc = "commit"

RowNumbers == \A i \in Invoice : Inserted(i) => Placed(row[i].number)

Distinct == \A i, j \in Invoice :
              Inserted(i) /\ Inserted(j) /\ Owner[i] = Owner[j] /\ i # j =>
                row[i].number # row[j].number

\* What a session is about to write for invoice i.
Creates(t, i) == t.todo = {i} /\ Placed(t.seen[i].number)
Changes(t, i) == Exists(i) /\ t.seen[i].number = t.base[i].number

Pendings == \A w \in Worker : tx[w].pc = "flush" =>
              \A i \in tx[w].todo :
                /\ tx[w].seen[i].status # "absent"
                /\ tx[w].op = "create" => Creates(tx[w], i)
                /\ tx[w].op # "create" => Changes(tx[w], i)

IInv == TypeOK /\ PaidWithinTotal /\ Bounded /\ Lasting /\ Hidden /\ RowNumbers /\ Distinct /\ Pendings

-----------------------------------------------------------------------------
(* Lemmas about the operators of the module.                               *)

Settled(i, r) == r.status = "paid" /\ r.paid = Total[i]

\* What a handler hands to Begin.
Prepared(op, after) ==
    /\ op \in Ops \ {"none"}
    /\ DOMAIN after \in SUBSET Invoice
    /\ \A i \in DOMAIN after :
         /\ after[i] \in Row /\ after[i].status # "absent" /\ after[i].paid <= Total[i]
         /\ ~Settled(i, stable[i])
         /\ op = "create" => /\ DOMAIN after = {i} /\ Placed(after[i].number)
                             /\ ~Exists(i) /\ after[i].paid = 0
         /\ op # "create" => Exists(i) /\ after[i].number = stable[i].number
         /\ op \notin {"create", "pay"} => after[i].paid = stable[i].paid

LEMMA AbsentRow == Absent \in Row /\ Nothing \in [Invoice -> Row]
BY DEF Absent, Nothing, Row

LEMMA RowFields == \A r \in Row : /\ r.status \in InvoiceStatus \cup {"absent"}
                                  /\ r.paid \in Nat /\ r.number \in Nat
BY DEF Row

LEMMA TotalNat == \A i \in Invoice : Total[i] \in Nat
BY TotalAssumption

\* A handler that gives the invoices of S another status.
LEMMA WithStatusPrepared ==
    ASSUME TypeOK, PaidWithinTotal, NEW op \in {"patch", "cancel", "overdue"},
           NEW S \in SUBSET Invoice, NEW s \in InvoiceStatus,
           \A i \in S : Exists(i) /\ ~Settled(i, stable[i])
    PROVE  Prepared(op, WithStatus(S, s))
<1> DEFINE after == WithStatus(S, s)
<1>1. DOMAIN after = S /\ \A i \in S : after[i] = [stable[i] EXCEPT !.status = s]
  BY DEF WithStatus
<1>2. s # "absent"
  BY DEF InvoiceStatus
<1>3. ASSUME NEW i \in S
      PROVE  /\ after[i] \in Row /\ after[i].status = s
             /\ after[i].paid = stable[i].paid /\ after[i].number = stable[i].number
  <2>1. stable[i] \in Row
    BY DEF TypeOK
  <2> QED
    BY <1>1, <2>1 DEF Row
<1>4. \A i \in S : stable[i].paid <= Total[i]
  BY DEF PaidWithinTotal
<1> HIDE DEF after
<1>5. Prepared(op, after)
  BY <1>1, <1>2, <1>3, <1>4 DEF Prepared, Ops
<1> QED
  BY <1>5 DEF after

LEMMA PayPrepared ==
    ASSUME TypeOK, NEW i \in Invoice, NEW a \in Amounts, Exists(i), stable[i].paid + a <= Total[i]
    PROVE  Prepared("pay", [j \in {i} |-> Paid(j, stable[j], a)])
<1> DEFINE after == [j \in {i} |-> Paid(j, stable[j], a)]
<1>1. stable[i] \in Row /\ a \in Nat /\ a > 0 /\ Total[i] \in Nat
  BY AmountsAssumption, TotalNat DEF TypeOK
<1>2. /\ Paid(i, stable[i], a) \in Row
      /\ Paid(i, stable[i], a).paid = stable[i].paid + a
      /\ Paid(i, stable[i], a).number = stable[i].number
      /\ Paid(i, stable[i], a).status # "absent"
  <2> DEFINE next == IF stable[i].paid + a >= Total[i] THEN "paid" ELSE stable[i].status
  <2>1. next \in InvoiceStatus
    BY <1>1, RowFields DEF Exists, InvoiceStatus
  <2>2. Paid(i, stable[i], a) = [stable[i] EXCEPT !.paid = stable[i].paid + a, !.status = next]
    BY DEF Paid
  <2> HIDE DEF next
  <2>3. stable[i].paid + a \in Nat
    BY <1>1, RowFields
  <2>4. Paid(i, stable[i], a) =
          [status |-> next, paid |-> stable[i].paid + a, number |-> stable[i].number]
    BY <1>1, <2>2 DEF Row
  <2> QED
    BY <1>1, <2>1, <2>3, <2>4, RowFields DEF Row, InvoiceStatus
<1>3. stable[i].paid # Total[i]
  BY <1>1, RowFields
<1>4. DOMAIN after = {i} /\ after[i] = Paid(i, stable[i], a)
  OBVIOUS
<1> HIDE DEF after
<1> QED
  BY <1>2, <1>3, <1>4 DEF Prepared, Ops, Settled

LEMMA CreatePrepared ==
    ASSUME NEW i \in Invoice, NEW n \in 1..MaxNumber, TypeOK, ~Exists(i), Scanned(n)
    PROVE  Prepared("create", [j \in {i} |-> [status |-> "draft", paid |-> 0, number |-> n]])
<1> DEFINE after == [j \in {i} |-> [status |-> "draft", paid |-> 0, number |-> n]]
<1>1. n \in Nat
  BY MaxNumberAssumption
<1>2. DOMAIN after = {i} /\ after[i] = [status |-> "draft", paid |-> 0, number |-> n]
  OBVIOUS
<1>3. after[i] \in Row /\ 0 <= Total[i]
  BY <1>1, <1>2, TotalNat DEF Row, InvoiceStatus
<1>4. Placed(n)
  BY DEF Placed, Scanned
<1>5. ~Settled(i, stable[i])
  BY DEF Settled, Exists
<1> HIDE DEF after
<1> QED
  BY <1>2, <1>3, <1>4, <1>5 DEF Prepared, Ops

\* Every request that is not refused is a Begin, well prepared.
LEMMA RequestPrepared ==
    ASSUME IInv, NEW w \in Worker, Request(w)
    PROVE  \E op \in Ops : \E after : Begin(w, op, after) /\ Prepared(op, after)
<1>1. ASSUME NEW i \in Invoice, BeginCreate(w, i)
      PROVE  \E op \in Ops : \E after : Begin(w, op, after) /\ Prepared(op, after)
  BY <1>1, CreatePrepared DEF BeginCreate, IInv, Ops
<1>2. ASSUME NEW i \in Invoice, BeginCancel(w, i)
      PROVE  \E op \in Ops : \E after : Begin(w, op, after) /\ Prepared(op, after)
  <2>1. ~Settled(i, stable[i])
    BY <1>2 DEF BeginCancel, Settled
  <2>2. Prepared("cancel", WithStatus({i}, "cancelled"))
    BY <1>2, <2>1, WithStatusPrepared DEF BeginCancel, IInv, InvoiceStatus
  <2> QED
    BY <1>2, <2>2 DEF BeginCancel, Ops
<1>3. ASSUME NEW i \in Invoice, NEW a \in Amounts, BeginPay(w, i, a)
      PROVE  \E op \in Ops : \E after : Begin(w, op, after) /\ Prepared(op, after)
  BY <1>3, PayPrepared DEF BeginPay, IInv, Ops
<1>4. ASSUME NEW i \in Invoice, NEW s \in PatchStatuses, BeginPatch(w, i, s)
      PROVE  \E op \in Ops : \E after : Begin(w, op, after) /\ Prepared(op, after)
  <2>1. ~Settled(i, stable[i])
    BY <1>4 DEF BeginPatch, Settled
  <2>2. Prepared("patch", WithStatus({i}, s))
    BY <1>4, <2>1, WithStatusPrepared, PatchAssumption DEF BeginPatch, IInv
  <2> QED
    BY <1>4, <2>2 DEF BeginPatch, Ops
<1>5. ASSUME NEW S \in SUBSET Invoice, BeginOverdue(w, S)
      PROVE  \E op \in Ops : \E after : Begin(w, op, after) /\ Prepared(op, after)
  <2>1. ASSUME NEW i \in S PROVE Exists(i) /\ ~Settled(i, stable[i])
    <3>1. stable[i].paid < Total[i] /\ Exists(i)
      BY <1>5, <2>1 DEF BeginOverdue, Unpaid
    <3>2. stable[i].paid \in Nat /\ Total[i] \in Nat
      BY TotalNat, RowFields DEF IInv, TypeOK
    <3> QED
      BY <3>1, <3>2 DEF Settled
  <2>2. Prepared("overdue", WithStatus(S, "overdue"))
    BY <2>1, WithStatusPrepared DEF IInv, InvoiceStatus
  <2> QED
    BY <1>5, <2>2 DEF BeginOverdue, Ops
<1> QED
  BY <1>1, <1>2, <1>3, <1>4, <1>5 DEF Request

\* IdleTx is a session with nothing pending.
LEMMA IdleSession ==
    /\ IdleTx \in Tx /\ IdleTx.pc = "idle" /\ IdleTx.todo = {}
    /\ \A i \in Invoice : IdleTx.seen[i].paid <= Total[i]
<1>1. IdleTx \in Tx
  BY AbsentRow DEF IdleTx, Tx, Ops
<1>2. \A i \in Invoice : Nothing[i].paid = 0
  BY DEF Nothing, Absent
<1> QED
  BY <1>1, <1>2, TotalNat DEF IdleTx

\* What is issued or placed stays so when committed rows keep their numbers.
LEMMA Monotone ==
    ASSUME \A i \in Invoice : Exists(i) => Exists(i)' /\ stable'[i].number = stable[i].number
    PROVE  Issued \subseteq Issued' /\ \A n : Placed(n) => Placed(n)'
<1>1. Issued \subseteq Issued'
  BY DEF Issued
<1> QED
  BY <1>1 DEF Placed

-----------------------------------------------------------------------------
(* The four kinds of steps.                                                *)

LEMMA BeginStep ==
    ASSUME IInv, NEW w \in Worker, NEW op, NEW after, Begin(w, op, after), Prepared(op, after)
    PROVE  IInv'
<1> DEFINE base == [i \in Invoice |-> IF i \in DOMAIN after THEN stable[i] ELSE Absent]
           seen == [i \in Invoice |-> IF i \in DOMAIN after THEN after[i] ELSE Absent]
           t == [pc |-> "flush", op |-> op, todo |-> DOMAIN after, base |-> base, seen |-> seen]
<1>1. /\ tx[w].pc = "idle" /\ tx' = [tx EXCEPT ![w] = t]
      /\ stable' = stable /\ row' = row /\ lock' = lock
  BY DEF Begin
<1>2. base \in [Invoice -> Row] /\ seen \in [Invoice -> Row]
  BY AbsentRow DEF Prepared, IInv, TypeOK
<1>3. ASSUME NEW i \in Invoice PROVE seen[i].paid <= Total[i]
  <2>1. CASE i \in DOMAIN after
    BY <2>1 DEF Prepared
  <2>2. CASE i \notin DOMAIN after
    <3>1. seen[i].paid = 0
      BY <2>2 DEF Absent
    <3> QED
      BY <3>1, TotalNat
  <2> QED
    BY <2>1, <2>2
<1>4. \A i \in DOMAIN after : i \in Invoice /\ seen[i] = after[i] /\ base[i] = stable[i]
  BY DEF Prepared
<1> HIDE DEF base, seen
<1>5. t \in Tx
  BY <1>2 DEF Prepared, Tx
<1>6. /\ t.pc = "flush" /\ t.op = op /\ t.todo = DOMAIN after
      /\ t.base = base /\ t.seen = seen
  OBVIOUS
<1> HIDE DEF t
<1>7. tx \in [Worker -> Tx]
  BY DEF IInv, TypeOK
<1>8. tx'[w] = t /\ \A v \in Worker \ {w} : tx'[v] = tx[v]
  BY <1>1, <1>7
<1>9. TypeOK'
  BY <1>1, <1>5, <1>7 DEF IInv, TypeOK
<1>10. Bounded'
  BY <1>3, <1>6, <1>8 DEF IInv, Bounded
<1>11. PaidWithinTotal' /\ Lasting' /\ RowNumbers' /\ Distinct'
  BY <1>1 DEF IInv, PaidWithinTotal, Lasting, RowNumbers, Distinct, Exists, Inserted, Placed, Issued
<1>12. Hidden'
  BY <1>1, <1>8 DEF IInv, Hidden, Exists, Inserted
<1>13. Issued' = Issued /\ \A i : Exists(i)' = Exists(i)
  BY <1>1 DEF Issued, Exists
<1>14. ASSUME NEW i \in t.todo
       PROVE  /\ t.seen[i].status # "absent"
              /\ t.op = "create" => t.todo = {i} /\ Placed(t.seen[i].number)
              /\ t.op # "create" => Exists(i) /\ t.seen[i].number = t.base[i].number
  <2>1. i \in DOMAIN after /\ t.seen[i] = after[i] /\ t.base[i] = stable[i] /\ t.todo = DOMAIN after
    BY <1>4, <1>6
  <2>2. after[i].status # "absent"
    BY <2>1 DEF Prepared
  <2>3. op = "create" => DOMAIN after = {i} /\ Placed(after[i].number)
    BY <2>1 DEF Prepared
  <2>4. op # "create" => Exists(i) /\ after[i].number = stable[i].number
    BY <2>1 DEF Prepared
  <2> QED
    BY <1>6, <2>1, <2>2, <2>3, <2>4
<1>15. Pendings'
  <2> SUFFICES ASSUME NEW v \in Worker, (tx[v].pc = "flush")', NEW i \in tx'[v].todo
               PROVE  /\ tx'[v].seen[i].status # "absent"
                      /\ tx'[v].op = "create" => Creates(tx[v], i)'
                      /\ tx'[v].op # "create" => Changes(tx[v], i)'
    BY DEF Pendings
  <2>1. \A n : Placed(n)' = Placed(n)
    BY <1>13 DEF Placed
  <2>2. CASE v = w
    BY <1>8, <1>13, <1>14, <2>1, <2>2 DEF Creates, Changes
  <2>3. CASE v # w
    BY <1>8, <1>13, <2>1, <2>3 DEF IInv, Pendings, Creates, Changes
  <2> QED
    BY <2>2, <2>3
<1> QED
  BY <1>9, <1>10, <1>11, <1>12, <1>15 DEF IInv

LEMMA RollbackStep ==
    ASSUME IInv, NEW w \in Worker, Rollback(w)
    PROVE  IInv'
<1>1. stable' = stable /\ tx' = [tx EXCEPT ![w] = IdleTx]
  BY DEF Rollback
<1>2. \A i \in Invoice : IF lock[i] = w THEN row'[i] = stable[i] /\ lock'[i] = NoWorker
                                        ELSE row'[i] = row[i] /\ lock'[i] = lock[i]
  BY DEF Rollback
<1>3. tx'[w] = IdleTx /\ \A v \in Worker \ {w} : tx'[v] = tx[v]
  BY <1>1 DEF IInv, TypeOK
<1>4. Issued' = Issued /\ \A i : Exists(i)' = Exists(i)
  BY <1>1 DEF Issued, Exists
<1>5. TypeOK'
  BY <1>1, IdleSession DEF IInv, TypeOK, Rollback
<1>6. Bounded'
  BY <1>3, IdleSession DEF IInv, Bounded
<1>7. PaidWithinTotal' /\ Lasting'
  BY <1>1, <1>2, <1>4 DEF IInv, PaidWithinTotal, Lasting, Inserted, Exists
<1>8. Hidden'
  BY <1>1, <1>2, <1>3, <1>4 DEF IInv, Hidden, Inserted, Exists
<1>9. \A i \in Invoice : Inserted(i)' => Inserted(i) /\ row'[i].number = row[i].number
  BY <1>2 DEF IInv, Lasting, Inserted, Exists
<1>10. RowNumbers' /\ Distinct'
  BY <1>4, <1>9 DEF IInv, RowNumbers, Distinct, Placed
<1>11. Pendings'
  BY <1>3, <1>4, IdleSession DEF IInv, Pendings, Creates, Changes, Placed
<1> QED
  BY <1>5, <1>6, <1>7, <1>8, <1>10, <1>11 DEF IInv

LEMMA CommitStep ==
    ASSUME IInv, NEW w \in Worker, Commit(w)
    PROVE  IInv'
<1>1. row' = row /\ tx' = [tx EXCEPT ![w] = IdleTx]
  BY DEF Commit
<1>2. \A i \in Invoice : IF lock[i] = w THEN stable'[i] = row[i] /\ lock'[i] = NoWorker
                                        ELSE stable'[i] = stable[i] /\ lock'[i] = lock[i]
  BY DEF Commit
<1>3. tx'[w] = IdleTx /\ \A v \in Worker \ {w} : tx'[v] = tx[v]
  BY <1>1 DEF IInv, TypeOK
<1>4. \A i \in Invoice : Exists(i) => Exists(i)' /\ stable'[i].number = stable[i].number
  BY <1>2 DEF IInv, Lasting, Inserted, Exists
<1>5. \A n : Placed(n) => Placed(n)'
  BY <1>4, Monotone
<1>6. TypeOK'
  BY <1>1, IdleSession DEF IInv, TypeOK, Commit
<1>7. Bounded'
  BY <1>3, IdleSession DEF IInv, Bounded
<1>8. PaidWithinTotal'
  BY <1>1, <1>2 DEF IInv, PaidWithinTotal
<1>9. Lasting' /\ Hidden'
  BY <1>1, <1>2, <1>3 DEF IInv, Lasting, Hidden, Inserted, Exists
<1>10. RowNumbers' /\ Distinct'
  BY <1>1, <1>5 DEF IInv, RowNumbers, Distinct, Inserted
<1>11. Pendings'
  <2> SUFFICES ASSUME NEW v \in Worker, (tx[v].pc = "flush")', NEW i \in tx'[v].todo
               PROVE  /\ tx'[v].seen[i].status # "absent"
                      /\ tx'[v].op = "create" => Creates(tx[v], i)'
                      /\ tx'[v].op # "create" => Changes(tx[v], i)'
    BY DEF Pendings
  <2>1. v # w /\ tx'[v] = tx[v]
    BY <1>3, IdleSession
  <2>2. i \in Invoice
    BY <2>1 DEF IInv, TypeOK, Tx
  <2> QED
    BY <1>4, <1>5, <2>1, <2>2 DEF IInv, Pendings, Creates, Changes
<1> QED
  BY <1>6, <1>7, <1>8, <1>9, <1>10, <1>11 DEF IInv

\* A statement that leaves a committed row its number, or inserts one whose
\* number is placed and not taken in the tenant.
LEMMA WriteStep ==
    ASSUME IInv, NEW w \in Worker, NEW i \in Invoice, NEW new \in Row,
           tx[w].pc = "flush", i \in tx[w].todo, Write(w, i, new),
           new.paid <= Total[i], new.status # "absent",
           IF Exists(i) THEN new.number = stable[i].number ELSE tx[w].todo = {i},
           Placed(new.number),
           \A j \in Invoice \ {i} : Inserted(j) /\ Owner[i] = Owner[j] => row[j].number # new.number
    PROVE  IInv'
<1> DEFINE t == [tx[w] EXCEPT !.todo = tx[w].todo \ {i},
                              !.pc = IF tx[w].todo = {i} THEN "commit" ELSE "flush"]
<1>1. tx \in [Worker -> Tx] /\ tx[w] \in Tx
  BY DEF IInv, TypeOK
<1>2. /\ t \in Tx /\ t.todo = tx[w].todo \ {i} /\ t.op = tx[w].op
      /\ t.base = tx[w].base /\ t.seen = tx[w].seen
      /\ tx[w].todo = {i} => t.pc = "commit"
  BY <1>1 DEF Tx
<1>3. stable' = stable /\ tx' = [tx EXCEPT ![w] = t]
  BY DEF Write
<1> HIDE DEF t
<1>4. row'[i] = new /\ lock'[i] = w
  BY DEF Write, IInv, TypeOK
<1>5. \A j \in Invoice \ {i} : row'[j] = row[j] /\ lock'[j] = lock[j]
  BY DEF Write, IInv, TypeOK
<1>6. tx'[w] = t /\ \A v \in Worker \ {w} : tx'[v] = tx[v]
  BY <1>1, <1>3
<1>7. Issued' = Issued /\ \A j : Exists(j)' = Exists(j)
  BY <1>3 DEF Issued, Exists
<1>8. TypeOK'
  BY <1>1, <1>2, <1>3 DEF IInv, TypeOK, Write
<1>9. PaidWithinTotal'
  BY <1>3, <1>4, <1>5 DEF IInv, PaidWithinTotal
<1>10. Bounded'
  BY <1>2, <1>6 DEF IInv, Bounded
<1>11. Lasting'
  BY <1>3, <1>4, <1>5, <1>7 DEF IInv, Lasting, Inserted
<1>12. Hidden'
  <2> SUFFICES ASSUME NEW j \in Invoice, Inserted(j)', ~Exists(j)'
               PROVE  lock'[j] \in Worker /\ tx'[lock'[j]].pc = "commit"
    BY DEF Hidden
  <2>1. CASE j = i
    BY <1>2, <1>4, <1>6, <1>7, <2>1
  <2>2. CASE j # i
    <3>1. lock'[j] = lock[j] /\ lock[j] \in Worker /\ tx[lock[j]].pc = "commit"
      BY <1>5, <1>7, <2>2 DEF IInv, Hidden, Inserted
    <3> QED
      BY <1>6, <3>1
  <2> QED
    BY <2>1, <2>2
<1>13. RowNumbers'
  BY <1>4, <1>5, <1>7 DEF IInv, RowNumbers, Inserted, Placed
<1>14. Distinct'
  BY <1>4, <1>5 DEF IInv, Distinct, Inserted
<1>15. Pendings'
  <2> SUFFICES ASSUME NEW v \in Worker, (tx[v].pc = "flush")', NEW j \in tx'[v].todo
               PROVE  /\ tx'[v].seen[j].status # "absent"
                      /\ tx'[v].op = "create" => Creates(tx[v], j)'
                      /\ tx'[v].op # "create" => Changes(tx[v], j)'
    BY DEF Pendings
  <2>1. /\ \A n : Placed(n)' = Placed(n)
        /\ \A k : Exists(k)' = Exists(k)
    BY <1>7 DEF Placed
  <2>2. CASE v # w
    BY <1>6, <2>1, <2>2 DEF IInv, Pendings, Creates, Changes
  <2>3. CASE v = w
    <3>1. j \in tx[w].todo /\ j # i
      BY <1>2, <1>6, <2>3
    <3>2. tx[w].op # "create"
      BY <3>1 DEF IInv, Pendings, Creates
    <3> QED
      BY <1>2, <1>6, <2>1, <2>3, <3>1, <3>2 DEF IInv, Pendings, Changes
  <2> QED
    BY <2>2, <2>3
<1> QED
  BY <1>8, <1>9, <1>10, <1>11, <1>12, <1>13, <1>14, <1>15 DEF IInv

\* An INSERT that meets no clash, committed or awaited, takes a free number.
LEMMA InsertStep ==
    ASSUME IInv, NEW w \in Worker, NEW i \in Invoice, Insert(w, i)
    PROVE  IInv'
<1> DEFINE new == tx[w].seen[i]
<1>1. /\ tx[w].pc = "flush" /\ tx[w].op = "create" /\ i \in tx[w].todo
      /\ AwaitsInsert(i, new.number, w) = {}
  BY DEF Insert
<1>2. CASE \E j \in Invoice : Exists(j) /\ Clash(i, new.number, j)
  <2>1. Rollback(w)
    BY <1>2 DEF Insert
  <2> QED
    BY <2>1, RollbackStep
<1>3. CASE ~\E j \in Invoice : Exists(j) /\ Clash(i, new.number, j)
  <2>1. Write(w, i, new)
    BY <1>3 DEF Insert
  <2>2. new \in Row /\ new.paid <= Total[i]
    BY DEF IInv, TypeOK, Tx, Bounded
  <2>3. new.status # "absent" /\ tx[w].todo = {i} /\ Placed(new.number)
    BY <1>1 DEF IInv, Pendings, Creates
  <2>4. ~Exists(i)
    BY <1>3 DEF Clash
  <2>5. ASSUME NEW j \in Invoice \ {i}, Inserted(j), Owner[i] = Owner[j]
        PROVE  row[j].number # new.number
    <3>1. CASE Exists(j)
      BY <1>3, <2>5, <3>1 DEF Clash
    <3>2. CASE ~Exists(j)
      <4>1. lock[j] \in Worker /\ tx[lock[j]].pc = "commit"
        BY <2>5, <3>2 DEF IInv, Hidden
      <4>2. Pending(w, j)
        BY <1>1, <3>2, <4>1, NoWorkerAssumption DEF Pending
      <4>3. ~Clash(i, new.number, j)
        BY <1>1, <4>2 DEF AwaitsInsert
      <4> QED
        BY <2>5, <4>3 DEF Clash
    <3> QED
      BY <3>1, <3>2
  <2> HIDE DEF new
  <2> QED
    BY <1>1, <2>1, <2>2, <2>3, <2>4, <2>5, WriteStep
<1> QED
  BY <1>2, <1>3

\* An UPDATE mixes the newest row with what the session wants written; either
\* amount is within the total, and the number is the one both have.
LEMMA FlushStep ==
    ASSUME IInv, NEW w \in Worker, NEW i \in Invoice, Flush(w, i)
    PROVE  IInv'
<1> DEFINE before == tx[w].base[i]
           after == tx[w].seen[i]
           new == Update(row[i], before, after)
<1>1. /\ tx[w].pc = "flush" /\ tx[w].op # "create" /\ i \in tx[w].todo
      /\ Write(w, i, new)
  BY DEF Flush
<1>2. row[i] \in Row /\ before \in Row /\ after \in Row
  BY DEF IInv, TypeOK, Tx
<1>3. row[i].paid <= Total[i] /\ after.paid <= Total[i]
  BY DEF IInv, PaidWithinTotal, Bounded
<1>4. Exists(i) /\ after.number = before.number /\ after.status # "absent"
  BY <1>1 DEF IInv, Pendings, Changes
<1>5. Inserted(i) /\ row[i].number = stable[i].number
  BY <1>4 DEF IInv, Lasting
<1> HIDE DEF before, after
<1>6. /\ new \in Row /\ new.paid <= Total[i] /\ new.status # "absent"
      /\ new.number = row[i].number
  BY <1>2, <1>3, <1>4, <1>5 DEF Update, Row, Inserted
<1>7. Placed(new.number)
  BY <1>5, <1>6 DEF IInv, RowNumbers
<1>8. \A j \in Invoice \ {i} : Inserted(j) /\ Owner[i] = Owner[j] => row[j].number # new.number
  BY <1>5, <1>6 DEF IInv, Distinct
<1> HIDE DEF new
<1> QED
  BY <1>1, <1>4, <1>5, <1>6, <1>7, <1>8, WriteStep

-----------------------------------------------------------------------------
\* Every step preserves the invariant.
LEMMA Preservation == ASSUME IInv, [Next]_vars PROVE IInv'
<1>1. ASSUME NEW w \in Worker, Request(w) PROVE IInv'
  BY <1>1, RequestPrepared, BeginStep
<1>2. ASSUME NEW w \in Worker, NEW i \in Invoice, Insert(w, i) PROVE IInv'
  BY <1>2, InsertStep
<1>3. ASSUME NEW w \in Worker, NEW i \in Invoice, Flush(w, i) PROVE IInv'
  BY <1>3, FlushStep
<1>4. ASSUME NEW w \in Worker, Commit(w) PROVE IInv'
  BY <1>4, CommitStep
<1>5. ASSUME NEW w \in Worker, Crash(w) \/ DeadlockVictim(w) PROVE IInv'
  BY <1>5, RollbackStep DEF Crash, DeadlockVictim
<1>6. CASE UNCHANGED vars
  BY <1>6 DEF vars, IInv, TypeOK, PaidWithinTotal, Bounded, Lasting, Hidden, RowNumbers,
              Distinct, Pendings, Creates, Changes, Placed, Inserted, Exists, Issued
<1> QED
  BY <1>1, <1>2, <1>3, <1>4, <1>5, <1>6 DEF Next, WorkerStep

LEMMA InitInvariant == ASSUME Init PROVE IInv
<1>1. \A i \in Invoice : stable[i] = Absent /\ row[i] = Absent
  BY DEF Init, Nothing
<1>2. TypeOK
  BY AbsentRow, IdleSession DEF Init, TypeOK
<1>3. PaidWithinTotal
  BY <1>1, TotalNat DEF PaidWithinTotal, Absent
<1>4. Bounded /\ Pendings
  BY IdleSession DEF Init, Bounded, Pendings
<1>5. \A i \in Invoice : ~Exists(i) /\ ~Inserted(i)
  BY <1>1 DEF Exists, Inserted, Absent
<1>6. Lasting /\ Hidden /\ RowNumbers /\ Distinct
  BY <1>5 DEF Lasting, Hidden, RowNumbers, Distinct
<1> QED
  BY <1>2, <1>3, <1>4, <1>6 DEF IInv

\* The strengthened invariant: every operation preserves it.
THEOREM Invariance == Spec => []IInv
<1>1. Init => IInv
  BY InitInvariant
<1>2. IInv /\ [Next]_vars => IInv'
  BY Preservation
<1> QED
  BY <1>1, <1>2, PTL DEF Spec

\* Type correctness.
THEOREM TypeCorrect == Spec => []TypeOK
<1>1. IInv => TypeOK
  BY DEF IInv
<1> QED
  BY <1>1, Invariance, PTL

\* No interleaving of payments, cancellations, patches and overdue checks makes
\* an invoice paid beyond its total: the CHECK constraint is never met.
THEOREM NeverOverpaid == Spec => []PaidWithinTotal
<1>1. IInv => PaidWithinTotal
  BY DEF IInv
<1> QED
  BY <1>1, Invariance, PTL

\* However creations race, fail and crash, the committed numbers have no hole and
\* are different within a tenant.
THEOREM NumberingHolds == Spec => []Numbering
<1>1. IInv => Numbering
  <2> SUFFICES ASSUME IInv PROVE Numbering
    OBVIOUS
  <2>1. ASSUME NEW n \in Issued PROVE n \in 1..MaxNumber /\ 1..n \subseteq Issued
    <3>1. PICK i \in Invoice : Exists(i) /\ n = stable[i].number
      BY <2>1 DEF Issued
    <3>2. Placed(n)
      BY <3>1 DEF IInv, Lasting, RowNumbers
    <3>3. n \in Nat /\ \A m \in 1..n : m = n \/ m \in 1..(n - 1)
      BY <3>2, MaxNumberAssumption DEF Placed
    <3> QED
      BY <2>1, <3>2, <3>3 DEF Placed
  <2>2. ASSUME NEW i \in Invoice, NEW j \in Invoice, Exists(i), Exists(j),
               Owner[i] = Owner[j], i # j
        PROVE  stable[i].number # stable[j].number
    BY <2>2 DEF IInv, Lasting, Distinct
  <2> QED
    BY <2>1, <2>2 DEF Numbering
<1> QED
  BY <1>1, Invariance, PTL

-----------------------------------------------------------------------------
(* Off the races.                                                          *)

\* Without a lock there is one version of a row.
OneVersion == \A i \in Invoice : lock[i] = NoWorker => row[i] = stable[i]

\* What the holder of a lock made of the row.
Holds(t, i) ==
    /\ t.pc # "idle" /\ i \notin t.todo /\ Inserted(i)
    /\ t.base[i] = stable[i] => row[i] = t.seen[i]
Held == \A w \in Worker, i \in Invoice : lock[i] = w => Holds(tx[w], i)

\* Nobody has loaded a settled invoice, and only payments change an amount.
Loads(t, i) == ~Settled(i, t.base[i]) /\ (t.op # "pay" => t.seen[i].paid = t.base[i].paid)
Loaded == \A w \in Worker, i \in Invoice : Loads(tx[w], i)

Unborn == \A i \in Invoice : ~Exists(i) => stable[i].paid = 0

LInv == IInv /\ OneVersion /\ Held /\ Loaded /\ Unborn

HInv == LInv /\ PaymentsAddUpUnlessRaced

-----------------------------------------------------------------------------
LEMMA IdleLoads == ASSUME NEW i \in Invoice PROVE Loads(IdleTx, i)
BY DEF Loads, IdleTx, Nothing, Absent, Settled

\* No worker has the name that marks a free row.
LEMMA NotFree == \A w \in Worker : w # NoWorker
BY NoWorkerAssumption

LEMMA BeginKeeps ==
    ASSUME LInv, NEW w \in Worker, NEW op, NEW after, Begin(w, op, after), Prepared(op, after), IInv'
    PROVE  LInv'
<1> DEFINE base == [i \in Invoice |-> IF i \in DOMAIN after THEN stable[i] ELSE Absent]
           seen == [i \in Invoice |-> IF i \in DOMAIN after THEN after[i] ELSE Absent]
<1>1. /\ tx[w].pc = "idle" /\ stable' = stable /\ row' = row /\ lock' = lock
      /\ tx'[w].op = op /\ tx'[w].base = base /\ tx'[w].seen = seen
      /\ \A v \in Worker \ {w} : tx'[v] = tx[v]
  BY DEF Begin, LInv, IInv, TypeOK
<1>2. ASSUME NEW i \in Invoice
      PROVE  ~Settled(i, base[i]) /\ (op # "pay" => seen[i].paid = base[i].paid)
  <2>1. CASE i \notin DOMAIN after
    <3>1. base[i] = Absent /\ seen[i] = Absent
      BY <2>1
    <3> QED
      BY <3>1 DEF Settled, Absent
  <2>2. CASE i \in DOMAIN after
    <3>1. base[i] = stable[i] /\ seen[i] = after[i]
      BY <2>2
    <3>2. op = "create" => after[i].paid = stable[i].paid
      BY <2>2 DEF Prepared, LInv, Unborn
    <3>3. ~Settled(i, stable[i])
      BY <2>2 DEF Prepared
    <3>4. op \notin {"create", "pay"} => after[i].paid = stable[i].paid
      BY <2>2 DEF Prepared
    <3> QED
      BY <3>1, <3>2, <3>3, <3>4
  <2> QED
    BY <2>1, <2>2
<1> HIDE DEF base, seen
<1>3. Loaded'
  <2> SUFFICES ASSUME NEW v \in Worker, NEW i \in Invoice PROVE Loads(tx[v], i)'
    BY DEF Loaded
  <2>1. CASE v = w
    BY <1>1, <1>2, <2>1 DEF Loads, Settled
  <2>2. CASE v # w
    BY <1>1, <2>2 DEF LInv, Loaded, Loads, Settled
  <2> QED
    BY <2>1, <2>2
<1>4. Held'
  BY <1>1 DEF LInv, Held, Holds, Inserted
<1>5. OneVersion' /\ Unborn'
  BY <1>1 DEF LInv, OneVersion, Unborn, Exists
<1> QED
  BY <1>3, <1>4, <1>5 DEF LInv

LEMMA RollbackKeeps ==
    ASSUME LInv, NEW w \in Worker, Rollback(w), IInv'
    PROVE  LInv'
<1>1. stable' = stable /\ tx'[w] = IdleTx /\ \A v \in Worker \ {w} : tx'[v] = tx[v]
  BY DEF Rollback, LInv, IInv, TypeOK
<1>2. \A i \in Invoice : IF lock[i] = w THEN row'[i] = stable[i] /\ lock'[i] = NoWorker
                                        ELSE row'[i] = row[i] /\ lock'[i] = lock[i]
  BY DEF Rollback
<1>3. OneVersion' /\ Unborn'
  BY <1>1, <1>2 DEF LInv, OneVersion, Unborn, Exists
<1>4. Held'
  <2> SUFFICES ASSUME NEW v \in Worker, NEW i \in Invoice, lock'[i] = v PROVE Holds(tx[v], i)'
    BY DEF Held
  <2>1. lock[i] = v /\ v # w /\ row'[i] = row[i]
    BY <1>2, NotFree
  <2> QED
    BY <1>1, <2>1 DEF LInv, Held, Holds, Inserted
<1>5. Loaded'
  BY <1>1, IdleLoads DEF LInv, Loaded, Loads, Settled
<1> QED
  BY <1>3, <1>4, <1>5 DEF LInv

LEMMA CommitKeeps ==
    ASSUME LInv, NEW w \in Worker, Commit(w), IInv'
    PROVE  LInv'
<1>1. row' = row /\ tx'[w] = IdleTx /\ \A v \in Worker \ {w} : tx'[v] = tx[v]
  BY DEF Commit, LInv, IInv, TypeOK
<1>2. \A i \in Invoice : IF lock[i] = w THEN stable'[i] = row[i] /\ lock'[i] = NoWorker
                                        ELSE stable'[i] = stable[i] /\ lock'[i] = lock[i]
  BY DEF Commit
<1>3. OneVersion'
  BY <1>1, <1>2 DEF LInv, OneVersion
<1>4. Unborn'
  BY <1>2 DEF LInv, Unborn, Held, Holds, Inserted, Exists
<1>5. Held'
  <2> SUFFICES ASSUME NEW v \in Worker, NEW i \in Invoice, lock'[i] = v PROVE Holds(tx[v], i)'
    BY DEF Held
  <2>1. lock[i] = v /\ v # w /\ stable'[i] = stable[i]
    BY <1>2, NotFree
  <2> QED
    BY <1>1, <2>1 DEF LInv, Held, Holds, Inserted
<1>6. Loaded'
  BY <1>1, IdleLoads DEF LInv, Loaded, Loads, Settled
<1> QED
  BY <1>3, <1>4, <1>5, <1>6 DEF LInv

\* A statement that writes what the session says, unless the row was committed
\* again since the session loaded it.
LEMMA WriteKeeps ==
    ASSUME LInv, NEW w \in Worker, NEW i \in Invoice, NEW new \in Row, Write(w, i, new), IInv',
           tx[w].pc = "flush", new.status # "absent",
           tx[w].base[i] = stable[i] => new = tx[w].seen[i]
    PROVE  LInv'
<1>1. tx[w] \in Tx
  BY DEF LInv, IInv, TypeOK
<1>2. /\ tx'[w].op = tx[w].op /\ tx'[w].base = tx[w].base /\ tx'[w].seen = tx[w].seen
      /\ tx'[w].todo = tx[w].todo \ {i} /\ tx'[w].pc \in {"flush", "commit"}
      /\ \A v \in Worker \ {w} : tx'[v] = tx[v]
  BY <1>1 DEF Write, Tx, LInv, IInv, TypeOK
<1>3. stable' = stable /\ row'[i] = new /\ lock'[i] = w
  BY DEF Write, LInv, IInv, TypeOK
<1>4. \A j \in Invoice \ {i} : row'[j] = row[j] /\ lock'[j] = lock[j]
  BY DEF Write, LInv, IInv, TypeOK
<1>5. OneVersion' /\ Unborn'
  BY <1>3, <1>4, NotFree DEF LInv, OneVersion, Unborn, Exists
<1>6. Held'
  <2> SUFFICES ASSUME NEW v \in Worker, NEW j \in Invoice, lock'[j] = v PROVE Holds(tx[v], j)'
    BY DEF Held
  <2>1. CASE j = i
    BY <1>2, <1>3, <2>1 DEF Holds, Inserted
  <2>2. CASE j # i /\ v = w
    BY <1>2, <1>3, <1>4, <2>2 DEF LInv, Held, Holds, Inserted
  <2>3. CASE j # i /\ v # w
    BY <1>2, <1>3, <1>4, <2>3 DEF LInv, Held, Holds, Inserted
  <2> QED
    BY <2>1, <2>2, <2>3
<1>7. Loaded'
  BY <1>2 DEF LInv, Loaded, Loads, Settled
<1> QED
  BY <1>5, <1>6, <1>7 DEF LInv

LEMMA InsertKeeps ==
    ASSUME LInv, NEW w \in Worker, NEW i \in Invoice, Insert(w, i), IInv'
    PROVE  LInv'
<1>1. CASE Rollback(w)
  BY <1>1, RollbackKeeps
<1>2. CASE Write(w, i, tx[w].seen[i])
  <2>1. tx[w].pc = "flush" /\ tx[w].seen[i].status # "absent"
    BY DEF Insert, LInv, IInv, Pendings
  <2>2. tx[w].seen[i] \in Row
    BY DEF LInv, IInv, TypeOK, Tx
  <2> QED
    BY <1>2, <2>1, <2>2, WriteKeeps
<1> QED
  BY <1>1, <1>2 DEF Insert

LEMMA FlushKeeps ==
    ASSUME LInv, NEW w \in Worker, NEW i \in Invoice, Flush(w, i), IInv'
    PROVE  LInv'
<1> DEFINE before == tx[w].base[i]
           after == tx[w].seen[i]
           new == Update(row[i], before, after)
<1>1. /\ tx[w].pc = "flush" /\ tx[w].op # "create" /\ i \in tx[w].todo
      /\ Write(w, i, new) /\ lock[i] \in {NoWorker, w}
  BY DEF Flush, LockFree
<1>2. row[i] \in Row /\ before \in Row /\ after \in Row
  BY DEF LInv, IInv, TypeOK, Tx
<1>3. row[i] = stable[i]
  BY <1>1 DEF LInv, OneVersion, Held, Holds
<1>4. Inserted(i) /\ after.status # "absent"
  BY <1>1 DEF LInv, IInv, Pendings, Changes, Lasting
<1> HIDE DEF before, after
<1>5. new \in Row /\ new.status # "absent"
  BY <1>2, <1>4 DEF Update, Row, Inserted
<1>6. before = stable[i] => new = after
  BY <1>2, <1>3 DEF Update, Row
<1> QED
  BY <1>1, <1>5, <1>6, WriteKeeps DEF before, after

\* Every step of Invoices preserves what locks and sessions say.
LEMMA LockPreservation == ASSUME LInv, [Next]_vars PROVE LInv'
<1>1. IInv'
  BY Preservation DEF LInv
<1>2. ASSUME NEW w \in Worker, Request(w) PROVE LInv'
  BY <1>1, <1>2, RequestPrepared, BeginKeeps DEF LInv
<1>3. ASSUME NEW w \in Worker, NEW i \in Invoice, Insert(w, i) PROVE LInv'
  BY <1>1, <1>3, InsertKeeps
<1>4. ASSUME NEW w \in Worker, NEW i \in Invoice, Flush(w, i) PROVE LInv'
  BY <1>1, <1>4, FlushKeeps
<1>5. ASSUME NEW w \in Worker, Commit(w) PROVE LInv'
  BY <1>1, <1>5, CommitKeeps
<1>6. ASSUME NEW w \in Worker, Crash(w) \/ DeadlockVictim(w) PROVE LInv'
  BY <1>1, <1>6, RollbackKeeps DEF Crash, DeadlockVictim
<1>7. CASE UNCHANGED vars
  BY <1>1, <1>7 DEF vars, LInv, OneVersion, Held, Holds, Loaded, Loads, Settled, Unborn,
                    Inserted, Exists
<1> QED
  BY <1>2, <1>3, <1>4, <1>5, <1>6, <1>7 DEF Next, WorkerStep

\* Committed rows change in commits only.
LEMMA OnlyCommitsCount ==
    ASSUME LInv, [Next]_vars, stable' # stable
    PROVE  \E w \in Worker : Commit(w)
<1>1. ASSUME NEW w \in Worker, Request(w) PROVE stable' = stable
  BY <1>1, RequestPrepared DEF LInv, Begin
<1>2. ASSUME NEW w \in Worker, NEW i \in Invoice, Insert(w, i) \/ Flush(w, i)
      PROVE  stable' = stable
  BY <1>2 DEF Insert, Flush, Write, Rollback
<1>3. ASSUME NEW w \in Worker, Crash(w) \/ DeadlockVictim(w) PROVE stable' = stable
  BY <1>3 DEF Crash, DeadlockVictim, Rollback
<1> QED
  BY <1>1, <1>2, <1>3 DEF Next, WorkerStep, vars

\* A commit of w is nobody else's: it commits the rows w has locked.
LEMMA CommitIsOwn ==
    ASSUME LInv, NEW w \in Worker, Commit(w), NEW v \in Worker, NEW i \in Invoice
    PROVE  Commits(v, i) <=> v = w /\ lock[i] = w
<1>1. tx[w].pc = "commit" /\ tx' = [tx EXCEPT ![w] = IdleTx]
  BY DEF Commit
<1>2. CASE v = w
  BY <1>1, <1>2 DEF Commits
<1>3. CASE v # w
  <2>1. tx'[v] = tx[v]
    BY <1>1, <1>3 DEF LInv, IInv, TypeOK
  <2>2. ASSUME Commits(v, i) PROVE FALSE
    <3>1. tx[v].pc = "commit" /\ tx' = [tx EXCEPT ![v] = IdleTx]
      BY <2>2 DEF Commits, Commit
    <3>2. tx'[v] = IdleTx
      BY <3>1 DEF LInv, IInv, TypeOK
    <3> QED
      BY <2>1, <3>1, <3>2, IdleSession
  <2> QED
    BY <1>3, <2>2
<1> QED
  BY <1>2, <1>3

-----------------------------------------------------------------------------
\* A commit that races with nothing adds to the row what it acknowledges.
LEMMA MoneyStep ==
    ASSUME HInv, HNext, NEW i \in Invoice, i \notin raced'
    PROVE  stable'[i].paid = received'[i]
<1>1. i \notin raced /\ stable[i].paid = received[i] /\ LInv /\ [Next]_vars
  BY DEF HNext, HInv, PaymentsAddUpUnlessRaced
<1>2. CASE \E w \in Worker : Commits(w, i)
  <2>1. PICK w \in Worker : Commits(w, i)
    BY <1>2
  <2>2. Commit(w) /\ lock[i] = w
    BY <2>1 DEF Commits
  <2>3. \A v \in Worker : Commits(v, i) => v = w
    BY <1>1, <2>2, CommitIsOwn
  <2>4. (CHOOSE v \in Worker : Commits(v, i)) = w
    BY <2>1, <2>3
  <2>5. received'[i] = received[i] + Amount(w, i)
    BY <1>1, <1>2, <2>4 DEF HNext
  <2>6. tx[w].base[i] = stable[i]
    BY <2>1 DEF HNext
  <2>7. stable'[i] = row[i] /\ row[i] = tx[w].seen[i]
    BY <1>1, <2>2, <2>6 DEF Commit, LInv, Held, Holds
  <2>8. Amount(w, i) = tx[w].seen[i].paid - tx[w].base[i].paid
    <3>1. tx[w].seen[i].paid \in Nat /\ tx[w].base[i].paid \in Nat
      BY <1>1 DEF LInv, IInv, TypeOK, Tx, Row
    <3>2. tx[w].op # "pay" => tx[w].seen[i].paid = tx[w].base[i].paid
      BY <1>1 DEF LInv, Loaded, Loads
    <3> QED
      BY <3>1, <3>2 DEF Amount
  <2>9. stable[i].paid \in Nat /\ tx[w].seen[i].paid \in Nat
    BY <1>1 DEF LInv, IInv, TypeOK, Tx, Row
  <2> QED
    BY <1>1, <2>5, <2>6, <2>7, <2>8, <2>9
<1>3. CASE ~\E w \in Worker : Commits(w, i)
  <2>1. received'[i] = received[i]
    BY <1>3 DEF HNext
  <2>2. stable'[i] = stable[i]
    <3>1. CASE stable' = stable
      BY <3>1
    <3>2. CASE stable' # stable
      <4>1. PICK w \in Worker : Commit(w)
        BY <1>1, <3>2, OnlyCommitsCount
      <4>2. lock[i] # w
        BY <1>1, <1>3, <4>1, CommitIsOwn
      <4> QED
        BY <4>1, <4>2 DEF Commit
    <3> QED
      BY <3>1, <3>2
  <2> QED
    BY <1>1, <2>1, <2>2
<1> QED
  BY <1>2, <1>3

LEMMA HistoryPreservation == ASSUME HInv, [HNext]_hvars PROVE HInv'
<1>1. [Next]_vars
  BY DEF HNext, hvars
<1>2. LInv'
  BY <1>1, LockPreservation DEF HInv
<1>3. CASE HNext
  <2>1. \A i \in Invoice \ raced' : stable'[i].paid = received'[i]
    BY <1>3, MoneyStep
  <2> QED
    BY <1>2, <2>1 DEF HInv, PaymentsAddUpUnlessRaced
<1>4. CASE UNCHANGED hvars
  BY <1>2, <1>4 DEF hvars, vars, HInv, PaymentsAddUpUnlessRaced
<1> QED
  BY <1>3, <1>4

THEOREM HistoryInvariance == HSpec => []HInv
<1>1. HInit => HInv
  <2> SUFFICES ASSUME HInit PROVE HInv
    OBVIOUS
  <2>1. Init /\ IInv
    BY InitInvariant DEF HInit
  <2>2. /\ \A w \in Worker : tx[w] = IdleTx
        /\ \A i \in Invoice : lock[i] = NoWorker /\ row[i] = stable[i] /\ stable[i].paid = 0
    BY <2>1 DEF Init, Nothing, Absent
  <2>3. OneVersion /\ Held /\ Unborn
    BY <2>2, NotFree DEF OneVersion, Held, Unborn
  <2>4. Loaded
    BY <2>2, IdleLoads DEF Loaded
  <2>5. PaymentsAddUpUnlessRaced
    BY <2>2 DEF HInit, PaymentsAddUpUnlessRaced
  <2> QED
    BY <2>1, <2>3, <2>4, <2>5 DEF HInv, LInv
<1>2. HInv /\ [HNext]_hvars => HInv'
  BY HistoryPreservation
<1> QED
  BY <1>1, <1>2, PTL DEF HSpec

\* Off the races, paid_amount is what the clients were told was paid.
THEOREM PaymentsAddUp == HSpec => []PaymentsAddUpUnlessRaced
<1>1. HInv => PaymentsAddUpUnlessRaced
  BY DEF HInv
<1> QED
  BY <1>1, HistoryInvariance, PTL

\* Off the races, a settled invoice never changes again.
THEOREM SettledIsFinal == HSpec => SettledIsFinalUnlessRaced
<1> DEFINE Final == \A i \in Invoice \ raced' :
                      stable[i].status = "paid" /\ stable[i].paid = Total[i] => stable'[i] = stable[i]
<1>1. ASSUME HInv, [HNext]_hvars PROVE [Final]_hvars
  <2> SUFFICES ASSUME HNext, NEW i \in Invoice, i \notin raced',
                      stable[i].status = "paid", stable[i].paid = Total[i]
               PROVE  stable'[i] = stable[i]
    BY <1>1
  <2>1. LInv /\ [Next]_vars
    BY <1>1 DEF HInv, HNext
  <2>2. CASE stable' = stable
    BY <2>2
  <2>3. CASE stable' # stable
    <3>1. PICK w \in Worker : Commit(w)
      BY <2>1, <2>3, OnlyCommitsCount
    <3>2. ASSUME lock[i] = w PROVE FALSE
      <4>1. Commits(w, i)
        BY <2>1, <3>1, <3>2, CommitIsOwn
      <4>2. tx[w].base[i] = stable[i]
        BY <4>1 DEF HNext
      <4>3. ~Settled(i, tx[w].base[i])
        BY <2>1 DEF LInv, Loaded, Loads
      <4> QED
        BY <4>2, <4>3 DEF Settled
    <3> QED
      BY <3>1, <3>2 DEF Commit
  <2> QED
    BY <2>2, <2>3
<1> QED
  BY <1>1, HistoryInvariance, PTL DEF HSpec, SettledIsFinalUnlessRaced

=============================================================================
