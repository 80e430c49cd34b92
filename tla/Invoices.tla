------------------------------ MODULE Invoices ------------------------------
(***************************************************************************)
(* Invoices under concurrent requests: creation from a reservation with    *)
(* its number, payments, PATCH, cancellation and the overdue check.  Every *)
(* handler reads the committed rows with plain SELECTs, decides in Python, *)
(* flushes the changed columns and commits; nothing is locked before the   *)
(* flush, and a row has no version column.                                 *)
(*                                                                         *)
(* The database is that of StockReservation: `stable' is the committed     *)
(* version of each row, `row' the newest one, which only the holder of     *)
(* `lock' has changed.  A session tx[w] holds what it loaded (`base') and  *)
(* what it is going to write (`seen') for the invoices still in `todo'.    *)
(* Invoices are not in the cache: a row with dates is not serialisable.    *)
(* All invoices are of one year, in which their numbers count from 1.      *)
(***************************************************************************)
EXTENDS Integers, FiniteSets

CONSTANTS
    Worker,         \* threads serving requests
    Invoice,        \* invoices, one for each reservation that can have one
    Owner,          \* Owner[i]: the tenant of i
    Total,          \* Total[i]: total_amount of the reservation of i
    Amounts,        \* amounts of the payments tried
    PatchStatuses,  \* statuses PATCH bodies carry
    MaxNumber,      \* the last counter value the scan tries (9999)
    NoWorker

ASSUME TotalAssumption == Total \in [Invoice -> Nat]
ASSUME AmountsAssumption == Amounts \subseteq Nat \ {0}
ASSUME MaxNumberAssumption == MaxNumber \in Nat
ASSUME NoWorkerAssumption == NoWorker \notin Worker

InvoiceStatus == {"draft", "sent", "paid", "overdue", "cancelled"}
ASSUME PatchAssumption == PatchStatuses \subseteq InvoiceStatus

\* "absent": the reservation has no invoice yet.
Row == [status : InvoiceStatus \cup {"absent"}, paid : Nat, number : Nat]

VARIABLES
    stable,     \* invoice rows, last committed version
    row,        \* invoice rows, newest version
    lock,       \* holder of each row's lock
    tx          \* the request and session of each worker

vars == <<stable, row, lock, tx>>

Ops == {"none", "create", "pay", "patch", "cancel", "overdue"}

Tx == [pc : {"idle", "flush", "commit"},
       op : Ops,
       todo : SUBSET Invoice,       \* rows still to flush
       base : [Invoice -> Row],     \* as loaded, Absent where nothing was
       seen : [Invoice -> Row]]     \* as to be written

Absent == [status |-> "absent", paid |-> 0, number |-> 0]
Nothing == [i \in Invoice |-> Absent]

IdleTx == [pc |-> "idle", op |-> "none", todo |-> {}, base |-> Nothing, seen |-> Nothing]

Init ==
    /\ stable = Nothing
    /\ row = Nothing
    /\ lock = [i \in Invoice |-> NoWorker]
    /\ tx = [w \in Worker |-> IdleTx]

-----------------------------------------------------------------------------
(* The session and the database.                                           *)

\* Mutant of Update: UPDATE ... SET paid_amount = paid_amount + amount, without
\* checking the total again.
UpdateIncrement(current, before, after) ==
    [status |-> IF after.status # before.status THEN after.status ELSE current.status,
     paid   |-> current.paid + (after.paid - before.paid),
     number |-> IF after.number # before.number THEN after.number ELSE current.number]

\* UPDATE of the columns in which the instance differs from what was loaded.
Update(current, before, after) ==
    [status |-> IF after.status # before.status THEN after.status ELSE current.status,
     paid   |-> IF after.paid # before.paid THEN after.paid ELSE current.paid,
     number |-> IF after.number # before.number THEN after.number ELSE current.number]

Exists(i) == stable[i].status # "absent"

LockFree(w, i) == lock[i] \in {NoWorker, w}

\* Mutant of Rollback: the error path commits what was flushed so far.
RollbackKeepsFlushed(w) ==
    /\ stable' = row
    /\ lock' = [i \in Invoice |-> IF lock[i] = w THEN NoWorker ELSE lock[i]]
    /\ tx' = [tx EXCEPT ![w] = IdleTx]
    /\ UNCHANGED row

\* Mutant of Rollback: the session is dropped without being closed.
RollbackNotClosed(w) ==
    /\ tx' = [tx EXCEPT ![w] = IdleTx]
    /\ UNCHANGED <<stable, row, lock>>

\* The session is closed without a commit: every uncommitted version is dropped.
Rollback(w) ==
    /\ row' = [i \in Invoice |-> IF lock[i] = w THEN stable[i] ELSE row[i]]
    /\ lock' = [i \in Invoice |-> IF lock[i] = w THEN NoWorker ELSE lock[i]]
    /\ tx' = [tx EXCEPT ![w] = IdleTx]
    /\ UNCHANGED stable

Commit(w) ==
    /\ tx[w].pc = "commit"
    /\ stable' = [i \in Invoice |-> IF lock[i] = w THEN row[i] ELSE stable[i]]
    /\ lock' = [i \in Invoice |-> IF lock[i] = w THEN NoWorker ELSE lock[i]]
    /\ tx' = [tx EXCEPT ![w] = IdleTx]
    /\ UNCHANGED row

\* The statement for invoice i: its row becomes `new', under the row lock.
Write(w, i, new) ==
    /\ row' = [row EXCEPT ![i] = new]
    /\ lock' = [lock EXCEPT ![i] = w]
    /\ tx' = [tx EXCEPT ![w] =
                [tx[w] EXCEPT !.todo = tx[w].todo \ {i},
                              !.pc = IF tx[w].todo = {i} THEN "commit" ELSE "flush"]]
    /\ UNCHANGED stable

-----------------------------------------------------------------------------
(* The handlers up to their flush.  A refused request changes nothing and  *)
(* is no step.                                                             *)

\* w loads the invoices in the domain of `after', to write them as it says.
Begin(w, op, after) ==
    /\ tx[w].pc = "idle"
    /\ tx' = [tx EXCEPT ![w] =
                [pc |-> "flush", op |-> op, todo |-> DOMAIN after,
                 base |-> [i \in Invoice |-> IF i \in DOMAIN after THEN stable[i] ELSE Absent],
                 seen |-> [i \in Invoice |-> IF i \in DOMAIN after THEN after[i] ELSE Absent]]]
    /\ UNCHANGED <<stable, row, lock>>

\* Mutant of Issued: a counter that uncommitted invoices have advanced already.
IssuedOrPending == {row[i].number : i \in {j \in Invoice : row[j].status # "absent"}}

\* The numbers a SELECT finds.
Issued == {stable[i].number : i \in {j \in Invoice : Exists(j)}}

\* generate_invoice_number: the first counter value no committed invoice of
\* any tenant has.  Each probe is a SELECT of its own, but issued numbers stay
\* issued, so the scan ends where one look at its last moment would.
Scanned(n) == n \notin Issued /\ 1..(n - 1) \subseteq Issued

BeginCreate(w, i) ==
    /\ ~Exists(i)
    /\ \E n \in 1..MaxNumber :
         /\ Scanned(n)
         /\ Begin(w, "create", [j \in {i} |-> [status |-> "draft", paid |-> 0, number |-> n]])

\* add_payment: a payment that settles the total sets the status, whatever it was.
Paid(i, r, a) ==
    [r EXCEPT !.paid = r.paid + a,
              !.status = IF r.paid + a >= Total[i] THEN "paid" ELSE r.status]

BeginPay(w, i, a) ==
    /\ Exists(i)
    /\ stable[i].status # "cancelled"
    /\ stable[i].paid + a <= Total[i]
    /\ Begin(w, "pay", [j \in {i} |-> Paid(j, stable[j], a)])

WithStatus(S, s) == [j \in S |-> [stable[j] EXCEPT !.status = s]]

\* update_invoice: any status may follow any but PAID.  A body with the current
\* status stands for one that changes the dates only: it writes the row, too.
BeginPatch(w, i, s) ==
    /\ Exists(i)
    /\ stable[i].status # "paid"
    /\ Begin(w, "patch", WithStatus({i}, s))

\* Mutant of BeginCancel: the wrong enumeration, ReservationStatus.
BeginCancelReturned(w, i) ==
    /\ Exists(i)
    /\ stable[i].status \notin {"paid", "cancelled"}
    /\ Begin(w, "cancel", WithStatus({i}, "returned"))

\* cancel_invoice; cancelling again would write nothing.
BeginCancel(w, i) ==
    /\ Exists(i)
    /\ stable[i].status \notin {"paid", "cancelled"}
    /\ Begin(w, "cancel", WithStatus({i}, "cancelled"))

\* Mutant of Unpaid: <= for <.
UnpaidOrSettled(i) == Exists(i) /\ stable[i].paid <= Total[i] /\ stable[i].status # "cancelled"

\* list_overdue: the due date may be anything, and so may as_of_date.
Unpaid(i) == Exists(i) /\ stable[i].paid < Total[i] /\ stable[i].status # "cancelled"

\* check_overdue_invoices: one query for the tenant, then an UPDATE for each
\* invoice that is not yet marked, in the order of due dates.
BeginOverdue(w, S) ==
    /\ S # {}
    /\ \A i \in S : Unpaid(i) /\ stable[i].status # "overdue"
    /\ \A i, j \in S : Owner[i] = Owner[j]
    /\ Begin(w, "overdue", WithStatus(S, "overdue"))

-----------------------------------------------------------------------------
(* The flush.                                                              *)

\* Two rows a unique constraint forbids: one invoice for a reservation, one
\* number in a tenant.
Clash(i, n, j) == i = j \/ (Owner[i] = Owner[j] /\ row[j].number = n)

\* Inserted and not committed: an INSERT that clashes with it waits.
Pending(w, j) == ~Exists(j) /\ lock[j] \notin {NoWorker, w}

AwaitsInsert(i, n, w) == {lock[j] : j \in {k \in Invoice : Pending(w, k) /\ Clash(i, n, k)}}

Insert(w, i) ==
    LET new == tx[w].seen[i]
    IN  /\ tx[w].pc = "flush" /\ tx[w].op = "create" /\ i \in tx[w].todo
        /\ AwaitsInsert(i, new.number, w) = {}
        /\ IF \E j \in Invoice : Exists(j) /\ Clash(i, new.number, j)
             THEN Rollback(w)                       \* IntegrityError: 500
             ELSE Write(w, i, new)

\* CHECK (paid_amount <= total_amount) is not here: PaidWithinTotal shows that
\* no UPDATE of these handlers can meet it.
Flush(w, i) ==
    /\ tx[w].pc = "flush" /\ tx[w].op # "create" /\ i \in tx[w].todo
    /\ LockFree(w, i)
    /\ Write(w, i, Update(row[i], tx[w].base[i], tx[w].seen[i]))

-----------------------------------------------------------------------------
(* The environment.                                                        *)

\* A dead process or connection, and any other failure before the commit (a
\* PATCH of the dates that breaks their CHECK, for one).
Crash(w) ==
    /\ tx[w].pc # "idle"
    /\ Rollback(w)

\* The workers one of whose locks w needs before it can go on.
Blockers(w) ==
    IF tx[w].pc # "flush" THEN {}
    ELSE IF tx[w].op = "create"
           THEN UNION {AwaitsInsert(i, tx[w].seen[i].number, w) : i \in tx[w].todo}
           ELSE IF \E i \in tx[w].todo : LockFree(w, i) THEN {}
                                         ELSE {lock[i] : i \in tx[w].todo}

\* PostgreSQL's deadlock detector aborts a transaction on a cycle of waits.
DeadlockVictim(w) ==
    /\ \E S \in SUBSET Worker :
         w \in S /\ \A v \in S : Blockers(v) # {} /\ Blockers(v) \subseteq S
    /\ Rollback(w)

-----------------------------------------------------------------------------
Request(w) ==
    \/ \E i \in Invoice :
         \/ BeginCreate(w, i) \/ BeginCancel(w, i)
         \/ \E a \in Amounts : BeginPay(w, i, a)
         \/ \E s \in PatchStatuses : BeginPatch(w, i, s)
    \/ \E S \in SUBSET Invoice : BeginOverdue(w, S)

WorkerStep(w) ==
    \/ \E i \in Invoice : Insert(w, i) \/ Flush(w, i)
    \/ Commit(w)

Next == \E w \in Worker : Request(w) \/ WorkerStep(w) \/ Crash(w) \/ DeadlockVictim(w)

Spec == Init /\ [][Next]_vars

\* As in StockReservation: threads run on, waiters are queued, the detector runs.
Fairness == \A w \in Worker : SF_vars(WorkerStep(w)) /\ WF_vars(DeadlockVictim(w))

FairSpec == Spec /\ Fairness
-----------------------------------------------------------------------------
\* The variables keep their types.
TypeOK ==
    /\ stable \in [Invoice -> Row]
    /\ row \in [Invoice -> Row]
    /\ lock \in [Invoice -> Worker \cup {NoWorker}]
    /\ tx \in [Worker -> Tx]

\* Payments that race overwrite each other, and a final status can be
\* overwritten, yet no version of an invoice is ever paid beyond its total,
\* without the help of the CHECK constraint.
PaidWithinTotal ==
    \A i \in Invoice : stable[i].paid <= Total[i] /\ row[i].paid <= Total[i]

\* Requests that fail, or race for a number, leave no gap and no duplicate: the
\* numbers of the committed invoices are always 1, 2, ... without a hole, and
\* different ones within a tenant.
Numbering ==
    /\ \A n \in Issued : n \in 1..MaxNumber /\ 1..n \subseteq Issued
    /\ \A i, j \in Invoice :
         Exists(i) /\ Exists(j) /\ Owner[i] = Owner[j] /\ i # j =>
           stable[i].number # stable[j].number

\* The overdue check locks many rows in an order another one may not share, and
\* an INSERT waits for the end of one it clashes with: no request stays blocked.
EveryRequestEnds ==
    \A w \in Worker : tx[w].pc # "idle" ~> tx[w].pc = "idle"
=============================================================================
