---------------------------- MODULE StockLedger -----------------------------
(***************************************************************************)
(* What the reservation workflow promises: a ledger in which confirming a  *)
(* draft takes all of its lines from the stock at once, cancelling a       *)
(* confirmed reservation gives all of them back, and nothing else moves    *)
(* stock.  CANCELLED is final.                                             *)
(***************************************************************************)
EXTENDS Integers

CONSTANTS Product, Reservation, Quantity, Stock, Drafted

VARIABLES avail, state

lvars == <<avail, state>>

LInit ==
    /\ avail = Stock
    /\ state = [r \in Reservation |-> IF r \in Drafted THEN "draft" ELSE "absent"]

Move(r, from, to) == state[r] = from /\ state' = [state EXCEPT ![r] = to]

Open(r) == Move(r, "absent", "draft") /\ UNCHANGED avail

Book(r) ==
    /\ Move(r, "draft", "confirmed")
    /\ \A p \in Product : Quantity[r][p] <= avail[p]
    /\ avail' = [p \in Product |-> avail[p] - Quantity[r][p]]

Drop(r) == Move(r, "draft", "cancelled") /\ UNCHANGED avail

Release(r) ==
    /\ Move(r, "confirmed", "cancelled")
    /\ avail' = [p \in Product |-> avail[p] + Quantity[r][p]]

LNext == \E r \in Reservation : Open(r) \/ Book(r) \/ Drop(r) \/ Release(r)

LSpec == LInit /\ [][LNext]_lvars
=============================================================================
