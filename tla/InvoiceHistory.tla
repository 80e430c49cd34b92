--------------------------- MODULE InvoiceHistory ---------------------------
(***************************************************************************)
(* Invoices with what the clients were told: `received' is the sum of the  *)
(* payments acknowledged by a commit, `raced' the invoices written by a    *)
(* request that had loaded a version no longer the committed one.  Nothing *)
(* is added to `received' after the first race on an invoice.              *)
(***************************************************************************)
EXTENDS Invoices

VARIABLES received, raced

hvars == <<vars, received, raced>>

\* The step is the commit of a request of w that wrote i.
Commits(w, i) == tx[w].pc = "commit" /\ Commit(w) /\ lock[i] = w

\* The amount w's request was sent with.
Amount(w, i) == IF tx[w].op = "pay" THEN tx[w].seen[i].paid - tx[w].base[i].paid ELSE 0

HInit == Init /\ received = [i \in Invoice |-> 0] /\ raced = {}

HNext ==
    /\ Next
    /\ raced' = raced \cup
         {i \in Invoice : \E w \in Worker : Commits(w, i) /\ tx[w].base[i] # stable[i]}
    /\ received' =
         [i \in Invoice |->
            IF i \notin raced /\ \E w \in Worker : Commits(w, i)
              THEN received[i] + Amount(CHOOSE w \in Worker : Commits(w, i), i)
              ELSE received[i]]

HSpec == HInit /\ [][HNext]_hvars

HFairSpec == HSpec /\ Fairness

-----------------------------------------------------------------------------
\* Money is lost only in a race: on every other invoice, paid_amount is the sum
\* of the payments acknowledged to the clients, whatever failed in between.
PaymentsAddUpUnlessRaced ==
    \A i \in Invoice \ raced : stable[i].paid = received[i]

\* Likewise an invoice settled in full never changes again: no handler can touch
\* it unless it had loaded it before.
SettledIsFinalUnlessRaced ==
    [][\A i \in Invoice \ raced' :
         stable[i].status = "paid" /\ stable[i].paid = Total[i] => stable'[i] = stable[i]]_hvars

\* "Paiements multiples s'accumulent correctement": an acknowledged payment is in
\* paid_amount, of two concurrent ones both.
EveryPaymentCounted ==
    \A i \in Invoice : received[i] <= stable[i].paid
=============================================================================
