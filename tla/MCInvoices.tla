----------------------------- MODULE MCInvoices -----------------------------
EXTENDS Invoices, TLC
CONSTANTS w1, w2, i1, i2, i3, t1, t2
OneTenant == [i \in Invoice |-> t1]
TwoTenants == [i \in Invoice |-> IF i = i3 THEN t2 ELSE t1]
TotalTwo == [i \in Invoice |-> 2]
=============================================================================
