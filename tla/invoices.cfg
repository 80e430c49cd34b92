SPECIFICATION HSpec
CONSTANTS
  w1 = w1
  w2 = w2
  i1 = i1
  i2 = i2
  i3 = i3
  t1 = t1
  t2 = t2
  NoWorker = NoWorker
  Worker = {w1, w2}
  Invoice = {i1}
  Amounts = {1, 2}
  PatchStatuses = {"sent", "paid", "draft"}
  MaxNumber = 1
  Owner <- OneTenant
  Total <- TotalTwo
INVARIANTS TypeOK PaidWithinTotal PaymentsAddUpUnlessRaced
 
CHECK_DEADLOCK FALSE
