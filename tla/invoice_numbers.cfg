SPECIFICATION FairSpec
CONSTANTS
  w1 = w1
  w2 = w2
  i1 = i1
  i2 = i2
  i3 = i3
  t1 = t1
  t2 = t2
  NoWorker = NoWorker
  Worker = {w1, w2}
  Invoice = {i1, i2, i3}
  Amounts = {}
  PatchStatuses = {}
  MaxNumber = 2
  Owner <- TwoTenants
  Total <- TotalTwo
INVARIANTS Numbering
PROPERTIES EveryRequestEnds
CHECK_DEADLOCK FALSE
