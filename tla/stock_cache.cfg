SPECIFICATION HSpec
CONSTANTS
  w1 = w1
  w2 = w2
  r1 = r1
  r2 = r2
  p1 = p1
  p2 = p2
  NoWorker = NoWorker
  NoProduct = NoProduct
  NoReservation = NoReservation
  NoEntry = NoEntry
  Worker = {w1, w2}
  Product = {p1}
  Reservation = {r1, r2}
  Drafted = {r1}
  Deletable = {p1}
  Redis = "flaky"
  Quantity <- OneProduct
  Stock <- OneOfEach
  Patches <- NoPatches
INVARIANTS ConservedUnlessDisturbed CacheHoldsCommittedRows
PROPERTIES DeletedUnlessDisturbed
