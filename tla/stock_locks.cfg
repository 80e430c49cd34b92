SPECIFICATION HFairSpec
CONSTANTS
  w1 = w1
  w2 = w2
  r1 = r1
  r2 = r2
  p1 = p1
  p2 = p2
  NoWorker = NoWorker
  NoProduct = NoProduct
  NoReservation = NoReservation
  NoEntry = NoEntry
  Worker = {w1, w2}
  Product = {p1, p2}
  Reservation = {r1, r2}
  Drafted = {r1, r2}
  Deletable = {}
  Redis = "down"
  Quantity <- SameProducts
  Stock <- OneOfEach
  Patches <- ShrinkPatch
INVARIANTS TypeOK StockBounds ConservedUnlessDisturbed
PROPERTIES EveryRequestEnds ConfirmTakesEveryLine
