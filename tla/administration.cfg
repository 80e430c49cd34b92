SPECIFICATION ASpec
CONSTANTS
  a1 = a1
  a2 = a2
  w1 = w1
  w2 = w2
  t1 = t1
  t2 = t2
  t3 = t3
  Author = {a1, a2}
  Word = {w1, w2}
  MaxRows = 3
  MaxRequests = 5
  Kinds = {"category", "bundle", "item", "customer"}
  NoWord = NoWord
  Maker = {t1, t2, t3}
  ProcessOf <- Processes
  LastNumber = 3
  Server = {t1, t2}
  Serves <- Served
  Bearer = {b1}
  CsrfToken = {x1}
  MaxFailures = 1
  NoBearer = NoBearer
  NoCsrf = NoCsrf
SYMMETRY Alike
CHECK_DEADLOCK FALSE
INVARIANTS TypeOK    LogoutHolds 
