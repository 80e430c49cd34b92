SPECIFICATION HSpec
CONSTANTS
  w1 = w1
  w2 = w2
  u1 = u1
  f1 = f1
  f2 = f2
  NoUser = NoUser
  NoFamily = NoFamily
  NoToken = NoToken
  Worker = {w1, w2}
  User = {u1}
  Family = {f1, f2}
  Owner <- OneUser
  MaxTokens <- Pairs
  MaxSessions = 1
  MaxFaults = 1
SYMMETRY Symmetry
CHECK_DEADLOCK FALSE
INVARIANTS TypeOK OneLiveToken ReplayOnlyAfterUse SessionLimit ActiveFamilyIsListed RevokeAllIsComplete
PROPERTIES DeadFamiliesStayDead
