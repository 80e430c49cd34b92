SPECIFICATION ASpec
CONSTANTS
  a1 = a1
  e1 = e1
  i1 = i1
  p1 = p1
  p2 = p2
  k1 = k1
  k2 = k2
  c1 = c1
  c2 = c2
  MaxErrors = 1
  MaxMishaps = 1
  Requester = {r1, r2}
  Client = {a1}
  Scope = {"login"}
  Limit <- Limits
  Window = 1
  MaxCount = 4
  Clerk = {r1, r2}
  Email = {e1}
  Account = {e1}
  Active = {e1}
  Ip = {i1}
  Password = {p1, p2}
  FirstHash <- OldHash
  LockThreshold = 2
  AlertThreshold = 3
  LockDuration = 2
  AttemptWindow = 1
  NoEmail = NoEmail
  NoIp = NoIp
  NoPassword = NoPassword
  Handler = {r1, r2}
  Ticket = {k1, k2}
  Code = {c1, c2}
  Windows = 2
  Setups = 2
  NoTicket = NoTicket
  NoCode = NoCode
CHECK_DEADLOCK FALSE
INVARIANTS TypeOK AttemptsBounded TicketOpensOnce UsedStaysUsed
PROPERTIES PasswordKept EnabledUntilDisabled RefusalEnds LockEnds
