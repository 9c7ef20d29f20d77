\* One process, two addresses: registrations that race, logins, wallet requests, a closed channel.
SPECIFICATION ApiSpec
CONSTANTS
  None = None
  Absent = Absent
  a1 = a1
  a2 = a2
  Process = {p1}
  Address = {a1, a2}
  Limit = 2
  Window = 2
  MaxTime = 2
  Request <- MCRequest
  UserId = {u1, u2}
  HashOf <- MCHashOf
  MaxFaults = 1
  MaxLosses = 1
SYMMETRY Symmetry
INVARIANTS
  WindowBound
  OneUserPerEmail
  ExactlyOneRegisters
  TokenNamesItsOwner
  QueuedWellFormed
PROPERTIES
  RefusalsEarned
  RegisteredCanLogIn
CHECK_DEADLOCK FALSE
