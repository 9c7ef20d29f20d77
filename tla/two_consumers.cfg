\* Two processes: row locks, in-flight keys, deadlocks, TTL, faults.
SPECIFICATION FairSpec
CONSTANTS
  alice = alice
  bob = bob
  carol = carol
  w1 = w1
  w2 = w2
  w3 = w3
  r1 = r1
  r2 = r2
  c1 = c1
  c2 = c2
  s1 = s1
  None = None
  Consumer = {c1, c2}
  Reader = {}
  CreateRequest <- NoRequests
  Store <- StorePerProcess
  StoreOf <- OwnStore
  User <- MCUser
  Registered <- MCRegistered
  Currency <- MCCurrency
  DefaultCurrency = "USD"
  Unspecified = "undefined"
  Name <- MCName
  WalletId <- MCWalletId
  Ref <- MCRef
  EmptyRef = ""
  NoRef = "none"
  Message <- OppositeTransfers
  Opening <- TwoWallets
  MaxAttempts = 1
  MaxFaults = 1
  MaxBalance = 4
  MaxVersion = 11
  Drifting <- MCDrifting
INVARIANTS
  BalanceNonNegative
  KeyUsedOnce
  CachedBalanceWasHeld
PROPERTIES
  ImplementsAccountBook
  HandlersFinish
CHECK_DEADLOCK FALSE
