\* Two processes, three connections each: a transfer and a referenced deposit, a lost connection or crash, a fault.
SPECIFICATION FairSystemSpec
CONSTANTS
  alice = alice
  bob = bob
  carol = carol
  w1 = w1
  w2 = w2
  w3 = w3
  r1 = r1
  r2 = r2
  c1 = c1
  c2 = c2
  s1 = s1
  None = None
  Consumer = {c1,c2}
  Reader = {}
  CreateRequest <- NoRequests
  Store <- OneStore
  StoreOf <- SharedStore
  User <- MCUser
  Registered <- MCRegistered
  Currency <- MCCurrency
  DefaultCurrency = "USD"
  Unspecified = "undefined"
  Name <- MCName
  WalletId <- MCWalletId
  Ref <- MCRef
  EmptyRef = ""
  NoRef = "none"
  Message <- TransferAndDeposit
  Opening <- TwoWallets
  MaxAttempts = 16
  MaxFaults = 1
  MaxBalance = 12
  MaxVersion = 11
  Drifting <- MCDrifting
  MaxLosses = 1
  PoolSize = 3
  Serving = {c1}
  MaxLent = 1
INVARIANTS
  AppliedBounded
  ConnectionsSuffice
PROPERTIES
  ImplementsAtLeastOnce
  MessagesSettle
CHECK_DEADLOCK FALSE
