\* A first deposit fails once after caching the wallet it creates, and is retried.
SPECIFICATION Spec
CONSTANTS
  alice = alice
  bob = bob
  carol = carol
  w1 = w1
  w2 = w2
  w3 = w3
  r1 = r1
  r2 = r2
  c1 = c1
  s1 = s1
  None = None
  Consumer = {c1}
  Reader = {}
  CreateRequest <- NoRequests
  Store <- OneStore
  StoreOf <- SharedStore
  User <- MCUser
  Registered <- MCRegistered
  Currency <- MCCurrency
  DefaultCurrency = "USD"
  Unspecified = "undefined"
  Name <- MCName
  WalletId <- MCWalletId
  Ref <- MCRef
  EmptyRef = ""
  NoRef = "none"
  Message <- FirstDeposit
  Opening <- OneWallet
  MaxAttempts = 2
  MaxFaults = 1
  MaxBalance = 4
  MaxVersion = 11
  Drifting <- MCDrifting
INVARIANTS
  RowHasWallet
CHECK_DEADLOCK FALSE
