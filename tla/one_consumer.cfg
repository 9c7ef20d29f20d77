\* One process: the handlers on shared wallets, failed awaits, redelivery, TTL.
SPECIFICATION Spec
CONSTANTS
  alice = alice
  bob = bob
  carol = carol
  w1 = w1
  w2 = w2
  w3 = w3
  r1 = r1
  r2 = r2
  c1 = c1
  s1 = s1
  None = None
  Consumer = {c1}
  Reader = {}
  CreateRequest <- NoRequests
  Store <- OneStore
  StoreOf <- SharedStore
  User <- MCUser
  Registered <- MCRegistered
  Currency <- MCCurrency
  DefaultCurrency = "USD"
  Unspecified = "undefined"
  Name <- MCName
  WalletId <- MCWalletId
  Ref <- MCRef
  EmptyRef = ""
  NoRef = "none"
  Message <- SharedWallet
  Opening <- TwoWallets
  MaxAttempts = 2
  MaxFaults = 1
  MaxBalance = 3
  MaxVersion = 11
  Drifting <- MCDrifting
INVARIANTS
  TypeOK
  BalanceNonNegative
  ReturnedMeansRecorded
  StatementMatchesBalance
PROPERTIES
  ImplementsAccountBook
  TransferConserves
CHECK_DEADLOCK FALSE
