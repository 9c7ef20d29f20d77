\* Two requests in flight on four queries, two transactions that may commit out of order.
SPECIFICATION Spec
CONSTANTS
  None = None
  g1 = g1
  g2 = g2
  Asks <- MCAsks
  Reader = {g1, g2}
  Handler <- MCHandler
  RowsOf <- DepositAndTransfer
  Query <- MCQuery
INVARIANTS
  AnswerWasTrue
  TotalCoversPage
  CommittedIsFound
PROPERTIES
  HistorySettles
CHECK_DEADLOCK FALSE
