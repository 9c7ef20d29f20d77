\* One process, one message, one lost connection.
SPECIFICATION FairSpec
CONSTANTS
  None = None
  Process = {p1}
  Message = {m1}
  MaxLosses = 1
PROPERTIES
  AcceptedSettles
CHECK_DEADLOCK FALSE
