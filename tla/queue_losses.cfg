\* Two processes and two messages, two lost connections or crashes.
SPECIFICATION Spec
CONSTANTS
  None = None
  Process = {p1, p2}
  Message = {m1, m2}
  MaxLosses = 2
SYMMETRY Symmetry
INVARIANTS
  TypeOK
  NoMessageLost
  DeadLettersEarned
  OutcomesBounded
CHECK_DEADLOCK FALSE
