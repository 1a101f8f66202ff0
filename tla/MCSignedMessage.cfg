SPECIFICATION Spec
CONSTANTS
  SigLen = 2
  MaxLen = 4
  StaleLen = {0, 3}
CHECK_DEADLOCK FALSE
INVARIANT SignsTheMessage
INVARIANT OpensTheMessage
INVARIANT NothingReleased
