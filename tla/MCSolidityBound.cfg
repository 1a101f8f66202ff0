SPECIFICATION Spec
CONSTANTS
  L = 2
  K = 2
  N = 3
  OMEGA = 2
  CountByte = {0, 1, 2, 3}
  Norm = {0, 1, 2}
  Bound = 1
  Hint <- MCHint
CHECK_DEADLOCK FALSE
INVARIANT SolidityFollowsReference
