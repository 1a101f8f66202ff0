SPECIFICATION VerificationSpec
CONSTANTS
  L = 2
  K = 2
  N = 3
  OMEGA = 2
  CountByte = {0, 1, 2, 3}
  Norm = {0, 1, 2}
  Bound = 1
  Hint <- MCHint
  Size = 8
  Modulus = 17
  Root = 3
  Mont = 2
  SmallModulus = 41
  SmallRoot = 3
  SmallMont = 5
  Lanes = 4
  TwoToD = 4
  RowLen = 2
  Row <- MCRow
  Secret <- MCSecret
CHECK_DEADLOCK FALSE
INVARIANT LowramAgrees
INVARIANT SolidityAgrees
INVARIANT Canonical
INVARIANT HonestAccepted
INVARIANT ProductsRight
