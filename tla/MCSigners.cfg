SPECIFICATION FairPairSpec
CONSTANTS
  L = 2
  K = 2
  N = 2
  OMEGA = 2
  NonceSpace = 4
  WScratch = {0}
  Outcome <- MCOutcome
  MaxAttempts = 3
  Junk = Junk
CHECK_DEADLOCK FALSE
INVARIANT BothTypeOK
INVARIANT FreshMasks
INVARIANT HintPrefixEncoded
INVARIANT SameSignature
PROPERTY ImplementsSignLoop
PROPERTY RefImplementsSignLoop
PROPERTY BothReturn
