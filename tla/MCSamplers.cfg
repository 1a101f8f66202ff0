SPECIFICATION Spec
CONSTANTS
  Size = 4
  TAU = 3
  SignBytes = 2
  StreamLen = 5
  Requests <- MCRequests
  T <- MCT
  Wanted = 8
  Decided = 10
  Sampler <- MCSampler
  Level <- MCLevel
CHECK_DEADLOCK FALSE
INVARIANT TypeOK
INVARIANT ChallengeAgrees
INVARIANT SchoolbookProduct
INVARIANT SampledInOrder
INVARIANT KeysAgree
