SPECIFICATION Spec
CONSTANTS
  Gamma2 <- MCGamma2
  BetaOf <- MCBeta
  Residue <- MCResidue
  Small <- MCSmall
  Large <- MCLarge
  Format <- MCFormat
  Value <- MCValue
  Groups = 3
  InPlaceGroups = 2
  N = 8
  Degree = 256
  ParameterSet <- MCParameterSet
CHECK_DEADLOCK FALSE
INVARIANT TypeOK
INVARIANT DecompositionsAgree
INVARIANT SignersAgree
INVARIANT HintRecovers
INVARIANT BytesInOrder
INVARIANT RoundTrip
INVARIANT InPlaceRight
INVARIANT ProductInPlace
INVARIANT InRange
