SPECIFICATION SpongesSpec
CONSTANTS
  Rate = 3
  Piece = {0, 1, 2, 4}
  Request = {0, 1, 2, 5}
  MaxInput = 7
  MaxOutput = 7
  SizeSpace = 12
  Size = {0, 1, 2, 3, 7, 13}
  MaxBytes = 17
INVARIANT SpongesTypeOK
INVARIANT OutputInOrder
INVARIANT SameOutput
INVARIANT HashOfInput
