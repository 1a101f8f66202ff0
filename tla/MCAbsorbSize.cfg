SPECIFICATION Spec
CONSTANTS
  Rate = 4
  SizeSpace = 12
  Size = {0, 1, 3, 4, 9, 13}
  MaxBytes = 20
INVARIANT InjectsAll
