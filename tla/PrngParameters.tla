--------------------------- MODULE PrngParameters ----------------------------
(* What the C generator and the generator of the contracts have in common.  *)
EXTENDS Integers, Sequences

CONSTANTS
  Chunk,     \* the pieces an input is made of
  BlockLen,  \* 32, the bytes of a Keccak-256 hash
  MaxTaken   \* bound of the model: bytes of output requested in all

ASSUME PrngParametersAssumption ==
  /\ BlockLen \in Nat \ {0}
  /\ MaxTaken \in Nat

(* A byte of output is named by the hashed input and by its position.       *)
Byte(input, position) == <<input, position>>
=============================================================================
