------------------------------ MODULE XofStream ------------------------------
(***************************************************************************)
(* What every extendable-output generator of the repository promises its   *)
(* caller, whatever it is built from (Keccak-256 in counter mode in C,     *)
(* Python and Solidity, or a SHAKE sponge):                                *)
(*                                                                         *)
(*  - inputs are absorbed, each as a whole, until the generator is         *)
(*    finalised;                                                           *)
(*  - the absorbed input then determines an endless stream of bytes, and   *)
(*    successive requests receive successive, disjoint pieces of it with   *)
(*    no gap between them;                                                 *)
(*  - a call that is not allowed leaves the generator as it was.           *)
(*                                                                         *)
(* A byte of the stream is named by the input it derives from and by its   *)
(* position; which value the hash gives it plays no part.                  *)
(***************************************************************************)
EXTENDS Integers, Sequences

CONSTANTS
  Chunk,      \* the inputs a caller may absorb in one call
  Request     \* the numbers of bytes a caller may ask for in one call

VARIABLES
  absorbed,   \* the inputs absorbed so far, in order
  squeezing,  \* whether the generator has been finalised
  taken,      \* how many bytes of the stream have been handed out
  given,      \* the answer to the last request, indexed from 0
  accepted    \* whether the last call was carried out

xofVars == <<absorbed, squeezing, taken, given, accepted>>

Byte(input, position) == <<input, position>>

Piece(input, first, n) == [i \in 0 .. n - 1 |-> Byte(input, first + i)]

Init ==
  /\ absorbed = << >>
  /\ squeezing = FALSE
  /\ taken = 0
  /\ given = << >>
  /\ accepted = TRUE

Reset ==
  /\ absorbed' = << >>
  /\ squeezing' = FALSE
  /\ taken' = 0
  /\ given' = << >>
  /\ accepted' = TRUE

Absorb(c) ==
  /\ ~squeezing
  /\ absorbed' = Append(absorbed, c)
  /\ accepted' = TRUE
  /\ UNCHANGED <<squeezing, taken, given>>

Finalize ==
  /\ ~squeezing
  /\ squeezing' = TRUE
  /\ accepted' = TRUE
  /\ UNCHANGED <<absorbed, taken, given>>

Squeeze(n) ==
  /\ squeezing
  /\ taken' = taken + n
  /\ given' = Piece(absorbed, taken, n)
  /\ accepted' = TRUE
  /\ UNCHANGED <<absorbed, squeezing>>

Refuse ==
  /\ accepted' = FALSE
  /\ UNCHANGED <<absorbed, squeezing, taken, given>>

Next ==
  \/ Reset
  \/ \E c \in Chunk : Absorb(c)
  \/ Finalize
  \/ \E n \in Request : Squeeze(n)
  \/ Refuse

Spec == Init /\ [][Next]_xofVars

=============================================================================
