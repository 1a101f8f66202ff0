-------------------------------- MODULE Shake ---------------------------------
(***************************************************************************)
(* The incremental SHAKE-256 of the C code (c-ref/fips202.c): a state of   *)
(* 25 words into which the input is XORed, permuted when a block is full,  *)
(* and a position.  While output is drawn, the permutation is put off to   *)
(* the moment a byte of the next block is needed.                          *)
(*                                                                         *)
(* The state is modelled by the blocks it was permuted with, in order, and *)
(* what was XORed into it since.  A loop takes one step per iteration.     *)
(***************************************************************************)
EXTENDS SpongePadding

CONSTANTS
  Piece,       \* the input lengths a caller passes
  Request,     \* the output lengths a caller passes
  MaxInput,    \* bound of the model: bytes of an input
  MaxOutput    \* bound of the model: bytes drawn from a state

ASSUME ShakeAssumption ==
  /\ Piece \subseteq Nat
  /\ Request \subseteq Nat
  /\ MaxInput \in Nat
  /\ MaxOutput \in Nat

VARIABLES
  hash,        \* the blocks the state was permuted with
  block,       \* what was XORed into it since
  pos,
  pc,          \* the loop that runs; "idle" outside a call
  todo,        \* inlen, outlen or nblocks
  total,       \* bytes passed in so far (history)
  finalized,   \* whether the padding is in: the caller's phase
  squeezed     \* the bytes handed out (history)

vars == <<hash, block, pos, pc, todo, total, finalized, squeezed>>

Lesser(a, b) == IF a < b THEN a ELSE b

Xor(a, b) == (a \ b) \cup (b \ a)

Init ==
  /\ hash = << >>
  /\ block = ZeroBlock
  /\ pos = 0
  /\ pc = "idle"
  /\ todo = 0
  /\ total = 0
  /\ finalized = FALSE
  /\ squeezed = << >>

(* shake256_init. *)
InitState ==
  /\ pc = "idle"
  /\ hash' = << >>
  /\ block' = ZeroBlock
  /\ pos' = 0
  /\ total' = 0
  /\ finalized' = FALSE
  /\ squeezed' = << >>
  /\ UNCHANGED <<pc, todo>>

(* shake256_absorb of n bytes. *)
Absorb(n) ==
  /\ pc = "idle"
  /\ ~finalized
  /\ total + n <= MaxInput
  /\ pc' = "absorb"
  /\ todo' = n
  /\ total' = total + n
  /\ UNCHANGED <<hash, block, pos, finalized, squeezed>>

(* shake256_absorb_once of n bytes. *)
AbsorbOnce(n) ==
  /\ pc = "idle"
  /\ n <= MaxInput
  /\ hash' = << >>
  /\ block' = ZeroBlock
  /\ pos' = 0
  /\ pc' = "once"
  /\ todo' = n
  /\ total' = n
  /\ finalized' = FALSE
  /\ squeezed' = << >>

(* The next n bytes of the input XORed in from `pos` on. *)
Absorbed(n) ==
  [i \in Index |-> IF pos <= i /\ i < pos + n
                     THEN Xor(block[i], {total - todo + i - pos}) ELSE block[i]]

BlockFull == pos + todo >= Rate

AbsorbBlock ==
  /\ pc \in {"absorb", "once"}
  /\ BlockFull
  /\ hash' = Append(hash, Absorbed(Rate - pos))
  /\ block' = ZeroBlock
  /\ todo' = todo - (Rate - pos)
  /\ pos' = 0
  /\ UNCHANGED <<pc, total, finalized, squeezed>>

AbsorbRest ==
  /\ pc = "absorb"
  /\ ~BlockFull
  /\ block' = Absorbed(todo)
  /\ pos' = pos + todo
  /\ todo' = 0
  /\ pc' = "idle"
  /\ UNCHANGED <<hash, total, finalized, squeezed>>

(* The padding XORed into a block that has n bytes. *)
WithPadding(b, n) == [i \in Index |-> Xor(b[i], PadAt(i, n))]

(* shake256_finalize. *)
Finalize ==
  /\ pc = "idle"
  /\ ~finalized
  /\ block' = WithPadding(block, pos)
  /\ pos' = Rate
  /\ finalized' = TRUE
  /\ UNCHANGED <<hash, pc, todo, total, squeezed>>

(* The end of shake256_absorb_once. *)
AbsorbOnceRest ==
  /\ pc = "once"
  /\ ~BlockFull
  /\ block' = WithPadding(Absorbed(todo), todo)
  /\ pos' = Rate
  /\ finalized' = TRUE
  /\ todo' = 0
  /\ pc' = "idle"
  /\ UNCHANGED <<hash, total, squeezed>>

(* Bytes first, first + 1, ... of the state after `permuted` blocks. *)
StateBytes(permuted, since, first, n) ==
  [j \in 1 .. n |-> [hash |-> permuted, at |-> first + j - 1, xored |-> since[first + j - 1]]]

(* shake256_squeeze of n bytes. *)
Squeeze(n) ==
  /\ pc = "idle"
  /\ finalized
  /\ Len(squeezed) + n <= MaxOutput
  /\ pc' = "squeeze"
  /\ todo' = n
  /\ UNCHANGED <<hash, block, pos, total, finalized, squeezed>>

SqueezePart ==
  LET n == Lesser(todo, Rate - pos)
  IN  /\ pc = "squeeze"
      /\ todo > 0
      /\ pos < Rate
      /\ squeezed' = squeezed \o StateBytes(hash, block, pos, n)
      /\ pos' = pos + n
      /\ todo' = todo - n
      /\ UNCHANGED <<hash, block, pc, total, finalized>>

(* A slip: the position is taken back, but the state is not permuted. *)
SqueezeNextUnpermuted ==
  LET n == Lesser(todo, Rate)
  IN  /\ pc = "squeeze"
      /\ todo > 0
      /\ pos = Rate
      /\ hash' = IF squeezed = << >> THEN Append(hash, block) ELSE hash
      /\ block' = ZeroBlock
      /\ squeezed' = squeezed \o StateBytes(hash', ZeroBlock, 0, n)
      /\ pos' = n
      /\ todo' = todo - n
      /\ UNCHANGED <<pc, total, finalized>>

SqueezeNext ==
  LET n == Lesser(todo, Rate)
  IN  /\ pc = "squeeze"
      /\ todo > 0
      /\ pos = Rate
      /\ hash' = Append(hash, block)
      /\ block' = ZeroBlock
      /\ squeezed' = squeezed \o StateBytes(hash', ZeroBlock, 0, n)
      /\ pos' = n
      /\ todo' = todo - n
      /\ UNCHANGED <<pc, total, finalized>>

(* shake256_squeezeblocks; "assumes next block has not yet been started". *)
SqueezeBlocks(n) ==
  /\ pc = "idle"
  /\ finalized
  /\ pos = Rate
  /\ Len(squeezed) + n * Rate <= MaxOutput
  /\ pc' = "blocks"
  /\ todo' = n
  /\ UNCHANGED <<hash, block, pos, total, finalized, squeezed>>

SqueezeBlock ==
  /\ pc = "blocks"
  /\ todo > 0
  /\ hash' = Append(hash, block)
  /\ block' = ZeroBlock
  /\ squeezed' = squeezed \o StateBytes(hash', ZeroBlock, 0, Rate)
  /\ todo' = todo - 1
  /\ UNCHANGED <<pos, pc, total, finalized>>

SqueezeReturn ==
  /\ pc \in {"squeeze", "blocks"}
  /\ todo = 0
  /\ pc' = "idle"
  /\ UNCHANGED <<hash, block, pos, todo, total, finalized, squeezed>>

Next ==
  \/ InitState
  \/ \E n \in Piece : Absorb(n) \/ AbsorbOnce(n)
  \/ AbsorbBlock
  \/ AbsorbRest
  \/ AbsorbOnceRest
  \/ Finalize
  \/ \E n \in Request : Squeeze(n) \/ SqueezeBlocks(n)
  \/ SqueezePart
  \/ SqueezeNext
  \/ SqueezeBlock
  \/ SqueezeReturn

Spec == Init /\ [][Next]_vars

-----------------------------------------------------------------------------
(***************************************************************************)
(* Between the calls there is room for the first padding byte in the block *)
(* (keccak_finalize, fips202.c 405-409, writes at pos), and squeezing      *)
(* never reads behind the block.                                           *)
(***************************************************************************)
TypeOK ==
  /\ hash \in Seq([Index -> SUBSET (LastPad .. MaxInput - 1)])
  /\ block \in [Index -> SUBSET (LastPad .. MaxInput - 1)]
  /\ pos \in 0 .. Rate
  /\ ~finalized => pos < Rate
  /\ pc \in {"idle", "absorb", "once", "squeeze", "blocks"}
  /\ todo \in Nat
  /\ total \in 0 .. MaxInput
  /\ finalized \in BOOLEAN
  /\ Len(squeezed) <= MaxOutput

(***************************************************************************)
(* Whatever pieces the input comes in and the output is drawn in, by bytes *)
(* or by blocks, byte p that is handed out is byte p of the SHAKE-256      *)
(* output of the whole input (fips202.c 373-514).                          *)
(***************************************************************************)
OutputInOrder ==
  \A p \in 1 .. Len(squeezed) : squeezed[p] = OutputByte(total, p - 1)
=============================================================================
