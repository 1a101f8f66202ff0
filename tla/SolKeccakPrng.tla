---------------------------- MODULE SolKeccakPrng ----------------------------
(***************************************************************************)
(* The Keccak-256 generator of the contracts (src/ZKNOX_keccak_prng.sol).  *)
(* The whole input is hashed at once, the first block is computed          *)
(* eagerly, and the output is drawn in one of two ways: byte by byte, by   *)
(* shifting the 32-byte word `pool` (sampleInBallKeccakPrng), or block by  *)
(* block, by reading `pool` and calling refill (the hashes of              *)
(* verifyInternal).                                                        *)
(***************************************************************************)
EXTENDS PrngParameters

CONSTANT MaxInput   \* bound of the model: pieces of one input

VARIABLES
  input,      \* the pieces joined so far
  ready,      \* whether initPrng has returned
  state,      \* what keccak256 was applied to
  counter,
  pool,       \* [block: which block the word was, shift: bytes shifted out]
  remaining,
  drawn,      \* the block in pool has been read as a word
  given       \* the bytes returned last

vars == <<input, ready, state, counter, pool, remaining, drawn, given>>

Init ==
  /\ input = << >>
  /\ ready = FALSE
  /\ state = << >>
  /\ counter = 0
  /\ pool = [block |-> 0, shift |-> 0]
  /\ remaining = 0
  /\ drawn = FALSE
  /\ given = << >>

(* One more argument of abi.encodePacked. *)
Concat(c) ==
  /\ ~ready
  /\ Len(input) < MaxInput
  /\ input' = Append(input, c)
  /\ UNCHANGED <<ready, state, counter, pool, remaining, drawn, given>>

(* initPrng: hash, compute block 0, leave the counter at 1. *)
InitPrng ==
  /\ ~ready
  /\ ready' = TRUE
  /\ state' = input
  /\ pool' = [block |-> 0, shift |-> 0]
  /\ remaining' = BlockLen
  /\ counter' = 1
  /\ drawn' = FALSE
  /\ UNCHANGED <<input, given>>

(* The verifier starts over, in a fresh memory struct, for its next hash. *)
NewPrng ==
  /\ ready
  /\ input' = << >>
  /\ ready' = FALSE
  /\ state' = << >>
  /\ counter' = 0
  /\ pool' = [block |-> 0, shift |-> 0]
  /\ remaining' = 0
  /\ drawn' = FALSE
  /\ given' = << >>

(* The bytes drawn from the stream so far. *)
Taken ==
  IF ~ready THEN 0
  ELSE IF drawn THEN BlockLen * counter ELSE BlockLen * counter - remaining

(* The block both refill and nextByte compute when the pool is used up. *)
FreshPool ==
  [pool |-> [block |-> counter, shift |-> 0], remaining |-> BlockLen, counter |-> counter + 1]

CurrentPool ==
  [pool |-> pool, remaining |-> remaining, counter |-> counter]

(* What a shift brings in from the right: no byte of any stream. *)
ShiftedIn == << >>

(* The top byte of a word, some bytes of which were shifted out. *)
TopByte(word) ==
  IF word.shift < BlockLen THEN Byte(state, BlockLen * word.block + word.shift) ELSE ShiftedIn

(* nextByte: the top byte of the word, after a refill of an empty pool. *)
NextByte ==
  LET p == IF remaining = 0 THEN FreshPool ELSE CurrentPool
  IN  /\ ready
      /\ ~drawn
      /\ Taken + 1 <= MaxTaken
      /\ given' = [i \in 0 .. 0 |-> TopByte(p.pool)]
      /\ pool' = [p.pool EXCEPT !.shift = @ + 1]
      /\ remaining' = p.remaining - 1
      /\ counter' = p.counter
      /\ UNCHANGED <<input, ready, state, drawn>>

WholeBlock(block) == [i \in 0 .. BlockLen - 1 |-> Byte(state, BlockLen * block + i)]

(* A slip: the pool is refilled before its first word was read. *)
FirstBlockAfterRefill ==
  /\ ready
  /\ ~drawn
  /\ remaining = BlockLen
  /\ counter = 1
  /\ BlockLen <= MaxTaken
  /\ drawn' = TRUE
  /\ pool' = FreshPool.pool
  /\ counter' = FreshPool.counter
  /\ given' = WholeBlock(FreshPool.pool.block)
  /\ UNCHANGED <<input, ready, state, remaining>>

(* Reading pool right after initPrng. *)
FirstBlock ==
  /\ ready
  /\ ~drawn
  /\ remaining = BlockLen
  /\ counter = 1
  /\ BlockLen <= MaxTaken
  /\ drawn' = TRUE
  /\ given' = WholeBlock(pool.block)
  /\ UNCHANGED <<input, ready, state, counter, pool, remaining>>

(* refill, and reading pool after it. *)
RefillBlock ==
  /\ ready
  /\ drawn
  /\ Taken + BlockLen <= MaxTaken
  /\ pool' = FreshPool.pool
  /\ remaining' = FreshPool.remaining
  /\ counter' = FreshPool.counter
  /\ given' = WholeBlock(FreshPool.pool.block)
  /\ UNCHANGED <<input, ready, state, drawn>>

Next ==
  \/ \E c \in Chunk : Concat(c)
  \/ InitPrng
  \/ NewPrng
  \/ NextByte
  \/ FirstBlock
  \/ RefillBlock

Spec == Init /\ [][Next]_vars

-----------------------------------------------------------------------------
Xof == INSTANCE XofStream
         WITH absorbed  <- input,
              squeezing <- ready,
              taken     <- Taken,
              accepted  <- TRUE,
              Request   <- {1, BlockLen}

(***************************************************************************)
(* The word, the number of its unread bytes and the counter stay in step,  *)
(* so that nextByte never returns one of the zeros shifted into the word.  *)
(***************************************************************************)
PoolInStep ==
  ready =>
    /\ state = input
    /\ counter > 0
    /\ pool.block = counter - 1
    /\ remaining \in 0 .. BlockLen
    /\ pool.shift = BlockLen - remaining
    /\ drawn => remaining = BlockLen

(***************************************************************************)
(* The types of the fields of struct KeccakPRNG (ZKNOX_keccak_prng.sol).   *)
(***************************************************************************)
TypeOK ==
  /\ input \in Seq(Chunk)
  /\ ready \in BOOLEAN
  /\ state \in Seq(Chunk)
  /\ counter \in Nat
  /\ pool \in [block : Nat, shift : Nat]
  /\ remaining \in Nat
  /\ drawn \in BOOLEAN

(***************************************************************************)
(* Drawn by bytes or by blocks, the contract's generator hands out the     *)
(* consecutive pieces of the stream its input determines.                  *)
(***************************************************************************)
ImplementsXof == Xof!Spec

=============================================================================
