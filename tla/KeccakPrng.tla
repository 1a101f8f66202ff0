----------------------------- MODULE KeccakPrng -----------------------------
(***************************************************************************)
(* The Keccak-256 generator of the C code (c-ref/keccak_prng.c), which     *)
(* pythonref's Keccak256PRNG repeats line for line.  A context collects    *)
(* its input in a fixed buffer, hashes it once when it is flipped, and     *)
(* then produces blocks Keccak-256(state || counter), keeping the unused   *)
(* end of the last block for the next request.                             *)
(*                                                                         *)
(* inner_keccak256_extract is modelled step by step: the bytes left from   *)
(* the last block, then one step per block of the while loop, then the     *)
(* return.  The contents of a hash block are named by the hashed state     *)
(* and by the position in the stream the block covers.                     *)
(***************************************************************************)
EXTENDS PrngParameters

CONSTANTS
  ChunkLen,    \* the length in bytes of each chunk that can be injected
  BufferSize,  \* MAX_BUFFER_SIZE
  Request      \* the output lengths that can be requested

ASSUME KeccakPrngAssumption ==
  /\ ChunkLen \in [Chunk -> Nat]
  /\ BufferSize \in Nat
  /\ Request \subseteq Nat

VARIABLES
  buffer,          \* the injected inputs, in order
  buffer_len,      \* their length in bytes
  state,           \* what Keccak-256 was applied to by flip
  counter,         \* the number of the next block
  finalized,
  out_block,       \* the number of the block held in out_buffer
  out_buffer_pos,
  out_buffer_len,
  pc,              \* where inner_keccak256_extract stands; "idle" outside it
  len, offset,     \* its parameter and its local variable
  out,             \* the caller's output array while it is being filled
  given,           \* that array as of the last extract that returned 0 (history)
  ret              \* the last return value

inputVars  == <<buffer, buffer_len, state, finalized>>
outputVars == <<counter, out_block, out_buffer_pos, out_buffer_len>>
callVars   == <<pc, len, offset, out, given>>
vars == <<inputVars, outputVars, callVars, ret>>

Blank == << >>     \* an output byte not written yet

NoBlock == -1      \* out_buffer as the context is declared: no block computed

(***************************************************************************)
(* memcpy(out + offset, out_buffer + first, n) for a given block.          *)
(***************************************************************************)
Copied(block, first, n) ==
  [i \in DOMAIN out |->
     IF i \in offset .. offset + n - 1
       THEN Byte(state, BlockLen * block + first + (i - offset))
       ELSE out[i]]

(* extract returns 0 with the array filled; its locals end there. *)
Return(array) ==
  /\ pc' = "idle"
  /\ given' = array
  /\ ret' = 0
  /\ len' = 0
  /\ offset' = 0
  /\ out' = << >>

Lesser(a, b) == IF a < b THEN a ELSE b

(***************************************************************************)
(* The bytes of the stream that have left the generator: all the blocks    *)
(* computed but for the unread end of the last one.                        *)
(***************************************************************************)
Consumed == BlockLen * counter - (out_buffer_len - out_buffer_pos)

Init ==
  /\ buffer = << >>
  /\ buffer_len = 0
  /\ state = << >>
  /\ counter = 0
  /\ finalized = 0
  /\ out_block = NoBlock
  /\ out_buffer_pos = 0
  /\ out_buffer_len = 0
  /\ pc = "idle"
  /\ len = 0
  /\ offset = 0
  /\ out = << >>
  /\ given = << >>
  /\ ret = 0

(***************************************************************************)
(* A slip of the kind the properties must catch: the output buffer of the  *)
(* previous use survives the initialisation.                               *)
(***************************************************************************)
InitCtxKeepsOutput ==
  /\ pc = "idle"
  /\ buffer' = << >>
  /\ buffer_len' = 0
  /\ state' = << >>
  /\ counter' = 0
  /\ finalized' = 0
  /\ ret' = 0
  /\ given' = << >>
  /\ UNCHANGED <<out_block, out_buffer_pos, out_buffer_len, pc, len, offset, out>>

(***************************************************************************)
(* inner_keccak256_init: the signer and the verifier reuse one context     *)
(* for mu, for rhoprime and for every challenge.  (`given` is a history    *)
(* variable and starts over with the context.)                             *)
(***************************************************************************)
InitCtx ==
  /\ pc = "idle"
  /\ buffer' = << >>
  /\ buffer_len' = 0
  /\ state' = << >>
  /\ counter' = 0
  /\ finalized' = 0
  /\ out_buffer_pos' = 0
  /\ out_buffer_len' = 0
  /\ ret' = 0
  /\ given' = << >>
  /\ UNCHANGED <<out_block, pc, len, offset, out>>

(* A slip: the bound is compared with the current length only. *)
FitsIgnoringLen(c) == buffer_len <= BufferSize

Fits(c) == buffer_len + ChunkLen[c] <= BufferSize

(* inner_keccak256_inject, with its return values 0, -2 and -3. *)
Inject(c) ==
  /\ pc = "idle"
  /\ finalized = 0
  /\ Fits(c)
  /\ buffer' = Append(buffer, c)
  /\ buffer_len' = buffer_len + ChunkLen[c]
  /\ ret' = 0
  /\ UNCHANGED <<state, finalized, outputVars, callVars>>

InjectRefused(c) ==
  /\ pc = "idle"
  /\ finalized = 1 \/ ~Fits(c)
  /\ ret' = IF finalized = 1 THEN -2 ELSE -3
  /\ UNCHANGED <<inputVars, outputVars, callVars>>

(* inner_keccak256_flip. *)
Flip ==
  /\ pc = "idle"
  /\ finalized = 0
  /\ state' = buffer
  /\ finalized' = 1
  /\ out_buffer_pos' = 0
  /\ out_buffer_len' = 0
  /\ ret' = 0
  /\ UNCHANGED <<buffer, buffer_len, counter, out_block, callVars>>

FlipRefused ==
  /\ pc = "idle"
  /\ finalized = 1
  /\ ret' = -2
  /\ UNCHANGED <<inputVars, outputVars, callVars>>

(***************************************************************************)
(* inner_keccak256_extract.                                                *)
(***************************************************************************)
ExtractRefused ==
  /\ pc = "idle"
  /\ finalized = 0
  /\ ret' = -2
  /\ UNCHANGED <<inputVars, outputVars, callVars>>

ExtractBegin(n) ==
  /\ pc = "idle"
  /\ finalized = 1
  /\ Consumed + n <= MaxTaken
  /\ len' = n
  /\ offset' = 0
  /\ out' = [i \in 0 .. n - 1 |-> Blank]
  /\ pc' = "leftover"
  /\ UNCHANGED <<inputVars, outputVars, given, ret>>

(* The request is answered, or the loop takes over. *)
ContinueAfter(array, n) ==
  IF n = len
    THEN Return(array)
    ELSE /\ pc' = "blocks"
         /\ out' = array
         /\ offset' = offset + n
         /\ UNCHANGED <<len, given, ret>>

(* A slip: the read position is left behind the bytes handed out. *)
ServeLeftoverInPlace ==
  LET available == out_buffer_len - out_buffer_pos
      to_copy   == Lesser(len, available)
  IN  /\ pc = "leftover"
      /\ available > 0
      /\ ContinueAfter(Copied(out_block, out_buffer_pos, to_copy), to_copy)
      /\ UNCHANGED <<inputVars, outputVars>>

(* The bytes left from the last block, with the early return. *)
ServeLeftover ==
  LET available == out_buffer_len - out_buffer_pos
      to_copy   == Lesser(len, available)
  IN  /\ pc = "leftover"
      /\ available > 0
      /\ out_buffer_pos' = out_buffer_pos + to_copy
      /\ ContinueAfter(Copied(out_block, out_buffer_pos, to_copy), to_copy)
      /\ UNCHANGED <<inputVars, counter, out_block, out_buffer_len>>

NoLeftover ==
  /\ pc = "leftover"
  /\ out_buffer_len <= out_buffer_pos
  /\ pc' = "blocks"
  /\ UNCHANGED <<inputVars, outputVars, len, offset, out, given, ret>>

(* A slip: the last block counts as read to its end. *)
NextBlockDropsTail ==
  LET to_copy == Lesser(len - offset, BlockLen)
  IN  /\ pc = "blocks"
      /\ offset < len
      /\ out_block' = counter
      /\ out_buffer_len' = BlockLen
      /\ out_buffer_pos' = BlockLen
      /\ out' = Copied(counter, 0, to_copy)
      /\ offset' = offset + to_copy
      /\ counter' = counter + 1
      /\ UNCHANGED <<inputVars, pc, len, given, ret>>

(* One iteration of the while loop. *)
NextBlock ==
  LET to_copy == Lesser(len - offset, BlockLen)
  IN  /\ pc = "blocks"
      /\ offset < len
      /\ out_block' = counter
      /\ out_buffer_len' = BlockLen
      /\ out_buffer_pos' = to_copy
      /\ out' = Copied(counter, 0, to_copy)
      /\ offset' = offset + to_copy
      /\ counter' = counter + 1
      /\ UNCHANGED <<inputVars, pc, len, given, ret>>

ExtractReturn ==
  /\ pc = "blocks"
  /\ offset = len
  /\ Return(out)
  /\ UNCHANGED <<inputVars, outputVars>>

Next ==
  \/ InitCtx
  \/ \E c \in Chunk : Inject(c) \/ InjectRefused(c)
  \/ Flip
  \/ FlipRefused
  \/ ExtractRefused
  \/ \E n \in Request : ExtractBegin(n)
  \/ ServeLeftover
  \/ NoLeftover
  \/ NextBlock
  \/ ExtractReturn

Spec == Init /\ [][Next]_vars

-----------------------------------------------------------------------------
(***************************************************************************)
(* Correctness.                                                            *)
(***************************************************************************)

(***************************************************************************)
(* The bytes handed to the caller: those that have left the generator but  *)
(* for the ones of a request still in progress.                            *)
(***************************************************************************)
Taken == Consumed - offset

Xof == INSTANCE XofStream
         WITH absorbed  <- buffer,
              squeezing <- (finalized = 1),
              taken     <- Taken,
              accepted  <- (ret = 0)

IsArray(f, n) == f = [i \in 0 .. n - 1 |-> f[i]]

(***************************************************************************)
(* Type correctness, with the bound on the input that keeps the memcpy of  *)
(* inject inside the array of MAX_BUFFER_SIZE bytes.                       *)
(***************************************************************************)
TypeOK ==
  /\ buffer \in Seq(Chunk)
  /\ buffer_len \in 0 .. BufferSize
  /\ state \in Seq(Chunk)
  /\ counter \in Nat
  /\ finalized \in {0, 1}
  /\ out_block \in Nat \cup {NoBlock}
  /\ out_buffer_len \in {0, BlockLen}
  /\ out_buffer_pos \in 0 .. BlockLen
  /\ pc \in {"idle", "leftover", "blocks"}
  /\ len \in Nat
  /\ offset \in 0 .. len
  /\ IF pc = "idle"
       THEN len = 0
       ELSE len \in Request /\ IsArray(out, len)
  /\ ret \in {0, -2, -3}

(***************************************************************************)
(* The output buffer, the counter and the flag fit together: the buffer    *)
(* holds the block just before the counter, the input is the one that was  *)
(* hashed, and the loop only asks for a block when the last one is used    *)
(* up.                                                                     *)
(***************************************************************************)
BufferedBlock ==
  /\ out_buffer_pos <= out_buffer_len
  /\ IF out_buffer_len = 0
       THEN counter = 0
       ELSE counter > 0 /\ out_block = counter - 1

PhasesKept ==
  IF finalized = 1 THEN state = buffer
               ELSE pc = "idle" /\ out_buffer_len = 0

LoopKept ==
  /\ pc = "leftover" => offset = 0
  /\ pc = "blocks" /\ offset < len => out_buffer_pos = out_buffer_len

(***************************************************************************)
(* The part of the output written so far is the next piece of the stream.  *)
(***************************************************************************)
OutputInOrder ==
  \A i \in 0 .. offset - 1 : out[i] = Byte(buffer, Taken + i)

(***************************************************************************)
(* Every byte handed out is the next one of the stream, across early       *)
(* returns, left-over bytes and whole blocks (keccak_prng.c 118-167).      *)
(***************************************************************************)
StreamInv == BufferedBlock /\ PhasesKept /\ LoopKept /\ OutputInOrder

(***************************************************************************)
(* The generator is an extendable-output stream: whatever sizes a caller   *)
(* asks for, in whatever order, it receives consecutive pieces of the one  *)
(* stream its input determines, and a refused call changes nothing.        *)
(***************************************************************************)
ImplementsXof == Xof!Spec

=============================================================================
