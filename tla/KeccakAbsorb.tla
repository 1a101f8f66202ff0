----------------------------- MODULE KeccakAbsorb -----------------------------
(***************************************************************************)
(* Keccak-256 over an input that comes in pieces: keccak_init, _update and *)
(* _final of keccak256.c, as the low-RAM generator uses them in its init,  *)
(* inject and flip (c-lowram/keccak_prng.c), without an input buffer.      *)
(*                                                                         *)
(* keccak_update is modelled step by step: the partial block left from the *)
(* calls before, then one step per whole block, which is read in place if  *)
(* the pointer is aligned and copied into ctx->message if it is not, then  *)
(* the leftovers.  The parameter `size` has 16 bits.                       *)
(***************************************************************************)
EXTENDS SpongePadding

CONSTANTS
  SizeSpace,   \* 2^16
  Size,        \* the lengths a caller passes
  MaxBytes     \* bound of the model: bytes of an input

VARIABLES
  hash,        \* the blocks processed
  message,     \* the buffer for a partial block
  rest,        \* bytes in it
  finalized,
  pc,          \* where keccak_update stands; "idle" outside it
  msg, size,   \* its parameters, msg as the number of the byte it points to
  idx,         \* its local variable
  aligned,     \* whether msg is a multiple of 8
  total,       \* bytes that all the calls were to hash (history)
  passed,      \* bytes that the callers passed to inject (history)
  ret

ctxVars == <<hash, message, rest, finalized>>
callVars == <<pc, msg, size, idx, aligned>>
history == <<total, passed>>
vars == <<ctxVars, callVars, history, ret>>

Lesser(a, b) == IF a < b THEN a ELSE b

Init ==
  /\ hash = << >>
  /\ message = ZeroBlock
  /\ rest = 0
  /\ finalized = 0
  /\ pc = "idle"
  /\ msg = 0
  /\ size = 0
  /\ idx = 0
  /\ aligned \in BOOLEAN
  /\ total = 0
  /\ passed = 0
  /\ ret = 0

(* inner_keccak256_init; the history starts over with the context. *)
InitCtx ==
  /\ pc = "idle"
  /\ hash' = << >>
  /\ message' = ZeroBlock
  /\ rest' = 0
  /\ finalized' = 0
  /\ total' = 0
  /\ passed' = 0
  /\ msg' = 0
  /\ ret' = 0
  /\ UNCHANGED <<pc, size, idx, aligned>>

InjectRefused ==
  /\ pc = "idle"
  /\ finalized = 1
  /\ ret' = -2
  /\ UNCHANGED <<ctxVars, callVars, history>>

(* A slip: the number of bytes in the queue is not reduced to a block. *)
InjectRestUnreduced(n) ==
  /\ pc = "idle"
  /\ finalized = 0
  /\ passed + n <= MaxBytes
  /\ pc' = "partial"
  /\ size' = n % SizeSpace
  /\ idx' = rest
  /\ rest' = rest + size'
  /\ aligned' \in BOOLEAN
  /\ msg' = total
  /\ total' = total + size'
  /\ passed' = passed + n
  /\ UNCHANGED <<hash, message, finalized, ret>>

(* inner_keccak256_inject of n bytes, up to the first lines of keccak_update. *)
Inject(n) ==
  /\ pc = "idle"
  /\ finalized = 0
  /\ passed + n <= MaxBytes
  /\ pc' = "partial"
  /\ size' = n % SizeSpace
  /\ idx' = rest
  /\ rest' = (rest + size') % Rate
  /\ aligned' \in BOOLEAN
  /\ msg' = total
  /\ total' = total + size'
  /\ passed' = passed + n
  /\ UNCHANGED <<hash, message, finalized, ret>>

(* memcpy(message + at, msg, n) *)
Copied(at, n) ==
  [i \in Index |-> IF at <= i /\ i < at + n THEN {msg + i - at} ELSE message[i]]

NoPartial ==
  /\ pc = "partial"
  /\ idx = 0
  /\ pc' = "blocks"
  /\ UNCHANGED <<ctxVars, msg, size, idx, aligned, history, ret>>

(* The partial block is filled up and processed. *)
FillPartial ==
  /\ pc = "partial"
  /\ idx > 0
  /\ Rate - idx <= size
  /\ message' = Copied(idx, Rate - idx)
  /\ hash' = Append(hash, message')
  /\ msg' = msg + Rate - idx
  /\ size' = size - (Rate - idx)
  /\ pc' = "blocks"
  /\ UNCHANGED <<rest, finalized, idx, aligned, history, ret>>

(* inject returns to its caller. *)
Return ==
  /\ pc' = "idle"
  /\ ret' = 0

(* The piece fits into the partial block: the early return. *)
ExtendPartial ==
  /\ pc = "partial"
  /\ idx > 0
  /\ size < Rate - idx
  /\ message' = Copied(idx, size)
  /\ Return
  /\ UNCHANGED <<hash, rest, finalized, msg, size, idx, aligned, history>>

ProcessBlock ==
  /\ pc = "blocks"
  /\ size >= Rate
  /\ hash' = Append(hash, Copied(0, Rate))
  /\ message' = IF aligned THEN message ELSE Copied(0, Rate)
  /\ msg' = msg + Rate
  /\ size' = size - Rate
  /\ UNCHANGED <<rest, finalized, pc, idx, aligned, history, ret>>

SaveLeftover ==
  /\ pc = "blocks"
  /\ size < Rate
  /\ message' = Copied(0, size)
  /\ Return
  /\ UNCHANGED <<hash, rest, finalized, msg, size, idx, aligned, history>>

(* A slip: the end of the queue is not cleared before the padding. *)
PaddedOverLeftovers ==
  [i \in Index |-> message[i] \cup PadAt(i, rest)]

(* memset of the end of the queue, |= 0x01 after the last byte, |= 0x80. *)
PaddedMessage ==
  [i \in Index |-> (IF i < rest THEN message[i] ELSE {}) \cup PadAt(i, rest)]

(* inner_keccak256_flip, with keccak_final. *)
Flip ==
  /\ pc = "idle"
  /\ finalized = 0
  /\ message' = PaddedMessage
  /\ hash' = Append(hash, message')
  /\ finalized' = 1
  /\ ret' = 0
  /\ UNCHANGED <<rest, callVars, history>>

FlipRefused ==
  /\ pc = "idle"
  /\ finalized = 1
  /\ ret' = -2
  /\ UNCHANGED <<ctxVars, callVars, history>>

Next ==
  \/ InitCtx
  \/ InjectRefused
  \/ \E n \in Size : Inject(n)
  \/ NoPartial
  \/ FillPartial
  \/ ExtendPartial
  \/ ProcessBlock
  \/ SaveLeftover
  \/ Flip
  \/ FlipRefused

Spec == Init /\ [][Next]_vars

-----------------------------------------------------------------------------
(***************************************************************************)
(* The copies of keccak_update stay within ctx->message, and the byte      *)
(* count within a block (keccak256.c 292-336).                             *)
(***************************************************************************)
TypeOK ==
  /\ hash \in Seq([Index -> SUBSET (LastPad .. MaxBytes - 1)])
  /\ message \in [Index -> SUBSET (LastPad .. MaxBytes - 1)]
  /\ rest \in Index
  /\ finalized \in {0, 1}
  /\ pc \in {"idle", "partial", "blocks"}
  /\ msg \in 0 .. total
  /\ size \in Nat
  /\ idx \in Index
  /\ aligned \in BOOLEAN
  /\ total \in 0 .. passed
  /\ passed \in 0 .. MaxBytes
  /\ ret \in {0, -2}

(***************************************************************************)
(* What is hashed in the end is the padded input and nothing else: no byte *)
(* of an earlier block is left in the queue (keccak256.c 344-363).         *)
(***************************************************************************)
HashOfInput == finalized = 1 => hash = Padded(total)

(***************************************************************************)
(* "Inject (absorb) data into the PRNG state" (c-lowram/keccak_prng.c 61): *)
(* an inject that returned 0 has taken in all the bytes it was given.      *)
(***************************************************************************)
InjectsAll == (pc = "idle" /\ ret = 0) => total = passed
=============================================================================
