------------------------------- MODULE SolShake --------------------------------
(***************************************************************************)
(* The incremental SHAKE-256 of the contracts (src/ZKNOX_shake.sol).  The  *)
(* input is collected in a buffer of its own, which shakePermute XORs into *)
(* the state; the state is permuted as soon as a block is full or has been *)
(* read to its end.  The struct is a reference: shakeDigest and            *)
(* shakeSqueeze change the caller's context, and sampleInBallNist goes on  *)
(* with the one it passed to shakeDigest.                                  *)
(*                                                                         *)
(* `direction` is left out: no function sets it to _SPONGE_SQUEEZING, so   *)
(* shakeUpdate's first branch is never taken and shakeDigest's always is.  *)
(* The callers call shakeDigest once per context, as `digested` records.   *)
(***************************************************************************)
EXTENDS SpongePadding

CONSTANTS Piece, Request, MaxInput, MaxOutput   \* as in Shake

VARIABLES
  state,       \* the blocks the state was permuted with
  buff, i,
  pc, todo,    \* the loop that runs and the bytes it still has to do
  total,       \* bytes passed in so far (history)
  digested,    \* whether shakeDigest was called
  squeezed     \* the bytes handed out (history)

vars == <<state, buff, i, pc, todo, total, digested, squeezed>>

Lesser(a, b) == IF a < b THEN a ELSE b

Xor(a, b) == (a \ b) \cup (b \ a)

Init ==
  /\ state = << >>
  /\ buff = ZeroBlock
  /\ i = 0
  /\ pc = "idle"
  /\ todo = 0
  /\ total = 0
  /\ digested = FALSE
  /\ squeezed = << >>

(* A new CtxShake, zero as Solidity makes it (shakeInit). *)
NewCtx ==
  /\ pc = "idle"
  /\ state' = << >>
  /\ buff' = ZeroBlock
  /\ i' = 0
  /\ total' = 0
  /\ digested' = FALSE
  /\ squeezed' = << >>
  /\ UNCHANGED <<pc, todo>>

(* shakeUpdate of n bytes. *)
Update(n) ==
  /\ pc = "idle"
  /\ ~digested
  /\ total + n <= MaxInput
  /\ pc' = "absorb"
  /\ todo' = n
  /\ total' = total + n
  /\ UNCHANGED <<state, buff, i, digested, squeezed>>

(* shakePermute; the buffer it returns is a new one. *)
Permute(b) ==
  /\ state' = Append(state, b)
  /\ buff' = ZeroBlock

(* The next n bytes of the input XORed into the buffer from `i` on. *)
Absorbed(n) ==
  [j \in Index |-> IF i <= j /\ j < i + n
                     THEN Xor(buff[j], {total - todo + j - i}) ELSE buff[j]]

AbsorbIntoBlock ==
  /\ pc = "absorb"
  /\ 0 < todo /\ todo < Rate - i
  /\ buff' = Absorbed(todo)
  /\ i' = i + todo
  /\ todo' = 0
  /\ UNCHANGED <<state, pc, total, digested, squeezed>>

AbsorbBlock ==
  /\ pc = "absorb"
  /\ todo > 0 /\ todo >= Rate - i
  /\ Permute(Absorbed(Rate - i))
  /\ i' = 0
  /\ todo' = todo - (Rate - i)
  /\ UNCHANGED <<pc, total, digested, squeezed>>

(* A slip: the position in the last block is taken for the one to read. *)
DigestFromPosition(n) ==
  /\ pc = "idle"
  /\ ~digested
  /\ n <= MaxOutput
  /\ Permute([j \in Index |-> Xor(buff[j], PadAt(j, i))])
  /\ digested' = TRUE
  /\ pc' = "squeeze"
  /\ todo' = n
  /\ UNCHANGED <<i, total, squeezed>>

(* shakeDigest of n bytes, up to its shakeSqueeze. *)
Digest(n) ==
  /\ pc = "idle"
  /\ ~digested
  /\ n <= MaxOutput
  /\ Permute([j \in Index |-> Xor(buff[j], PadAt(j, i))])
  /\ i' = 0
  /\ digested' = TRUE
  /\ pc' = "squeeze"
  /\ todo' = n
  /\ UNCHANGED <<total, squeezed>>

(* shakeSqueeze of n bytes. *)
Squeeze(n) ==
  /\ pc = "idle"
  /\ digested
  /\ Len(squeezed) + n <= MaxOutput
  /\ pc' = "squeeze"
  /\ todo' = n
  /\ UNCHANGED <<state, buff, i, total, digested, squeezed>>

(* The next n bytes of the state. *)
StateBytes(n) ==
  [j \in 1 .. n |-> [hash |-> state, at |-> i + j - 1, xored |-> {}]]

SqueezePart ==
  /\ pc = "squeeze"
  /\ 0 < todo /\ todo < Rate - i
  /\ squeezed' = squeezed \o StateBytes(todo)
  /\ i' = i + todo
  /\ todo' = 0
  /\ UNCHANGED <<state, buff, pc, total, digested>>

SqueezeBlock ==
  /\ pc = "squeeze"
  /\ todo > 0 /\ todo >= Rate - i
  /\ squeezed' = squeezed \o StateBytes(Rate - i)
  /\ Permute(buff)
  /\ i' = 0
  /\ todo' = todo - (Rate - i)
  /\ UNCHANGED <<pc, total, digested>>

Return ==
  /\ pc # "idle"
  /\ todo = 0
  /\ pc' = "idle"
  /\ UNCHANGED <<state, buff, i, todo, total, digested, squeezed>>

Next ==
  \/ NewCtx
  \/ \E n \in Piece : Update(n)
  \/ AbsorbIntoBlock
  \/ AbsorbBlock
  \/ \E n \in Request : Digest(n) \/ Squeeze(n)
  \/ SqueezePart
  \/ SqueezeBlock
  \/ Return

Spec == Init /\ [][Next]_vars

-----------------------------------------------------------------------------
(***************************************************************************)
(* The index is within the block between all steps of the loops, so that   *)
(* buff[i] and state[i >> 3] are in range (ZKNOX_shake.sol 150-266).       *)
(***************************************************************************)
TypeOK ==
  /\ state \in Seq([Index -> SUBSET (LastPad .. MaxInput - 1)])
  /\ buff \in [Index -> SUBSET (LastPad .. MaxInput - 1)]
  /\ i \in Index
  /\ pc \in {"idle", "absorb", "squeeze"}
  /\ todo \in Nat
  /\ total \in 0 .. MaxInput
  /\ digested \in BOOLEAN
  /\ Len(squeezed) <= MaxOutput
=============================================================================
