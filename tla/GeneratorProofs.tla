---------------------------- MODULE GeneratorProofs ----------------------------
(***************************************************************************)
(* Proofs about the Keccak-256 generator of the C code, the one of the     *)
(* contracts and the two side by side, for every set of inputs, every      *)
(* buffer and block size and every sequence of calls.                      *)
(*                                                                         *)
(* IInv is inductive for the C generator: TypeOK alone is not, because the *)
(* position reached in out_buffer only stays inside it as long as the loop *)
(* asks for a block exactly when the previous one is used up (LoopKept),   *)
(* and the bytes handed out are only the right ones as long as the         *)
(* buffered block is the one before the counter (BufferedBlock) and the    *)
(* hashed input is the one in the buffer (PhasesKept).  For the pair, what *)
(* each caller has drawn is the beginning of the stream, as far as its own *)
(* generator has gone (CDrawn, SolDrawn).  mu is the first piece of output *)
(* of the C generator, so that what the callers obtain follows from IInv   *)
(* and from what the buffer holds between the calls (Collected).           *)
(***************************************************************************)
EXTENDS PrngPair, MuHash, SequenceTheorems, IntegerLemmas, TLAPS

IInv == TypeOK /\ StreamInv

(***************************************************************************)
(* A multiple of the block length and the next one.                        *)
(***************************************************************************)
LEMMA NextMultiple ==
  ASSUME NEW c \in Nat
  PROVE  /\ BlockLen * c \in Nat
         /\ BlockLen * (c + 1) = BlockLen * c + BlockLen
         /\ BlockLen * 0 = 0 /\ BlockLen * 1 = BlockLen
  BY KeccakPrngAssumption, PrngParametersAssumption

(***************************************************************************)
(* The generator starts in its invariant.                                  *)
(***************************************************************************)
LEMMA InitIInv == Init => IInv
  BY KeccakPrngAssumption, PrngParametersAssumption
  DEF Init, IInv, TypeOK, StreamInv, BufferedBlock, PhasesKept, LoopKept,
      OutputInOrder, NoBlock

(***************************************************************************)
(* The calls that leave the output side alone: inject, and the refusals.   *)
(***************************************************************************)
LEMMA InputStep ==
  ASSUME IInv, NEW c \in Chunk,
         Inject(c) \/ InjectRefused(c) \/ FlipRefused \/ ExtractRefused
  PROVE  IInv'
  <1> USE KeccakPrngAssumption, PrngParametersAssumption DEF IInv
  <1>1. /\ UNCHANGED <<state, finalized, counter, out_block, out_buffer_pos, out_buffer_len>>
        /\ UNCHANGED <<pc, len, offset, out, given>>
    BY DEF Inject, InjectRefused, FlipRefused, ExtractRefused,
           inputVars, outputVars, callVars
  <1>2. pc = "idle"
    BY DEF Inject, InjectRefused, FlipRefused, ExtractRefused
  <1>3. /\ buffer' \in Seq(Chunk)
        /\ buffer_len' \in 0 .. BufferSize
        /\ ret' \in {0, -2, -3}
        /\ finalized = 1 => buffer' = buffer
    <2>1. CASE Inject(c)
      BY <2>1 DEF Inject, Fits, TypeOK
    <2>2. CASE InjectRefused(c) \/ FlipRefused \/ ExtractRefused
      BY <2>2 DEF InjectRefused, FlipRefused, ExtractRefused, inputVars, TypeOK
    <2>3. QED BY <2>1, <2>2
  <1>4. TypeOK'
    BY <1>1, <1>3 DEF TypeOK
  <1>5. len = 0 /\ offset = 0
    BY <1>2 DEF TypeOK
  <1>6. StreamInv'
    BY <1>1, <1>2, <1>3, <1>5
       DEF StreamInv, BufferedBlock, PhasesKept, LoopKept, OutputInOrder
  <1>7. QED BY <1>4, <1>6

(* inner_keccak256_init and inner_keccak256_flip empty the output buffer. *)
LEMMA PhaseStep ==
  ASSUME IInv, InitCtx \/ Flip
  PROVE  IInv'
  <1> USE KeccakPrngAssumption, PrngParametersAssumption DEF IInv
  <1>1. /\ UNCHANGED <<out_block, pc, len, offset, out>>
        /\ pc = "idle" /\ len = 0 /\ offset = 0
        /\ out_buffer_pos' = 0 /\ out_buffer_len' = 0 /\ ret' = 0
    BY DEF TypeOK, InitCtx, Flip, callVars
  <1>2. /\ buffer' \in Seq(Chunk) /\ buffer_len' \in 0 .. BufferSize
        /\ state' = buffer' \/ finalized' = 0
        /\ state' \in Seq(Chunk)
        /\ finalized' \in {0, 1}
        /\ counter' = 0
    <2>1. CASE InitCtx
      BY <2>1 DEF TypeOK, InitCtx
    <2>2. CASE Flip
      BY <2>2 DEF TypeOK, StreamInv, BufferedBlock, PhasesKept, Flip
    <2>3. QED BY <2>1, <2>2
  <1>3. TypeOK'
    BY <1>1, <1>2 DEF TypeOK
  <1>4. StreamInv'
    BY <1>1, <1>2 DEF StreamInv, BufferedBlock, PhasesKept, LoopKept, OutputInOrder
  <1>5. QED BY <1>3, <1>4

(* Copying into an array leaves an array of the same length. *)
LEMMA CopyKeepsArray ==
  ASSUME NEW m \in Nat, IsArray(out, m), NEW block, NEW first, NEW n
  PROVE  DOMAIN out = 0 .. m - 1 /\ IsArray(Copied(block, first, n), m)
  BY DEF IsArray, Copied

(* The start of a request, and the passage to the loop. *)
LEMMA BeginStep ==
  ASSUME IInv, NEW n \in Request, ExtractBegin(n) \/ NoLeftover
  PROVE  IInv'
  <1> USE KeccakPrngAssumption, PrngParametersAssumption DEF IInv
  <1>0. /\ UNCHANGED <<buffer, buffer_len, state, finalized>>
        /\ UNCHANGED <<counter, out_block, out_buffer_pos, out_buffer_len, ret>>
    BY DEF ExtractBegin, NoLeftover, inputVars, outputVars
  <1>1. TypeOK'
    <2>1. CASE ExtractBegin(n)
      <3>1. len' = n /\ offset' = 0 /\ pc' = "leftover" /\ n \in Nat
        BY <2>1 DEF ExtractBegin
      <3>2. IsArray(out', n)
        BY <2>1 DEF ExtractBegin, IsArray
      <3>3. IsArray(out, len)'
        BY <3>1, <3>2
      <3>4. QED BY <1>0, <3>1, <3>3 DEF TypeOK
    <2>2. CASE NoLeftover
      BY <1>0, <2>2 DEF TypeOK, NoLeftover
    <2>3. QED BY <2>1, <2>2
  <1>2. offset' = 0
    BY DEF StreamInv, LoopKept, ExtractBegin, NoLeftover
  <1>3. BufferedBlock' /\ PhasesKept' /\ LoopKept'
    BY <1>2 DEF TypeOK, StreamInv, BufferedBlock, PhasesKept, LoopKept,
           ExtractBegin, NoLeftover, inputVars, outputVars
  <1>4. OutputInOrder'
    BY <1>2 DEF OutputInOrder
  <1>5. QED BY <1>1, <1>3, <1>4 DEF StreamInv

(***************************************************************************)
(* What ServeLeftover and NextBlock have in common: n bytes of one block   *)
(* are copied behind the ones already there, and they are the next ones    *)
(* of the stream.                                                          *)
(***************************************************************************)
LEMMA CopyKeepsOrder ==
  ASSUME IInv, NEW block \in Nat, NEW first \in Nat, NEW n \in Nat,
         finalized = 1, pc # "idle",
         offset + n <= len,
         BlockLen * block + first = Taken + offset,
         NEW i \in 0 .. offset + n - 1
  PROVE  Copied(block, first, n)[i] = Byte(buffer, Taken + i)
  <1>1. /\ i \in DOMAIN out
        /\ state = buffer
        /\ BlockLen * block \in Nat
        /\ Taken \in Int
    <2>1. DOMAIN out = 0 .. len - 1
      BY CopyKeepsArray DEF IInv, TypeOK
    <2>2. QED BY <2>1, NextMultiple, KeccakPrngAssumption, PrngParametersAssumption
                 DEF IInv, TypeOK, StreamInv, PhasesKept, Taken, Consumed
  <1>2. CASE i \in offset .. offset + n - 1
    <2>1. BlockLen * block + first + (i - offset) = Taken + i
      BY <1>1, <1>2 DEF IInv, TypeOK
    <2>2. QED BY <1>1, <1>2, <2>1 DEF Copied
  <1>3. CASE i \in 0 .. offset - 1
    BY <1>1, <1>3 DEF Copied, IInv, TypeOK, StreamInv, OutputInOrder
  <1>4. QED BY <1>2, <1>3 DEF IInv, TypeOK

(***************************************************************************)
(* The bytes left from the last block are handed out first; the request    *)
(* is answered, or every one of them is used up.                           *)
(***************************************************************************)
LEMMA LeftoverStep ==
  ASSUME IInv, ServeLeftover
  PROVE  IInv'
  <1> USE KeccakPrngAssumption, PrngParametersAssumption
  <1> DEFINE n == Lesser(len, out_buffer_len - out_buffer_pos)
  <1>1. /\ n \in Nat /\ n <= len /\ n <= out_buffer_len - out_buffer_pos
        /\ out_buffer_len - out_buffer_pos \in Nat
        /\ offset = 0
        /\ counter > 0 /\ out_block = counter - 1 /\ out_buffer_len = BlockLen
        /\ finalized = 1 /\ pc # "idle"
    BY DEF IInv, TypeOK, StreamInv, BufferedBlock, PhasesKept, LoopKept, ServeLeftover, Lesser
  <1>2. /\ out_buffer_pos' = out_buffer_pos + n
        /\ ContinueAfter(Copied(out_block, out_buffer_pos, n), n)
        /\ UNCHANGED <<buffer, buffer_len, state, finalized, counter, out_block, out_buffer_len>>
    BY DEF ServeLeftover, inputVars
  <1> HIDE DEF n
  <1>3. BufferedBlock' /\ PhasesKept'
    BY <1>1, <1>2 DEF IInv, TypeOK, StreamInv, BufferedBlock, PhasesKept
  <1>4. CASE n = len
    <2>1. len' = 0 /\ offset' = 0 /\ pc' = "idle" /\ ret' = 0
      BY <1>2, <1>4 DEF ContinueAfter, Return
    <2>2. TypeOK'
      BY <1>1, <1>2, <2>1 DEF IInv, TypeOK
    <2>3. LoopKept' /\ OutputInOrder'
      BY <2>1 DEF LoopKept, OutputInOrder
    <2>4. QED BY <1>3, <2>2, <2>3 DEF IInv, StreamInv
  <1>5. CASE n # len
    <2>1. /\ pc' = "blocks" /\ offset' = n
          /\ out' = Copied(out_block, out_buffer_pos, n)
          /\ UNCHANGED <<len, given, ret>>
      BY <1>1, <1>2, <1>5 DEF ContinueAfter, IInv, TypeOK
    <2>2. n = out_buffer_len - out_buffer_pos
      BY <1>1, <1>5 DEF n, Lesser, IInv, TypeOK
    <2>3. TypeOK'
      <3>1. IsArray(out, len)'
        BY <1>1, <2>1, CopyKeepsArray DEF IInv, TypeOK
      <3>2. QED BY <1>1, <1>2, <2>1, <3>1 DEF IInv, TypeOK
    <2>4. LoopKept'
      BY <1>1, <1>2, <2>1, <2>2 DEF LoopKept, IInv, TypeOK
    <2>5. BlockLen * out_block + out_buffer_pos = Taken + offset
      <3>1. BlockLen * counter = BlockLen * out_block + BlockLen
        BY <1>1, NextMultiple, out_block \in Nat, counter = out_block + 1
           DEF IInv, TypeOK
      <3>2. BlockLen * out_block \in Nat
        BY <1>1, NextMultiple, out_block \in Nat DEF IInv, TypeOK
      <3>3. QED BY <1>1, <3>1, <3>2 DEF Taken, Consumed, IInv, TypeOK
    <2>6. Taken' = Taken
      <3>1. BlockLen * counter \in Nat
        BY NextMultiple DEF IInv, TypeOK
      <3>2. QED BY <1>1, <1>2, <2>1, <3>1 DEF Taken, Consumed, IInv, TypeOK
    <2>7. OutputInOrder'
      <3>1. ASSUME NEW i \in 0 .. n - 1
            PROVE  Copied(out_block, out_buffer_pos, n)[i] = Byte(buffer, Taken + i)
        <4>1. out_block \in Nat /\ out_buffer_pos \in Nat /\ offset + n <= len
              /\ i \in 0 .. offset + n - 1
          BY <1>1 DEF IInv, TypeOK
        <4>2. QED BY <1>1, <2>5, <4>1, CopyKeepsOrder
      <3>2. QED BY <1>2, <2>1, <2>6, <3>1 DEF OutputInOrder
    <2>8. QED BY <1>3, <2>3, <2>4, <2>7 DEF IInv, StreamInv
  <1>6. QED BY <1>4, <1>5

(***************************************************************************)
(* The loop computes the next block and copies as much of it as the        *)
(* request still lacks.                                                    *)
(***************************************************************************)
LEMMA BlockStep ==
  ASSUME IInv, NextBlock
  PROVE  IInv'
  <1> USE KeccakPrngAssumption, PrngParametersAssumption
  <1> DEFINE n == Lesser(len - offset, BlockLen)
  <1>1. /\ n \in Nat /\ offset + n <= len /\ n <= BlockLen
        /\ n # BlockLen => offset + n = len
        /\ out_buffer_pos = out_buffer_len
        /\ counter \in Nat /\ offset \in Nat /\ len \in Nat /\ len > 0
        /\ finalized = 1 /\ pc # "idle"
    BY DEF IInv, TypeOK, StreamInv, PhasesKept, LoopKept, NextBlock, Lesser
  <1>2. /\ out_block' = counter /\ counter' = counter + 1
        /\ out_buffer_len' = BlockLen /\ out_buffer_pos' = n
        /\ out' = Copied(counter, 0, n) /\ offset' = offset + n
        /\ UNCHANGED <<buffer, buffer_len, state, finalized, pc, len, ret>>
    BY DEF NextBlock, inputVars
  <1>3. pc = "blocks"
    BY DEF NextBlock
  <1> HIDE DEF n
  <1>4. TypeOK'
    <2>1. IsArray(out, len)'
      BY <1>1, <1>2, CopyKeepsArray DEF IInv, TypeOK
    <2>2. QED BY <1>1, <1>2, <1>3, <2>1 DEF IInv, TypeOK
  <1>5. BufferedBlock' /\ PhasesKept' /\ LoopKept'
    BY <1>1, <1>2, <1>3 DEF IInv, TypeOK, StreamInv, BufferedBlock, PhasesKept, LoopKept
  <1>6. /\ BlockLen * counter = Taken + offset
        /\ Taken' = Taken
    <2>1. BlockLen * counter \in Nat /\ BlockLen * (counter + 1) = BlockLen * counter + BlockLen
      BY <1>1, NextMultiple
    <2>2. BlockLen * counter = Taken + offset
      BY <1>1, <2>1 DEF Taken, Consumed, IInv, TypeOK
    <2>3. Taken' = BlockLen * (counter + 1) - (BlockLen - n) - (offset + n)
      BY <1>2 DEF Taken, Consumed
    <2>4. Taken' = BlockLen * counter - offset
      BY <1>1, <2>1, <2>3
    <2>5. Taken = BlockLen * counter - offset
      BY <1>1, <2>1 DEF Taken, Consumed, IInv, TypeOK
    <2>6. QED BY <2>2, <2>4, <2>5
  <1>7. OutputInOrder'
    <2>1. ASSUME NEW i \in 0 .. offset + n - 1
          PROVE  Copied(counter, 0, n)[i] = Byte(buffer, Taken + i)
      <3>1. BlockLen * counter + 0 = Taken + offset
        BY <1>1, <1>6, NextMultiple
      <3>2. 0 \in Nat /\ i \in 0 .. offset + n - 1
        OBVIOUS
      <3>3. QED BY <1>1, <3>1, <3>2, CopyKeepsOrder
    <2>2. buffer' = buffer /\ offset' = offset + n /\ out' = Copied(counter, 0, n)
      BY <1>2
    <2>3. Taken' = Taken
      BY <1>6
    <2>4. QED BY <1>1, <2>1, <2>2, <2>3 DEF OutputInOrder
  <1>8. QED BY <1>4, <1>5, <1>7 DEF IInv, StreamInv

(* The request is answered. *)
LEMMA ReturnStep ==
  ASSUME IInv, ExtractReturn
  PROVE  IInv'
  <1>1. /\ len' = 0 /\ offset' = 0 /\ pc' = "idle" /\ ret' = 0
        /\ UNCHANGED <<inputVars, outputVars>>
    BY DEF ExtractReturn, Return
  <1>2. TypeOK'
    BY <1>1, KeccakPrngAssumption, PrngParametersAssumption
      DEF IInv, TypeOK, inputVars, outputVars
  <1>3. finalized = 1
    BY DEF ExtractReturn, IInv, StreamInv, PhasesKept
  <1>4. StreamInv'
    BY <1>1, <1>3 DEF IInv, StreamInv, BufferedBlock, PhasesKept, LoopKept, OutputInOrder,
                inputVars, outputVars
  <1>5. QED BY <1>2, <1>4 DEF IInv

(***************************************************************************)
(* Every call, refused or not, keeps the invariant.                        *)
(***************************************************************************)
LEMMA StepIInv == IInv /\ [Next]_vars => IInv'
  <1> SUFFICES ASSUME IInv, [Next]_vars PROVE IInv'
    OBVIOUS
  <1>1. CASE InitCtx \/ Flip
    BY <1>1, PhaseStep
  <1>2. ASSUME NEW c \in Chunk, Inject(c) \/ InjectRefused(c)
        PROVE  IInv'
    BY <1>2, InputStep
  <1>3. CASE FlipRefused \/ ExtractRefused
    BY <1>3, KeccakPrngAssumption, PrngParametersAssumption
       DEF IInv, TypeOK, StreamInv, BufferedBlock, PhasesKept, LoopKept, OutputInOrder,
           Taken, Consumed, FlipRefused, ExtractRefused, inputVars, outputVars, callVars
  <1>4. ASSUME NEW n \in Request, ExtractBegin(n)
        PROVE  IInv'
    BY <1>4, BeginStep
  <1>5. CASE ServeLeftover
    BY <1>5, LeftoverStep
  <1>6. CASE NoLeftover
    BY <1>6, KeccakPrngAssumption, PrngParametersAssumption
       DEF IInv, TypeOK, StreamInv, BufferedBlock, PhasesKept, LoopKept, OutputInOrder,
           NoLeftover, inputVars, outputVars
  <1>7. CASE NextBlock
    BY <1>7, BlockStep
  <1>8. CASE ExtractReturn
    BY <1>8, ReturnStep
  <1>9. CASE UNCHANGED vars
    BY <1>9 DEF vars, inputVars, outputVars, callVars, IInv, TypeOK, StreamInv,
                BufferedBlock, PhasesKept, LoopKept, OutputInOrder, Taken, Consumed
  <1>10. QED
    BY <1>1, <1>2, <1>3, <1>4, <1>5, <1>6, <1>7, <1>8, <1>9 DEF Next

(***************************************************************************)
(* The bookkeeping of the context stays within its types; in particular    *)
(* the input never exceeds the array inject copies it into.                *)
(***************************************************************************)
THEOREM TypeCorrect == Spec => []TypeOK
  <1>1. IInv => TypeOK
    BY DEF IInv
  <1>2. QED BY InitIInv, StepIInv, <1>1, PTL DEF Spec

(***************************************************************************)
(* The buffered block, the counter and the phases fit together, and the    *)
(* output filled so far is the next piece of the stream.                   *)
(***************************************************************************)
THEOREM StreamCorrect == Spec => []StreamInv
  <1>1. IInv => StreamInv
    BY DEF IInv
  <1>2. QED BY InitIInv, StepIInv, <1>1, PTL DEF Spec

-----------------------------------------------------------------------------
(***************************************************************************)
(* Refinement of the abstract stream.                                      *)
(***************************************************************************)

(* The whole array of a request is the next piece of the stream. *)
LEMMA WholePiece ==
  ASSUME NEW f, NEW m \in Nat, NEW p, IsArray(f, m),
         \A i \in 0 .. m - 1 : f[i] = Byte(buffer, p + i)
  PROVE  f = Xof!Piece(buffer, p, m)
  BY DEF IsArray, Xof!Piece, Xof!Byte, Byte

(***************************************************************************)
(* The calls that concern the input map to the abstract calls of the same  *)
(* name, and a refused call to an abstract refusal.                        *)
(***************************************************************************)
LEMMA InputRefines ==
  ASSUME IInv, InitCtx \/ Flip \/ FlipRefused \/ ExtractRefused
               \/ (\E c \in Chunk : Inject(c) \/ InjectRefused(c))
  PROVE  Xof!Next
  <1>1. pc = "idle" /\ offset = 0
    BY KeccakPrngAssumption, PrngParametersAssumption
       DEF InitCtx, Flip, FlipRefused, ExtractRefused, Inject, InjectRefused, IInv, TypeOK
  <1>2. ASSUME finalized = 0 PROVE Taken = 0
    BY <1>1, <1>2, KeccakPrngAssumption, PrngParametersAssumption, NextMultiple
       DEF IInv, TypeOK, StreamInv, PhasesKept, BufferedBlock, Taken, Consumed
  <1>3. CASE InitCtx
    <2>1. Taken' = 0
      BY <1>1, <1>3, KeccakPrngAssumption, PrngParametersAssumption, NextMultiple
        DEF InitCtx, Taken, Consumed
    <2>2. Xof!Reset
      BY <1>3, <2>1 DEF InitCtx, Xof!Reset
    <2>3. QED BY <2>2 DEF Xof!Next
  <1>4. CASE Flip
    <2>1. Taken = 0 /\ Taken' = Taken
      BY <1>1, <1>2, <1>4, KeccakPrngAssumption, PrngParametersAssumption, NextMultiple
         DEF Flip, Taken, Consumed, callVars, IInv, TypeOK, StreamInv, PhasesKept, BufferedBlock
    <2>2. Xof!Finalize
      BY <1>4, <2>1 DEF Flip, Xof!Finalize, callVars
    <2>3. QED BY <2>2 DEF Xof!Next
  <1>5. CASE FlipRefused \/ ExtractRefused
    <2>1. Taken' = Taken
      BY <1>5 DEF FlipRefused, ExtractRefused, Taken, Consumed, outputVars, callVars
    <2>2. Xof!Refuse
      BY <1>5, <2>1 DEF FlipRefused, ExtractRefused, Xof!Refuse, inputVars, callVars
    <2>3. QED BY <2>2 DEF Xof!Next
  <1>6. ASSUME NEW c \in Chunk, Inject(c)
        PROVE  Xof!Next
    <2>1. Taken' = Taken
      BY <1>6 DEF Inject, Taken, Consumed, outputVars, callVars
    <2>2. Xof!Absorb(c)
      BY <1>6, <2>1 DEF Inject, Xof!Absorb, callVars
    <2>3. QED BY <2>2 DEF Xof!Next
  <1>7. ASSUME NEW c \in Chunk, InjectRefused(c)
        PROVE  Xof!Next
    <2>1. Taken' = Taken
      BY <1>7 DEF InjectRefused, Taken, Consumed, outputVars, callVars
    <2>2. ret' # 0
      BY <1>7 DEF InjectRefused
    <2>3. Xof!Refuse
      BY <1>7, <2>1, <2>2 DEF InjectRefused, Xof!Refuse, inputVars, callVars
    <2>4. QED BY <2>3 DEF Xof!Next
  <1>8. QED BY <1>3, <1>4, <1>5, <1>6, <1>7

(***************************************************************************)
(* Extract is one abstract request, which takes place when it returns; its *)
(* other steps are invisible to the caller.                                *)
(***************************************************************************)
LEMMA SilentRefines ==
  ASSUME IInv, IInv', NextBlock \/ NoLeftover \/ (\E n \in Request : ExtractBegin(n))
  PROVE  UNCHANGED Xof!xofVars
  <1>1. UNCHANGED <<buffer, finalized, given, ret>>
    BY DEF NextBlock, NoLeftover, ExtractBegin, inputVars
  <1>2. Taken' = Taken
    <2>1. CASE NextBlock
      <3> DEFINE n == Lesser(len - offset, BlockLen)
      <3>1. /\ counter' = counter + 1 /\ offset' = offset + n
            /\ out_buffer_len' = BlockLen /\ out_buffer_pos' = n
            /\ n \in Int /\ offset \in Nat /\ counter \in Nat
            /\ out_buffer_pos = out_buffer_len /\ out_buffer_len \in Nat
        BY <2>1, KeccakPrngAssumption, PrngParametersAssumption
          DEF NextBlock, IInv, TypeOK, StreamInv, LoopKept, Lesser
      <3> HIDE DEF n
      <3>2. /\ BlockLen * counter \in Nat /\ BlockLen \in Nat
            /\ BlockLen * (counter + 1) = BlockLen * counter + BlockLen
        BY <3>1, NextMultiple, KeccakPrngAssumption, PrngParametersAssumption
      <3>3. Taken' = BlockLen * (counter + 1) - (BlockLen - n) - (offset + n)
        BY <3>1 DEF Taken, Consumed
      <3>4. Taken = BlockLen * counter - offset
        BY <3>1, <3>2 DEF Taken, Consumed
      <3>5. QED BY <3>1, <3>2, <3>3, <3>4
    <2>2. CASE NoLeftover
      BY <2>2 DEF NoLeftover, Taken, Consumed, outputVars
    <2>3. ASSUME NEW n \in Request, ExtractBegin(n) PROVE Taken' = Taken
      BY <2>3, KeccakPrngAssumption, PrngParametersAssumption
        DEF ExtractBegin, Taken, Consumed, outputVars, IInv, TypeOK
    <2>4. QED BY <2>1, <2>2, <2>3
  <1>3. QED BY <1>1, <1>2 DEF Xof!xofVars

LEMMA ReturnRefines ==
  ASSUME IInv, ExtractReturn
  PROVE  len \in Request /\ Xof!Squeeze(len)
  <1>1. /\ len \in Request /\ len \in Nat /\ offset = len
        /\ finalized = 1 /\ IsArray(out, len)
        /\ UNCHANGED <<buffer, finalized, counter, out_buffer_pos, out_buffer_len>>
        /\ given' = out /\ ret' = 0 /\ offset' = 0
    BY DEF ExtractReturn, Return, IInv, TypeOK, StreamInv, PhasesKept, inputVars, outputVars
  <1>2. Taken' = Taken + len
    <2>1. BlockLen * counter \in Nat
      BY NextMultiple DEF IInv, TypeOK
    <2>2. QED BY <1>1, <2>1, KeccakPrngAssumption, PrngParametersAssumption
      DEF Taken, Consumed, IInv, TypeOK
  <1>3. given' = Xof!Piece(buffer, Taken, len)
    BY <1>1, WholePiece DEF IInv, StreamInv, OutputInOrder
  <1>4. QED BY <1>1, <1>2, <1>3 DEF Xof!Squeeze

LEMMA LeftoverRefines ==
  ASSUME IInv, ServeLeftover
  PROVE  IF pc' = "idle" THEN len \in Request /\ Xof!Squeeze(len) ELSE UNCHANGED Xof!xofVars
  <1> USE KeccakPrngAssumption, PrngParametersAssumption
  <1> DEFINE n == Lesser(len, out_buffer_len - out_buffer_pos)
             array == Copied(out_block, out_buffer_pos, n)
  <1>1. /\ n \in Nat /\ n <= len /\ offset = 0
        /\ counter \in Nat /\ counter > 0 /\ out_block = counter - 1
        /\ out_buffer_len = BlockLen /\ out_buffer_pos \in Nat
        /\ finalized = 1 /\ pc # "idle" /\ len \in Request /\ len \in Nat
    BY DEF IInv, TypeOK, StreamInv, BufferedBlock, PhasesKept, LoopKept, ServeLeftover, Lesser
  <1>2. /\ out_buffer_pos' = out_buffer_pos + n
        /\ ContinueAfter(array, n)
        /\ UNCHANGED <<buffer, finalized, counter, out_block, out_buffer_len>>
    BY DEF ServeLeftover, inputVars
  <1>3. BlockLen * out_block + out_buffer_pos = Taken + offset
    <2>1. out_block \in Nat /\ counter = out_block + 1
      BY <1>1
    <2>2. /\ BlockLen * out_block \in Nat
          /\ BlockLen * counter = BlockLen * out_block + BlockLen
      BY <2>1, NextMultiple
    <2>3. QED BY <1>1, <2>2 DEF Taken, Consumed
  <1>4. BlockLen * counter \in Nat
    BY <1>1, NextMultiple
  <1>5. offset' \in Int => Taken' = Taken + n - offset'
    <2>1. Taken' = BlockLen * counter - (out_buffer_len - (out_buffer_pos + n)) - offset'
      BY <1>2 DEF Taken, Consumed
    <2>2. Taken = BlockLen * counter - (out_buffer_len - out_buffer_pos) - 0
      BY <1>1 DEF Taken, Consumed
    <2>3. QED BY <1>1, <1>4, <2>1, <2>2
  <1> HIDE DEF n
  <1>6. CASE n = len
    <2>1. given' = array /\ ret' = 0 /\ offset' = 0
      BY <1>2, <1>6 DEF ContinueAfter, Return
    <2>2. IsArray(array, len)
      BY <1>1, CopyKeepsArray DEF IInv, TypeOK
    <2>3. ASSUME NEW i \in 0 .. len - 1
          PROVE  array[i] = Byte(buffer, Taken + i)
      <3>1. out_block \in Nat /\ offset + n <= len /\ i \in 0 .. offset + n - 1
        BY <1>1, <1>6
      <3>2. QED BY <1>1, <1>3, <3>1, CopyKeepsOrder
    <2>4. given' = Xof!Piece(buffer, Taken, len)
      <3> HIDE DEF array
      <3>1. QED BY <1>1, <2>1, <2>2, <2>3, WholePiece
    <2>5. Taken' = Taken + len
      BY <1>1, <1>4, <1>5, <1>6, <2>1 DEF Taken, Consumed
    <2>6. Xof!Squeeze(len)
      BY <1>1, <1>2, <2>1, <2>4, <2>5 DEF Xof!Squeeze
    <2>7. pc' = "idle"
      BY <1>2, <1>6 DEF ContinueAfter, Return
    <2>8. QED BY <1>1, <2>6, <2>7
  <1>7. CASE n # len
    <2>1. UNCHANGED <<given, ret>> /\ offset' = n /\ pc' # "idle"
      BY <1>1, <1>2, <1>7 DEF ContinueAfter
    <2>2. Taken' = Taken
      BY <1>1, <1>4, <1>5, <2>1 DEF Taken, Consumed
    <2>3. QED BY <1>2, <2>1, <2>2 DEF Xof!xofVars
  <1>8. QED BY <1>6, <1>7

(***************************************************************************)
(* The C generator implements the abstract stream: for every input, every  *)
(* buffer and block size and every sequence of calls, the caller receives  *)
(* consecutive pieces of the one stream the accepted inputs determine.     *)
(***************************************************************************)
THEOREM Refinement == Spec => ImplementsXof
  <1>1. Init => Xof!Init
    BY KeccakPrngAssumption, PrngParametersAssumption, NextMultiple
      DEF Init, Xof!Init, Taken, Consumed
  <1>2. ASSUME IInv, IInv', [Next]_vars
        PROVE  [Xof!Next]_Xof!xofVars
    <2>1. CASE UNCHANGED vars
      BY <2>1 DEF vars, inputVars, outputVars, callVars, Xof!xofVars, Taken, Consumed
    <2>2. CASE Next
      BY <1>2, <2>2, InputRefines, SilentRefines, ReturnRefines, LeftoverRefines
        DEF Next, Xof!Next
    <2>3. QED BY <1>2, <2>1, <2>2
  <1>3. QED BY InitIInv, StepIInv, <1>1, <1>2, PTL DEF Spec, ImplementsXof, Xof!Spec

-----------------------------------------------------------------------------
(***************************************************************************)
(* The contracts' generator, for every block length and every input.  The  *)
(* inductive invariant is its TypeOK with PoolInStep: the number of unread *)
(* bytes, the shift of the word and the counter determine one another.     *)
(***************************************************************************)

SolIInv == Sol!TypeOK /\ Sol!PoolInStep

(* The two flags: Boolean-valued, and settled by the actions alone. *)
LEMMA SolFlagsStep ==
  ASSUME Sol!TypeOK, Sol!Next
  PROVE  sol_ready' \in BOOLEAN /\ sol_worded' \in BOOLEAN
  BY Zenon
    DEF Sol!TypeOK, Sol!Next, Sol!Concat, Sol!InitPrng, Sol!NewPrng, Sol!NextByte,
        Sol!FirstBlock, Sol!RefillBlock

LEMMA SolInitIInv == Sol!Init => SolIInv
  <1>1. Sol!Init => sol_ready \in BOOLEAN /\ sol_worded \in BOOLEAN
    BY Zenon DEF Sol!Init
  <1>2. Sol!Init => /\ sol_input \in Seq(Chunk) /\ sol_state \in Seq(Chunk) /\ sol_counter \in Nat
                /\ sol_pool \in [block : Nat, shift : Nat] /\ sol_remaining \in Nat
    BY DEF Sol!Init
  <1>3. QED BY <1>1, <1>2 DEF Sol!Init, SolIInv, Sol!TypeOK, Sol!PoolInStep

LEMMA SolStepIInv == SolIInv /\ [Sol!Next]_Sol!vars => SolIInv'
  <1> SUFFICES ASSUME SolIInv, [Sol!Next]_Sol!vars PROVE SolIInv'
    OBVIOUS
  <1> USE PrngParametersAssumption
  <1>1. CASE UNCHANGED Sol!vars
    BY <1>1 DEF Sol!vars, SolIInv, Sol!TypeOK, Sol!PoolInStep
  <1>2. CASE Sol!Next
    <2>1. sol_ready' \in BOOLEAN /\ sol_worded' \in BOOLEAN
      BY <1>2, SolFlagsStep DEF SolIInv
    <2>2. ASSUME NEW c \in Chunk, Sol!Concat(c) PROVE SolIInv'
      BY <2>1, <2>2 DEF Sol!Concat, SolIInv, Sol!TypeOK, Sol!PoolInStep
    <2>3. CASE Sol!InitPrng
      BY <2>1, <2>3 DEF Sol!InitPrng, SolIInv, Sol!TypeOK, Sol!PoolInStep
    <2>4. CASE Sol!NewPrng
      BY <2>1, <2>4 DEF Sol!NewPrng, SolIInv, Sol!TypeOK, Sol!PoolInStep
    <2>5. CASE Sol!NextByte
      <3>1. sol_ready /\ ~sol_worded /\ UNCHANGED <<sol_input, sol_ready, sol_state, sol_worded>>
        BY <2>5 DEF Sol!NextByte
      <3>2. CASE sol_remaining = 0
        <4>1. /\ sol_pool' = [block |-> sol_counter, shift |-> 1]
              /\ sol_remaining' = BlockLen - 1 /\ sol_counter' = sol_counter + 1
          BY <2>5, <3>2 DEF Sol!NextByte, Sol!FreshPool, Sol!Byte, Byte
        <4>2. QED BY <2>1, <3>1, <4>1 DEF SolIInv, Sol!TypeOK, Sol!PoolInStep
      <3>3. CASE sol_remaining # 0
        <4>1. /\ sol_pool' = [sol_pool EXCEPT !.shift = @ + 1]
              /\ sol_remaining' = sol_remaining - 1 /\ sol_counter' = sol_counter
          BY <2>5, <3>3 DEF Sol!NextByte, Sol!CurrentPool, Sol!Byte, Byte
        <4>2. /\ sol_pool'.block = sol_pool.block /\ sol_pool'.shift = sol_pool.shift + 1
              /\ sol_pool' \in [block : Nat, shift : Nat]
          BY <4>1 DEF SolIInv, Sol!TypeOK
        <4>3. QED BY <2>1, <3>1, <3>3, <4>1, <4>2 DEF SolIInv, Sol!TypeOK, Sol!PoolInStep
      <3>4. QED BY <3>2, <3>3
    <2>6. CASE Sol!FirstBlock
      BY <2>1, <2>6 DEF Sol!FirstBlock, SolIInv, Sol!TypeOK, Sol!PoolInStep
    <2>7. CASE Sol!RefillBlock
      BY <2>1, <2>7 DEF Sol!RefillBlock, Sol!FreshPool, SolIInv, Sol!TypeOK, Sol!PoolInStep
    <2>8. QED BY <1>2, <2>2, <2>3, <2>4, <2>5, <2>6, <2>7 DEF Sol!Next
  <1>3. QED BY <1>1, <1>2

(***************************************************************************)
(* nextByte never returns one of the zeros shifted into the word, and a    *)
(* block read as a whole is never one some bytes of which were drawn.      *)
(***************************************************************************)
THEOREM PoolCorrect == Sol!Spec => [](Sol!TypeOK /\ Sol!PoolInStep)
  <1>1. QED BY SolInitIInv, SolStepIInv, PTL DEF Sol!Spec, SolIInv

(***************************************************************************)
(* Each way of drawing is one abstract request.                            *)
(***************************************************************************)
LEMMA SolNextByteRefines ==
  ASSUME SolIInv, Sol!NextByte
  PROVE  Sol!Xof!Squeeze(1)
  <1> USE PrngParametersAssumption
  <1> DEFINE position == BlockLen * sol_counter - sol_remaining
  <1>1. /\ sol_ready /\ ~sol_worded /\ sol_counter \in Nat /\ sol_counter > 0
           /\ sol_remaining \in 0 .. BlockLen
        /\ sol_state = sol_input /\ sol_pool.block = sol_counter - 1
           /\ sol_pool.shift = BlockLen - sol_remaining
        /\ UNCHANGED <<sol_input, sol_ready, sol_worded>>
    BY DEF Sol!NextByte, SolIInv, Sol!TypeOK, Sol!PoolInStep
  <1>2. /\ BlockLen * sol_counter \in Nat
        /\ BlockLen * (sol_counter + 1) = BlockLen * sol_counter + BlockLen
        /\ BlockLen * sol_counter = BlockLen * (sol_counter - 1) + BlockLen
        /\ BlockLen * (sol_counter - 1) \in Nat
    <2>1. sol_counter - 1 \in Nat /\ sol_counter = (sol_counter - 1) + 1
      BY <1>1
    <2>2. QED BY <1>1, <2>1, NextMultiple
  <1>3. Sol!Taken = position
    BY <1>1 DEF Sol!Taken
  <1>4. /\ Sol!Taken' = position + 1
        /\ sol_given' = [i \in 0 .. 0 |-> Byte(sol_input, position)]
    <2>1. CASE sol_remaining = 0
      <3>1. /\ sol_counter' = sol_counter + 1 /\ sol_remaining' = BlockLen - 1
            /\ sol_given' = [i \in 0 .. 0 |-> Byte(sol_state, BlockLen * sol_counter + 0)]
        BY <2>1 DEF Sol!NextByte, Sol!FreshPool, Sol!TopByte, Sol!Byte, Byte
      <3>2. Sol!Taken' = BlockLen * (sol_counter + 1) - (BlockLen - 1)
        BY <1>1, <3>1 DEF Sol!Taken
      <3>3. Sol!Taken' = position + 1 /\ BlockLen * sol_counter + 0 = position
        BY <1>2, <2>1, <3>2
      <3>4. QED BY <1>1, <3>1, <3>3
    <2>2. CASE sol_remaining # 0
      <3>1. /\ sol_counter' = sol_counter /\ sol_remaining' = sol_remaining - 1
            /\ sol_given' = [i \in 0 .. 0 |-> Byte(sol_state, BlockLen * sol_pool.block + sol_pool.shift)]
        <4>1. sol_pool.shift < BlockLen
          BY <1>1, <2>2
        <4>2. QED BY <2>2, <4>1 DEF Sol!NextByte, Sol!CurrentPool, Sol!TopByte, Sol!Byte, Byte
      <3>2. Sol!Taken' = BlockLen * sol_counter - (sol_remaining - 1)
        BY <1>1, <3>1 DEF Sol!Taken
      <3>3. Sol!Taken' = position + 1
        BY <1>1, <1>2, <3>2
      <3>4. BlockLen * sol_pool.block + sol_pool.shift = position
        <4>1. BlockLen * sol_pool.block = BlockLen * (sol_counter - 1)
          BY <1>1
        <4>2. QED BY <1>1, <1>2, <4>1
      <3>5. QED BY <1>1, <3>1, <3>3, <3>4
    <2>3. QED BY <2>1, <2>2
  <1>5. position \in Int
    BY <1>1, <1>2
  <1> HIDE DEF position
  <1>6. sol_given' = Sol!Xof!Piece(sol_input, Sol!Taken, 1)
    <2>1. Sol!Xof!Piece(sol_input, position, 1) = [i \in 0 .. 0 |-> Byte(sol_input, position + i)]
      BY DEF Sol!Xof!Piece, Sol!Xof!Byte, Sol!Byte, Byte
    <2>2. \A i \in 0 .. 0 : position + i = position
      BY <1>5
    <2>3. QED BY <1>3, <1>4, <2>1, <2>2
  <1>7. QED BY <1>1, <1>3, <1>4, <1>6 DEF Sol!Xof!Squeeze

LEMMA SolBlockRefines ==
  ASSUME SolIInv, Sol!FirstBlock \/ Sol!RefillBlock
  PROVE  Sol!Xof!Squeeze(BlockLen)
  <1> USE PrngParametersAssumption
  <1>1. sol_ready /\ sol_counter \in Nat /\ sol_state = sol_input
        /\ UNCHANGED <<sol_input, sol_ready>> /\ sol_worded'
    BY DEF Sol!FirstBlock, Sol!RefillBlock, SolIInv, Sol!TypeOK, Sol!PoolInStep
  <1>2. BlockLen * sol_counter \in Nat
        /\ BlockLen * (sol_counter + 1) = BlockLen * sol_counter + BlockLen
    BY <1>1, NextMultiple
  <1>3. Sol!Taken' = Sol!Taken + BlockLen /\ sol_given' = Sol!WholeBlock(sol_counter' - 1)
        /\ Sol!Taken = BlockLen * (sol_counter' - 1)
    <2>1. CASE Sol!FirstBlock
      <3>1. ~sol_worded /\ sol_remaining = BlockLen /\ sol_counter = 1 /\ sol_counter' = 1
            /\ sol_pool.block = 0
            /\ sol_given' = Sol!WholeBlock(0)
        BY <2>1 DEF Sol!FirstBlock, SolIInv, Sol!PoolInStep
      <3>2. Sol!Taken = 0 /\ Sol!Taken' = BlockLen /\ BlockLen * 0 = 0
        BY <1>1, <3>1, NextMultiple DEF Sol!Taken
      <3>3. QED BY <3>1, <3>2
    <2>2. CASE Sol!RefillBlock
      <3>1. sol_worded /\ sol_counter' = sol_counter + 1
            /\ sol_given' = Sol!WholeBlock(sol_counter)
        BY <2>2 DEF Sol!RefillBlock, Sol!FreshPool
      <3>2. Sol!Taken = BlockLen * sol_counter /\ Sol!Taken' = BlockLen * (sol_counter + 1)
        BY <1>1, <3>1 DEF Sol!Taken
      <3>3. QED BY <1>1, <1>2, <3>1, <3>2
    <2>3. QED BY <2>1, <2>2
  <1>4. sol_given' = Sol!Xof!Piece(sol_input, Sol!Taken, BlockLen)
    BY <1>1, <1>3 DEF Sol!WholeBlock, Sol!Xof!Piece, Sol!Xof!Byte, Sol!Byte, Byte
  <1>5. QED BY <1>1, <1>3, <1>4 DEF Sol!Xof!Squeeze

(***************************************************************************)
(* The contracts' generator implements the abstract stream, drawn byte by  *)
(* byte or block by block.                                                 *)
(***************************************************************************)
THEOREM SolRefinement == Sol!Spec => SolImplementsXof
  <1> USE PrngParametersAssumption
  <1>1. Sol!Init => Sol!Xof!Init
    BY DEF Sol!Init, Sol!Xof!Init, Sol!Taken
  <1>2. ASSUME SolIInv, [Sol!Next]_Sol!vars
        PROVE  [Sol!Xof!Next]_Sol!Xof!xofVars
    <2>1. CASE UNCHANGED Sol!vars
      BY <2>1 DEF Sol!vars, Sol!Xof!xofVars, Sol!Taken
    <2>2. ASSUME NEW c \in Chunk, Sol!Concat(c) PROVE Sol!Xof!Next
      <3>1. Sol!Xof!Absorb(c)
        BY <2>2 DEF Sol!Concat, Sol!Xof!Absorb, Sol!Taken
      <3>2. QED BY <3>1 DEF Sol!Xof!Next
    <2>3. CASE Sol!InitPrng
      <3>1. Sol!Taken = 0 /\ Sol!Taken' = 0
        BY <2>3, NextMultiple DEF Sol!InitPrng, Sol!Taken
      <3>2. Sol!Xof!Finalize
        BY <2>3, <3>1 DEF Sol!InitPrng, Sol!Xof!Finalize
      <3>3. QED BY <3>2 DEF Sol!Xof!Next
    <2>4. CASE Sol!NewPrng
      <3>1. Sol!Xof!Reset
        BY <2>4 DEF Sol!NewPrng, Sol!Xof!Reset, Sol!Taken
      <3>2. QED BY <3>1 DEF Sol!Xof!Next
    <2>5. CASE Sol!NextByte
      BY <1>2, <2>5, SolNextByteRefines DEF Sol!Xof!Next
    <2>6. CASE Sol!FirstBlock \/ Sol!RefillBlock
      BY <1>2, <2>6, SolBlockRefines DEF Sol!Xof!Next
    <2>7. QED BY <1>2, <2>1, <2>2, <2>3, <2>4, <2>5, <2>6 DEF Sol!Next
  <1>3. QED BY SolInitIInv, SolStepIInv, <1>1, <1>2, PTL
    DEF Sol!Spec, SolImplementsXof, Sol!ImplementsXof, Sol!Xof!Spec

-----------------------------------------------------------------------------
(***************************************************************************)
(* The two generators side by side.  What each side has drawn since its    *)
(* last initialisation is the beginning of the stream of its input.        *)
(***************************************************************************)
Stream(in, n) == [i \in 1 .. n |-> Byte(in, i - 1)]

CDrawn   == Taken \in Nat /\ c_drawn = Stream(buffer, Taken)
SolDrawn == Sol!Taken \in Nat /\ sol_drawn = Stream(sol_input, Sol!Taken)

PairInv == IInv /\ SolIInv /\ CDrawn /\ SolDrawn

(* The next piece of a stream, logged behind its beginning, prolongs it. *)
LEMMA LoggedPiece ==
  ASSUME NEW in, NEW t \in Nat, NEW n \in Nat, NEW array,
         array = [i \in 0 .. n - 1 |-> Byte(in, t + i)]
  PROVE  Logged(Stream(in, t), array) = Stream(in, t + n)
  <1> DEFINE log == Stream(in, t)
             last == CHOOSE i \in DOMAIN array : i + 1 \notin DOMAIN array
             size == IF DOMAIN array = {} THEN 0 ELSE 1 + last
  <1>1. log = [i \in 1 .. t |-> Byte(in, i - 1)] /\ Len(log) = t
    BY DEF Stream
  <1>2. size = n
    <2>1. DOMAIN array = 0 .. n - 1
      OBVIOUS
    <2>2. CASE n = 0
      BY <2>1, <2>2
    <2>3. CASE n # 0
      <3>1. n - 1 \in DOMAIN array /\ (n - 1) + 1 \notin DOMAIN array
        BY <2>1, <2>3
      <3>2. \A i \in DOMAIN array : i + 1 \notin DOMAIN array => i = n - 1
        BY <2>1, <2>3
      <3>3. last = n - 1
        BY <3>1, <3>2
      <3> HIDE DEF last
      <3>4. QED BY <2>1, <2>3, <3>3
    <2>4. QED BY <2>2, <2>3
  <1>3. Logged(log, array) =
          [i \in 1 .. Len(log) + size |-> IF i <= Len(log) THEN log[i] ELSE array[i - Len(log) - 1]]
    BY Zenon DEF Logged
  <1> HIDE DEF log, size
  <1>4. Logged(log, array) = [i \in 1 .. t + n |-> IF i <= t THEN log[i] ELSE array[i - t - 1]]
    BY <1>1, <1>2, <1>3
  <1>5. ASSUME NEW i \in 1 .. t + n
        PROVE  (IF i <= t THEN log[i] ELSE array[i - t - 1]) = Byte(in, i - 1)
    <2>1. CASE i <= t
      BY <1>1, <2>1
    <2>2. CASE ~(i <= t)
      <3>1. i - t - 1 \in 0 .. n - 1 /\ t + (i - t - 1) = i - 1
        BY <2>2
      <3>2. array[i - t - 1] = Byte(in, t + (i - t - 1))
        BY <3>1
      <3>3. QED BY <2>2, <3>1, <3>2
    <2>3. QED BY <2>1, <2>2
  <1>6. QED BY <1>4, <1>5 DEF log, Stream

(* Before the generator is flipped it has handed out nothing. *)
LEMMA NothingTaken ==
  ASSUME IInv, finalized = 0
  PROVE  Taken = 0
  BY KeccakPrngAssumption, PrngParametersAssumption, NextMultiple
     DEF IInv, TypeOK, StreamInv, PhasesKept, BufferedBlock, Taken, Consumed

LEMMA PairInitInv ==
  ASSUME PairInit
  PROVE  PairInv
  <1>1. IInv /\ SolIInv
    BY InitIInv, SolInitIInv DEF PairInit
  <1>2. Taken = 0 /\ Sol!Taken = 0 /\ c_drawn = << >> /\ sol_drawn = << >>
    <2>1. Taken = 0
      BY <1>1, NothingTaken DEF PairInit, Init
    <2>2. QED BY <2>1 DEF PairInit, Sol!Init, Sol!Taken
  <1>3. \A in : Stream(in, 0) = << >>
    BY DEF Stream
  <1>4. QED BY <1>1, <1>2, <1>3 DEF PairInv, CDrawn, SolDrawn

(* A request of the C caller that is answered. *)
LEMMA CDeliverInv ==
  ASSUME IInv, CDrawn, CDeliver
  PROVE  CDrawn'
  <1>1. CASE pc' = "idle"
    <2>1. len \in Request /\ Xof!Squeeze(len)
      BY <1>1, ReturnRefines, LeftoverRefines DEF CDeliver
    <2>2. /\ Taken' = Taken + len /\ buffer' = buffer /\ len \in Nat
          /\ given' = [i \in 0 .. len - 1 |-> Byte(buffer, Taken + i)]
      BY <2>1, KeccakPrngAssumption DEF Xof!Squeeze, Xof!Piece, Xof!Byte, Byte
    <2>3. c_drawn' = Logged(Stream(buffer, Taken), given')
      BY <1>1 DEF CDeliver, CDrawn
    <2>4. Logged(Stream(buffer, Taken), given') = Stream(buffer, Taken + len)
      BY <2>2, LoggedPiece DEF CDrawn
    <2>5. QED BY <2>2, <2>3, <2>4 DEF CDrawn
  <1>2. CASE pc' # "idle"
    <2>1. UNCHANGED Xof!xofVars /\ c_drawn' = c_drawn
      BY <1>2, LeftoverRefines DEF CDeliver, ExtractReturn, Return
    <2>2. QED BY <2>1 DEF Xof!xofVars, CDrawn
  <1>3. QED BY <1>1, <1>2

(* A call of the C caller that hands nothing over. *)
LEMMA COtherInv ==
  ASSUME IInv, IInv', CDrawn,
         (\E c \in Chunk : CInject(c)) \/ CInternal \/ CRestart
  PROVE  CDrawn'
  <1>0. \A in : Stream(in, 0) = << >>
    BY DEF Stream
  <1>1. CASE CRestart
    <2>1. finalized' = 0 /\ c_drawn' = << >>
      BY <1>1 DEF CRestart, InitCtx
    <2>2. Taken' = 0
      <3>1. /\ counter' = 0 /\ out_buffer_len' = 0 /\ out_buffer_pos' = 0 /\ offset' = offset
            /\ pc = "idle"
        BY <1>1 DEF CRestart, InitCtx
      <3>2. offset = 0
        BY <3>1 DEF IInv, TypeOK
      <3>3. QED BY <3>1, <3>2, NextMultiple DEF Taken, Consumed
    <2>3. QED BY <1>0, <2>1, <2>2 DEF CDrawn
  <1>2. ASSUME c_drawn' = c_drawn, Taken' = Taken, buffer' = buffer \/ finalized = 0
        PROVE  CDrawn'
    BY <1>0, <1>2, NothingTaken DEF CDrawn
  <1>3. ASSUME NEW c \in Chunk, Inject(c), c_drawn' = c_drawn
        PROVE  CDrawn'
    <2>1. Taken' = Taken /\ finalized = 0
      BY <1>3 DEF Inject, Taken, Consumed, outputVars, callVars
    <2>2. QED BY <1>2, <1>3, <2>1
  <1>4. ASSUME NEW c \in Chunk, InjectRefused(c) \/ FlipRefused \/ ExtractRefused,
               c_drawn' = c_drawn
        PROVE  CDrawn'
    <2>1. Taken' = Taken /\ buffer' = buffer
      BY <1>4
      DEF InjectRefused, FlipRefused, ExtractRefused, Taken, Consumed, inputVars, outputVars,
          callVars
    <2>2. QED BY <1>2, <1>4, <2>1
  <1>5. ASSUME Flip, c_drawn' = c_drawn
        PROVE  CDrawn'
    <2>1. finalized = 0 /\ buffer' = buffer /\ counter' = counter
          /\ out_buffer_pos' = 0 /\ out_buffer_len' = 0 /\ offset' = offset
      BY <1>5 DEF Flip, callVars
    <2>2. out_buffer_len = 0 /\ out_buffer_pos = 0 /\ counter = 0 /\ offset = 0
      BY <2>1, PrngParametersAssumption
      DEF IInv, TypeOK, StreamInv, PhasesKept, BufferedBlock
    <2>3. Taken' = Taken
      BY <2>1, <2>2 DEF Taken, Consumed
    <2>4. QED BY <1>2, <1>5, <2>1, <2>3
  <1>6. ASSUME NextBlock \/ NoLeftover \/ (\E n \in Request : ExtractBegin(n)),
               c_drawn' = c_drawn
        PROVE  CDrawn'
    <2>1. UNCHANGED Xof!xofVars
      BY <1>6, SilentRefines
    <2>2. QED BY <1>2, <1>6, <2>1 DEF Xof!xofVars
  <1>7. CASE \E c \in Chunk : CInject(c)
    BY <1>3, <1>4, <1>7 DEF CInject
  <1>8. CASE CInternal
    <2>1. ASSUME FlipRefused \/ ExtractRefused
          PROVE  Taken' = Taken /\ buffer' = buffer
      BY <2>1 DEF FlipRefused, ExtractRefused, Taken, Consumed, inputVars, outputVars, callVars
    <2>2. c_drawn' = c_drawn
      BY <1>8 DEF CInternal
    <2>3. QED BY <1>2, <1>4, <1>5, <1>6, <1>8, <2>1, <2>2 DEF CInternal
  <1>9. QED BY <1>1, <1>7, <1>8

(* A step of the contract. *)
LEMMA SolSideInv ==
  ASSUME SolIInv, SolDrawn, SolPrepare \/ SolDraw \/ SolRestart
  PROVE  SolDrawn'
  <1>0. \A in : Stream(in, 0) = << >>
    BY DEF Stream
  <1>1. CASE SolPrepare
    <2>1. Sol!Taken = 0 /\ Sol!Taken' = 0 /\ sol_drawn' = sol_drawn
      BY <1>1, NextMultiple, PrngParametersAssumption
      DEF SolPrepare, Sol!Concat, Sol!InitPrng, Sol!Taken
    <2>2. QED BY <1>0, <2>1 DEF SolDrawn
  <1>2. CASE SolRestart
    <2>1. Sol!Taken' = 0 /\ sol_drawn' = << >>
      BY <1>2 DEF SolRestart, Sol!NewPrng, Sol!Taken
    <2>2. QED BY <1>0, <2>1 DEF SolDrawn
  <1>3. CASE SolDraw
    <2>1. PICK n \in {1, BlockLen} : Sol!Xof!Squeeze(n)
      BY <1>3, SolNextByteRefines, SolBlockRefines DEF SolDraw
    <2>2. /\ Sol!Taken' = Sol!Taken + n /\ sol_input' = sol_input /\ n \in Nat
          /\ sol_given' = [i \in 0 .. n - 1 |-> Byte(sol_input, Sol!Taken + i)]
      BY <2>1, PrngParametersAssumption DEF Sol!Xof!Squeeze, Sol!Xof!Piece, Sol!Xof!Byte, Byte
    <2>3. sol_drawn' = Logged(Stream(sol_input, Sol!Taken), sol_given')
      BY <1>3 DEF SolDraw, SolDrawn
    <2>4. Logged(Stream(sol_input, Sol!Taken), sol_given') = Stream(sol_input, Sol!Taken + n)
      BY <2>2, LoggedPiece DEF SolDrawn
    <2>5. QED BY <2>2, <2>3, <2>4 DEF SolDrawn
  <1>4. QED BY <1>1, <1>2, <1>3

(* The steps of the pair are steps of one side, and leave the other alone. *)
LEMMA PairSteps ==
  ASSUME [PairNext]_<<cVars, solVars>>
  PROVE  /\ [Next]_vars /\ [Sol!Next]_Sol!vars
         /\ \/ /\ \/ \E c \in Chunk : CInject(c)
                  \/ CDeliver
                  \/ CInternal
                  \/ CRestart
               /\ UNCHANGED solVars
            \/ /\ SolPrepare \/ SolDraw \/ SolRestart
               /\ UNCHANGED cVars
            \/ UNCHANGED <<cVars, solVars>>
  <1>1. CASE \E c \in Chunk : CInject(c)
    BY <1>1, Zenon DEF CInject, Next, solVars, Sol!vars
  <1>2. CASE CDeliver \/ CInternal \/ CRestart
    BY <1>2, Zenon DEF CDeliver, CInternal, CRestart, Next, solVars, Sol!vars
  <1>3. CASE SolPrepare \/ SolDraw \/ SolRestart
    BY <1>3, Zenon DEF SolPrepare, SolDraw, SolRestart, Sol!Next, cVars
  <1>4. CASE UNCHANGED <<cVars, solVars>>
    BY <1>4 DEF cVars, solVars, Sol!vars
  <1>5. QED BY <1>1, <1>2, <1>3, <1>4 DEF PairNext

LEMMA PairStepInv ==
  ASSUME PairInv, [PairNext]_<<cVars, solVars>>
  PROVE  PairInv'
  <1>1. IInv' /\ SolIInv'
    BY PairSteps, StepIInv, SolStepIInv DEF PairInv
  <1>2. ASSUME UNCHANGED cVars
        PROVE  CDrawn'
    BY <1>2
    DEF PairInv, CDrawn, Taken, Consumed, cVars, vars, inputVars, outputVars, callVars
  <1>3. ASSUME UNCHANGED solVars
        PROVE  SolDrawn'
    BY <1>3 DEF PairInv, SolDrawn, Sol!Taken, solVars
  <1>4. QED
    BY <1>1, <1>2, <1>3, PairSteps, CDeliverInv, COtherInv, SolSideInv DEF PairInv

(***************************************************************************)
(* Contract and C code draw from the same stream when they hash the same   *)
(* input, at whatever pace and in whatever pieces each of them draws.      *)
(***************************************************************************)
THEOREM StreamsAgree == PairSpec => []SameStream
  <1>1. PairInv => SameStream
    <2> SUFFICES ASSUME PairInv, sol_input = buffer,
                        NEW i \in 1 .. Lesser(Len(c_drawn), Len(sol_drawn))
                 PROVE  c_drawn[i] = sol_drawn[i]
      BY DEF SameStream
    <2>1. /\ Taken \in Nat /\ c_drawn = Stream(buffer, Taken)
          /\ Sol!Taken \in Nat /\ sol_drawn = Stream(buffer, Sol!Taken)
      BY DEF PairInv, CDrawn, SolDrawn
    <2>2. Len(c_drawn) = Taken /\ Len(sol_drawn) = Sol!Taken
      BY <2>1 DEF Stream
    <2>3. i \in 1 .. Taken /\ i \in 1 .. Sol!Taken
      BY <2>1, <2>2 DEF Lesser
    <2>4. QED BY <2>1, <2>3 DEF Stream
  <1>2. QED BY PairInitInv, PairStepInv, <1>1, PTL DEF PairSpec

(***************************************************************************)
(* Side by side, both generators implement the abstract stream.            *)
(***************************************************************************)
THEOREM PairRefinement == PairSpec => ImplementsXof /\ SolImplementsXof
  <1>1. PairInit => Init /\ Sol!Init
    BY DEF PairInit
  <1>2. [PairNext]_<<cVars, solVars>> => [Next]_vars /\ [Sol!Next]_Sol!vars
    BY PairSteps
  <1>3. QED BY <1>1, <1>2, Refinement, SolRefinement, PTL DEF PairSpec, Spec, Sol!Spec

-----------------------------------------------------------------------------
(***************************************************************************)
(* mu.  What is hashed are the bytes of the four pieces one after another. *)
(***************************************************************************)
InputOf == [ctx : Context, m : Message]

Joined(in) == Tr \o Header(in.ctx) \o in.ctx \o in.m

LEMMA HeaderTyped ==
  ASSUME NEW ctx \in Context
  PROVE  Header(ctx) \in Seq(Bytes) /\ Len(Header(ctx)) = 2
  /\ Header(ctx)[2] = Len(ctx) % ByteSpace
BY MuHashAssumption DEF Header

LEMMA PiecesTyped ==
  ASSUME NEW in \in InputOf
  PROVE  /\ Tr \in Seq(Bytes) /\ Header(in.ctx) \in Seq(Bytes)
         /\ in.ctx \in Seq(Bytes) /\ in.m \in Seq(Bytes)
         /\ in.ctx \in Context
         /\ Len(Tr) \in Nat /\ Len(in.ctx) \in Nat /\ Len(in.m) \in Nat
         /\ \A i \in 1 .. 4 : Pieces(in)[i] \in Chunk
            /\ ChunkLen[Pieces(in)[i]] = Len(Pieces(in)[i])
<1>1. in.ctx \in Context /\ in.m \in Message
  BY DEF InputOf
<1>2. Tr \in Seq(Bytes) /\ in.ctx \in Seq(Bytes) /\ in.m \in Seq(Bytes)
  BY <1>1, MuHashAssumption
<1>3. Header(in.ctx) \in Seq(Bytes)
  BY <1>1, HeaderTyped
<1>4. Tr \in Chunk /\ Header(in.ctx) \in Chunk /\ in.ctx \in Chunk /\ in.m \in Chunk
  BY <1>1, MuHashAssumption
<1>5. \A i \in 1 .. 4 : Pieces(in)[i] \in Chunk
  BY <1>4 DEF Pieces
<1>6. \A c \in Chunk : ChunkLen[c] = Len(c)
  BY MuHashAssumption
<1>7. Len(Tr) \in Nat /\ Len(in.ctx) \in Nat /\ Len(in.m) \in Nat
  BY <1>2
<1> HIDE DEF Bytes
<1> QED
  BY <1>1, <1>2, <1>3, <1>5, <1>6, <1>7, Zenon

(* FlattenSeq, whose recursion has four steps here. *)
LEMMA FourFlattened ==
  ASSUME NEW s, Len(s) = 4
  PROVE  Ext!FlattenSeq(s) = s[1] \o s[2] \o s[3] \o s[4]
<1> DEFINE body(f) == [i \in 1 .. Len(s) |-> IF i = 1 THEN s[i] ELSE f[i - 1] \o s[i]]
           two == s[1] \o s[2]
           three == two \o s[3]
           g == [i \in 1 .. 4 |-> IF i = 1 THEN s[1] ELSE IF i = 2 THEN two
                                 ELSE IF i = 3 THEN three ELSE three \o s[4]]
           flatten == CHOOSE f : f = body(f)
<1>2. g = body(g)
  <2>1. \A i \in 1 .. 4 : g[i] = IF i = 1 THEN s[i] ELSE g[i - 1] \o s[i]
    OBVIOUS
  <2>2. DOMAIN g = 1 .. 4 /\ g = [i \in 1 .. 4 |-> g[i]]
    OBVIOUS
  <2> HIDE DEF g
  <2>3. body(g) = [i \in 1 .. 4 |-> g[i]]
    BY <2>1
  <2> QED
    BY <2>2, <2>3
<1> HIDE DEF g
<1>3. flatten = body(flatten)
  BY <1>2
<1>4. Ext!FlattenSeq(s) = flatten[4]
  BY DEF Ext!FlattenSeq
<1> HIDE DEF flatten
<1>5. \A i \in 1 .. 4 : flatten[i] = IF i = 1 THEN s[i] ELSE flatten[i - 1] \o s[i]
  BY <1>3
<1>6. flatten[1] = s[1]
  BY <1>5
<1>7. flatten[2] = flatten[1] \o s[2]
  <2>1. 2 \in 1 .. 4 /\ 2 # 1 /\ 2 - 1 = 1
    OBVIOUS
  <2> QED
    BY <1>5, <2>1
<1>8. flatten[3] = flatten[2] \o s[3]
  <2>1. 3 \in 1 .. 4 /\ 3 # 1 /\ 3 - 1 = 2
    OBVIOUS
  <2> QED
    BY <1>5, <2>1
<1>9. flatten[4] = flatten[3] \o s[4]
  <2>1. 4 \in 1 .. 4 /\ 4 # 1 /\ 4 - 1 = 3
    OBVIOUS
  <2> QED
    BY <1>5, <2>1
<1> QED
  BY <1>4, <1>6, <1>7, <1>8, <1>9

LEMMA Flattened ==
  ASSUME NEW in
  PROVE  Ext!FlattenSeq(Pieces(in)) = Joined(in)
<1>1. /\ Len(Pieces(in)) = 4
      /\ Pieces(in)[1] = Tr /\ Pieces(in)[2] = Header(in.ctx)
      /\ Pieces(in)[3] = in.ctx /\ Pieces(in)[4] = in.m
  BY DEF Pieces
<1> QED
  BY <1>1, FourFlattened DEF Joined

(* The same bytes cut at the same place. *)
LEMMA Cut ==
  ASSUME NEW a \in Seq(Bytes), NEW b \in Seq(Bytes), NEW c \in Seq(Bytes), NEW d \in Seq(Bytes),
         Len(a) = Len(c), a \o b = c \o d
  PROVE  a = c /\ b = d
<1>1. \A i \in 1 .. Len(a) : (a \o b)[i] = a[i] /\ (c \o d)[i] = c[i]
  <2>1. Len(a) \in Nat /\ Len(b) \in Nat /\ Len(d) \in Nat
    OBVIOUS
  <2> QED
    BY <2>1, ConcatProperties
<1>2. a = c
  BY <1>1, SeqEqual
<1>3. b = d
  BY <1>2, ConcatSimplifications
<1> QED
  BY <1>2, <1>3

LEMMA Longer ==
  ASSUME NEW a \in Seq(Bytes), NEW b \in Seq(Bytes)
  PROVE  /\ a \o b \in Seq(Bytes)
         /\ Len(a \o b) = Len(a) + Len(b)
         /\ Len(a) \in Nat /\ Len(b) \in Nat
         /\ \A i \in 1 .. Len(a) : (a \o b)[i] = a[i]
<1>1. Len(a) \in Nat /\ Len(b) \in Nat
  OBVIOUS
<1> QED
  BY <1>1, ConcatProperties

LEMMA ShortLength ==
  ASSUME NEW x \in Nat, x <= CtxLimit
  PROVE  x % ByteSpace = x
<1>1. ByteSpace \in Nat \ {0} /\ x \in 0 .. ByteSpace - 1
  BY MuHashAssumption
<1> QED
  BY <1>1, RemainderOfSmall

LEMMA JoinedTyped ==
  ASSUME NEW in \in InputOf
  PROVE  /\ Joined(in) \in Seq(Bytes)
         /\ Tr \o Header(in.ctx) \in Seq(Bytes)
         /\ Len(Tr \o Header(in.ctx)) = Len(Tr) + 2
         /\ Tr \o Header(in.ctx) \o in.ctx \in Seq(Bytes)
         /\ Len(Tr \o Header(in.ctx) \o in.ctx) = Len(Tr) + 2 + Len(in.ctx)
         /\ Joined(in)[Len(Tr) + 2] = Len(in.ctx) % ByteSpace
<1> DEFINE h == Header(in.ctx)  th == Tr \o h  thc == th \o in.ctx  all == thc \o in.m
<1>1. /\ Tr \in Seq(Bytes) /\ h \in Seq(Bytes) /\ in.ctx \in Seq(Bytes) /\ in.m \in Seq(Bytes)
      /\ Len(h) = 2 /\ h[2] = Len(in.ctx) % ByteSpace
  BY PiecesTyped, HeaderTyped
<1> HIDE DEF h
<1>2. /\ th \in Seq(Bytes) /\ Len(th) = Len(Tr) + 2 /\ Len(Tr) \in Nat
      /\ th[Len(Tr) + 2] = h[2]
  <2>1. /\ th \in Seq(Bytes) /\ Len(th) = Len(Tr) + Len(h) /\ Len(Tr) \in Nat
    BY <1>1, Longer
  <2>2. \A i \in 1 .. Len(Tr) + Len(h) : th[i] = IF i <= Len(Tr) THEN Tr[i] ELSE h[i - Len(Tr)]
    BY <1>1, ConcatProperties
  <2>3. Len(Tr) + 2 \in 1 .. Len(Tr) + Len(h) /\ ~(Len(Tr) + 2 <= Len(Tr))
        /\ (Len(Tr) + 2) - Len(Tr) = 2
    BY <1>1, <2>1
  <2> QED
    BY <1>1, <2>1, <2>2, <2>3
<1> HIDE DEF th
<1>3. /\ thc \in Seq(Bytes) /\ Len(thc) = Len(th) + Len(in.ctx) /\ Len(in.ctx) \in Nat
      /\ \A i \in 1 .. Len(th) : thc[i] = th[i]
  BY <1>1, <1>2, Longer
<1> HIDE DEF thc
<1>4. /\ all \in Seq(Bytes) /\ \A i \in 1 .. Len(thc) : all[i] = thc[i]
  BY <1>1, <1>3, Longer
<1> HIDE DEF all
<1>5. Len(Tr) + 2 \in 1 .. Len(th) /\ Len(Tr) + 2 \in 1 .. Len(thc)
  <2> DEFINE t == Len(Tr)  c == Len(in.ctx)
  <2>1. t \in Nat /\ c \in Nat /\ Len(th) = t + 2 /\ Len(thc) = (t + 2) + c
    BY <1>2, <1>3, Zenon
  <2> HIDE DEF t, c
  <2>2. t + 2 \in 1 .. Len(th) /\ t + 2 \in 1 .. Len(thc)
    BY <2>1
  <2> QED
    BY <2>2 DEF t
<1>6. all[Len(Tr) + 2] = h[2]
  BY <1>2, <1>3, <1>4, <1>5
<1>7. all = Joined(in)
  BY DEF all, thc, th, h, Joined
<1>8. Len(thc) = Len(Tr) + 2 + Len(in.ctx)
  BY <1>2, <1>3
<1> QED
  BY <1>1, <1>2, <1>3, <1>4, <1>6, <1>7, <1>8, Zenon DEF th, thc, h

(* No bytes move from the context into the message: its length comes first. *)
LEMMA JoinedBinds ==
  ASSUME NEW a \in InputOf, NEW b \in InputOf,
         Len(a.ctx) <= CtxLimit, Len(b.ctx) <= CtxLimit,
         Joined(a) = Joined(b)
  PROVE  a = b
<1>1. Len(a.ctx) = Len(b.ctx)
  <2>1. Len(a.ctx) % ByteSpace = Len(b.ctx) % ByteSpace
    BY JoinedTyped
  <2>2. Len(a.ctx) \in Nat /\ Len(b.ctx) \in Nat
    BY PiecesTyped
  <2> QED
    BY <2>1, <2>2, ShortLength
<1>2. /\ a.ctx \in Seq(Bytes) /\ a.m \in Seq(Bytes) /\ b.ctx \in Seq(Bytes) /\ b.m \in Seq(Bytes)
  BY PiecesTyped
<1> DEFINE ta == Tr \o Header(a.ctx)  tb == Tr \o Header(b.ctx)
           tac == ta \o a.ctx  tbc == tb \o b.ctx
<1>3. /\ ta \in Seq(Bytes) /\ tb \in Seq(Bytes) /\ Len(ta) = Len(tb)
      /\ tac \in Seq(Bytes) /\ tbc \in Seq(Bytes) /\ Len(tac) = Len(tbc)
  BY <1>1, JoinedTyped
<1>4. tac \o a.m = tbc \o b.m
  BY DEF Joined
<1> HIDE DEF ta, tb
<1>5. tac = tbc /\ a.m = b.m
  <2> HIDE DEF tac, tbc
  <2> QED
    BY <1>2, <1>3, <1>4, Cut
<1>6. a.ctx = b.ctx
  BY <1>2, <1>3, <1>5, Cut
<1> QED
  BY <1>5, <1>6 DEF InputOf

-----------------------------------------------------------------------------
MuTyped ==
  /\ input \in [Side -> InputOf]
  /\ mu = [s \in Side |-> mu[s]]
  /\ who \in Side \cup {"none"}
  /\ piece \in 0 .. 7
  /\ piece # 0 => who \in Side /\ Len(input[who].ctx) <= CtxLimit

(* What the generator has taken in, while it refuses nothing. *)
Injected == IF piece < 5 THEN piece - 1 ELSE 4

BytesUpTo(in, n) ==
  (IF n > 0 THEN Len(Tr) ELSE 0) + (IF n > 1 THEN 2 ELSE 0)
    + (IF n > 2 THEN Len(in.ctx) ELSE 0) + (IF n > 3 THEN Len(in.m) ELSE 0)

Collected ==
  /\ piece \in 1 .. 5 => finalized = 0
  /\ piece \in 6 .. 7 => finalized = 1
  /\ (piece # 0 /\ FitsBuffer(input[who])) =>
       /\ Len(buffer) = Injected
       /\ \A i \in 1 .. Injected : buffer[i] = Pieces(input[who])[i]
       /\ buffer_len = BytesUpTo(input[who], Injected)

(* What a call that is over has obtained. *)
Over(s) == who = "none" \/ (s = "signer" /\ who = "verifier")

Obtained ==
  \A s \in Side : (Over(s) /\ mu[s] # Refused) =>
    /\ Len(input[s].ctx) <= CtxLimit
    /\ FitsBuffer(input[s]) => mu[s] = Joined(input[s])

MuInv == IInv /\ MuTyped /\ Collected /\ Obtained

LEMMA MuInitial == MuInit => MuInv
<1> SUFFICES ASSUME MuInit PROVE MuInv
  OBVIOUS
<1>1. IInv
  BY InitIInv DEF MuInit
<1>2. MuTyped
  BY DEF MuInit, MuTyped, Side, InputOf
<1> QED
  BY <1>1, <1>2 DEF MuInit, MuInv, Collected, Obtained, Over

LEMMA MuGenerator ==
  ASSUME MuInv, [MuNext]_<<vars, callerVars>>
  PROVE  IInv' /\ [Next]_vars
<1>1. [Next]_vars
  <2>1. CASE InjectPiece
    <3>1. Pieces(input[who])[piece] \in Chunk
      BY <2>1, PiecesTyped DEF InjectPiece, MuInv, MuTyped
    <3> QED
      BY <2>1, <3>1 DEF InjectPiece, Next
  <2>2. CASE ExtractMu
    BY <2>2, MuHashAssumption DEF ExtractMu, Next
  <2>3. CASE RefuseContext \/ UNCHANGED <<vars, callerVars>>
    BY <2>3 DEF RefuseContext
  <2>4. CASE BeginMu \/ FlipMu \/ FillMu \/ EndMu
    BY <2>4 DEF BeginMu, FlipMu, FillMu, EndMu, Next
  <2> QED
    BY <2>1, <2>2, <2>3, <2>4 DEF MuNext
<1> QED
  BY <1>1, StepIInv DEF MuInv

LEMMA UpToNext ==
  ASSUME NEW in \in InputOf, NEW n \in 0 .. 3
  PROVE  /\ BytesUpTo(in, n + 1) = BytesUpTo(in, n) + ChunkLen[Pieces(in)[n + 1]]
         /\ BytesUpTo(in, n + 1) <= TotalLen(in)
         /\ BytesUpTo(in, n + 1) \in Nat /\ TotalLen(in) \in Nat
<1> DEFINE t == Len(Tr)  c == Len(in.ctx)  m == Len(in.m)
           up(k) == (IF k > 0 THEN t ELSE 0) + (IF k > 1 THEN 2 ELSE 0)
                      + (IF k > 2 THEN c ELSE 0) + (IF k > 3 THEN m ELSE 0)
           size(k) == ChunkLen[Pieces(in)[k]]
<1>1. t \in Nat /\ c \in Nat /\ m \in Nat /\ Len(Header(in.ctx)) = 2
  BY PiecesTyped, HeaderTyped
<1>2. size(1) = t /\ size(2) = 2 /\ size(3) = c /\ size(4) = m
  <2>1. /\ size(1) = Len(Pieces(in)[1]) /\ size(2) = Len(Pieces(in)[2])
        /\ size(3) = Len(Pieces(in)[3]) /\ size(4) = Len(Pieces(in)[4])
    <3>1. \A i \in 1 .. 4 : ChunkLen[Pieces(in)[i]] = Len(Pieces(in)[i])
      BY PiecesTyped
    <3>2. 1 \in 1 .. 4 /\ 2 \in 1 .. 4 /\ 3 \in 1 .. 4 /\ 4 \in 1 .. 4
      OBVIOUS
    <3> QED
      BY <3>1, <3>2, Zenon
  <2>2. /\ Len(Pieces(in)[1]) = t /\ Len(Pieces(in)[2]) = 2
        /\ Len(Pieces(in)[3]) = c /\ Len(Pieces(in)[4]) = m
    BY <1>1 DEF Pieces
  <2> HIDE DEF size, t, c, m
  <2> QED
    BY <2>1, <2>2
<1>3. TotalLen(in) = t + 2 + c + m
  BY <1>1 DEF TotalLen
<1>4. \A k : BytesUpTo(in, k) = up(k)
  BY Zenon DEF BytesUpTo
<1> HIDE DEF t, c, m, size
<1>5. up(n + 1) = up(n) + size(n + 1) /\ up(n + 1) <= t + 2 + c + m
      /\ up(n + 1) \in Nat /\ t + 2 + c + m \in Nat
  <2>1. CASE n = 0
    BY <1>1, <1>2, <2>1
  <2>2. CASE n = 1
    BY <1>1, <1>2, <2>2
  <2>3. CASE n = 2
    BY <1>1, <1>2, <2>3
  <2>4. CASE n = 3
    BY <1>1, <1>2, <2>4
  <2> QED
    BY <2>1, <2>2, <2>3, <2>4
<1>6. BytesUpTo(in, n) = up(n) /\ BytesUpTo(in, n + 1) = up(n + 1)
  BY <1>4
<1>7. size(n + 1) = ChunkLen[Pieces(in)[n + 1]]
  BY DEF size
<1> HIDE DEF up
<1> QED
  BY <1>3, <1>5, <1>6, <1>7

(* A call returns; the next one has not begun. *)
LEMMA CallOver ==
  ASSUME MuInv, who \in Side, NEW v, NextCall(v),
         v # Refused => /\ Len(input[who].ctx) <= CtxLimit
                        /\ FitsBuffer(input[who]) => v = Joined(input[who])
  PROVE  MuTyped' /\ Collected' /\ Obtained'
<1>1. /\ mu' = [mu EXCEPT ![who] = v] /\ piece' = 0 /\ input' = input
      /\ who' = IF who = "signer" THEN "verifier" ELSE "none"
  BY DEF NextCall
<1>2. MuTyped'
  <2>1. mu' = [s \in Side |-> mu'[s]]
    BY <1>1 DEF MuInv, MuTyped
  <2>2. who' \in Side \cup {"none"}
    BY <1>1 DEF Side
  <2> QED
    BY <1>1, <2>1, <2>2 DEF MuInv, MuTyped
<1>3. Collected'
  BY <1>1 DEF Collected
<1>4. Obtained'
  <2> SUFFICES ASSUME NEW s \in Side, Over(s)', mu'[s] # Refused
               PROVE  /\ Len(input[s].ctx) <= CtxLimit
                      /\ FitsBuffer(input[s]) => mu'[s] = Joined(input[s])
    BY <1>1 DEF Obtained, FitsBuffer, TotalLen, Joined
  <2>1. CASE s = who
    <3>1. mu'[s] = v
      BY <1>1, <2>1 DEF MuInv, MuTyped
    <3> QED
      BY <2>1, <3>1
  <2>2. CASE s # who
    <3>1. mu'[s] = mu[s] /\ Over(s)
      BY <1>1, <2>2 DEF MuInv, MuTyped, Over, Side
    <3> QED
      BY <3>1 DEF MuInv, Obtained
  <2> QED
    BY <2>1, <2>2
<1> QED
  BY <1>2, <1>3, <1>4

LEMMA InjectPieceInv ==
  ASSUME MuInv, InjectPiece
  PROVE  Collected'
<1> DEFINE in == input[who]  n == piece - 1  c == Pieces(in)[piece]
<1>1. /\ in \in InputOf /\ n \in 0 .. 3 /\ piece = n + 1 /\ Injected = n /\ Injected' = n + 1
      /\ piece' = piece + 1 /\ input' = input /\ who' = who /\ piece # 0
      /\ Inject(c) \/ InjectRefused(c)
  BY DEF MuInv, MuTyped, InjectPiece, Injected
<1>2. finalized = 0 /\ finalized' = 0 /\ buffer \in Seq(Chunk) /\ buffer_len \in Nat
  BY <1>1, KeccakPrngAssumption
    DEF InjectPiece, MuInv, Collected, Inject, InjectRefused, inputVars, IInv, TypeOK
<1>3. ASSUME FitsBuffer(in)
      PROVE  /\ Len(buffer') = n + 1
             /\ \A i \in 1 .. n + 1 : buffer'[i] = Pieces(in)[i]
             /\ buffer_len' = BytesUpTo(in, n + 1)
  <2>1. /\ Len(buffer) = n /\ \A i \in 1 .. n : buffer[i] = Pieces(in)[i]
        /\ buffer_len = BytesUpTo(in, n)
    BY <1>1, <1>3 DEF MuInv, Collected
  <2>2. /\ BytesUpTo(in, n + 1) = buffer_len + ChunkLen[c] /\ BytesUpTo(in, n + 1) <= BufferSize
    <3>1. TotalLen(in) <= BufferSize /\ BufferSize \in Nat
      BY <1>3, KeccakPrngAssumption DEF FitsBuffer
    <3>2. /\ BytesUpTo(in, n + 1) = BytesUpTo(in, n) + ChunkLen[Pieces(in)[n + 1]]
          /\ BytesUpTo(in, n + 1) <= TotalLen(in)
          /\ BytesUpTo(in, n + 1) \in Nat /\ TotalLen(in) \in Nat
      BY <1>1, UpToNext
    <3> QED
      BY <1>1, <2>1, <3>1, <3>2
  <2>3. Inject(c)
    BY <1>1, <1>2, <2>2 DEF InjectRefused, Fits
  <2>4. buffer' = Append(buffer, c) /\ buffer_len' = BytesUpTo(in, n + 1)
    BY <2>2, <2>3 DEF Inject
  <2>5. Len(buffer') = n + 1
        /\ \A i \in 1 .. n + 1 : buffer'[i] = IF i = n + 1 THEN c ELSE buffer[i]
    BY <1>1, <1>2, <2>1, <2>4
  <2>6. \A i \in 1 .. n + 1 : i # n + 1 => i \in 1 .. n
    BY <1>1
  <2> QED
    BY <1>1, <2>1, <2>4, <2>5, <2>6
<1>4. (in' = in) /\ (FitsBuffer(in)' <=> FitsBuffer(in)) /\ Pieces(in)' = Pieces(in)
      /\ BytesUpTo(in, Injected)' = BytesUpTo(in, n + 1)
  BY <1>1 DEF FitsBuffer, TotalLen, Pieces, BytesUpTo
<1> HIDE DEF in, n, c
<1>5. piece' \in 1 .. 5
  BY <1>1
<1> QED
  BY <1>1, <1>2, <1>3, <1>4, <1>5 DEF Collected, in

(* The steps after the pieces keep the input. *)
LEMMA InputKept ==
  ASSUME MuInv, FlipMu \/ ExtractMu \/ FillMu
  PROVE  Collected'
<1>1. /\ piece \in 5 .. 7 /\ piece' \in 6 .. 7 /\ UNCHANGED <<buffer, buffer_len, input, who>>
      /\ finalized' = 1
  BY DEF MuInv, MuTyped, Collected, FlipMu, ExtractMu, FillMu, Flip, ExtractBegin, NoLeftover,
     NextBlock,
         inputVars, callerVars
<1>2. Injected = 4 /\ Injected' = 4 /\ piece # 0
  BY <1>1 DEF Injected
<1>3. FitsBuffer(input[who])' <=> FitsBuffer(input[who])
  BY <1>1 DEF FitsBuffer, TotalLen
<1>4. Pieces(input[who])' = Pieces(input[who])
      /\ BytesUpTo(input[who], Injected)' = BytesUpTo(input[who], Injected)
  BY <1>1, <1>2 DEF Pieces, BytesUpTo
<1> QED
  BY <1>1, <1>2, <1>3, <1>4 DEF MuInv, Collected

(* A step of a running call leaves the caller's variables but piece alone. *)
LEMMA CallRuns ==
  ASSUME MuInv, UNCHANGED <<input, who, mu>>, piece' \in 0 .. 7,
         piece' # 0 => who \in Side /\ Len(input[who].ctx) <= CtxLimit
  PROVE  MuTyped' /\ Obtained'
<1>1. MuTyped'
  BY DEF MuInv, MuTyped
<1>2. Obtained'
  BY DEF MuInv, Obtained, Over, FitsBuffer, TotalLen, Joined
<1> QED
  BY <1>1, <1>2

LEMMA BeginMuInv ==
  ASSUME MuInv, BeginMu
  PROVE  MuTyped' /\ Collected' /\ Obtained'
<1>1. /\ buffer' = << >> /\ buffer_len' = 0 /\ finalized' = 0 /\ piece' = 1
      /\ UNCHANGED <<input, who, mu>> /\ who \in Side /\ ~ContextTooLong
  BY DEF BeginMu, InitCtx
<1>2. Len(input[who].ctx) <= CtxLimit
  <2>1. input[who] \in InputOf
    BY <1>1 DEF MuInv, MuTyped
  <2> QED
    BY <1>1, <2>1, PiecesTyped, MuHashAssumption DEF ContextTooLong
<1>3. Collected'
  <2>1. Injected' = 0
    BY <1>1 DEF Injected
  <2>2. BytesUpTo(input[who], Injected)' = 0
    BY <2>1 DEF BytesUpTo
  <2> QED
    BY <1>1, <2>1, <2>2 DEF Collected
<1>4. MuTyped' /\ Obtained'
  BY <1>1, <1>2, CallRuns
<1> QED
  BY <1>3, <1>4

LEMMA EndMuInv ==
  ASSUME MuInv, EndMu
  PROVE  MuTyped' /\ Collected' /\ Obtained'
<1>1. /\ NextCall(Ext!FlattenSeq(state)) /\ who \in Side /\ Len(input[who].ctx) <= CtxLimit
      /\ state = buffer /\ Injected = 4 /\ input[who] \in InputOf
  BY DEF EndMu, MuInv, MuTyped, Collected, IInv, StreamInv, PhasesKept, Injected
<1>2. ASSUME FitsBuffer(input[who])
      PROVE  Ext!FlattenSeq(state) = Joined(input[who])
  <2>1. Len(state) = 4 /\ \A i \in 1 .. 4 : state[i] = Pieces(input[who])[i]
    BY <1>1, <1>2 DEF EndMu, MuInv, Collected
  <2>2. /\ state[1] = Tr /\ state[2] = Header(input[who].ctx)
        /\ state[3] = input[who].ctx /\ state[4] = input[who].m
    BY <2>1 DEF Pieces
  <2> QED
    BY <2>1, <2>2, FourFlattened DEF Joined
<1> QED
  BY <1>1, <1>2, CallOver

LEMMA MuStep ==
  ASSUME MuInv, [MuNext]_<<vars, callerVars>>
  PROVE  MuInv'
<1>1. IInv'
  BY MuGenerator
<1>2. CASE RefuseContext
  <2>1. MuTyped' /\ Collected' /\ Obtained'
    BY <1>2, CallOver DEF RefuseContext
  <2> QED
    BY <1>1, <2>1 DEF MuInv
<1>3. CASE BeginMu
  BY <1>1, <1>3, BeginMuInv DEF MuInv
<1>4. CASE InjectPiece
  <2>1. UNCHANGED <<input, who, mu>> /\ piece' \in 0 .. 7 /\ piece # 0
    BY <1>4 DEF InjectPiece
  <2>2. MuTyped' /\ Obtained'
    BY <2>1, CallRuns DEF MuInv, MuTyped
  <2> QED
    BY <1>1, <1>4, <2>2, InjectPieceInv DEF MuInv
<1>5. CASE FlipMu \/ ExtractMu \/ FillMu
  <2>1. UNCHANGED <<input, who, mu>> /\ piece' \in 0 .. 7 /\ piece # 0
    BY <1>5 DEF FlipMu, ExtractMu, FillMu, callerVars
  <2>2. MuTyped' /\ Obtained'
    BY <2>1, CallRuns DEF MuInv, MuTyped
  <2> QED
    BY <1>1, <1>5, <2>2, InputKept DEF MuInv
<1>6. CASE EndMu
  BY <1>1, <1>6, EndMuInv DEF MuInv
<1>7. CASE UNCHANGED <<vars, callerVars>>
  <2>1. MuTyped' /\ Obtained'
    BY <1>7, CallRuns DEF callerVars, MuInv, MuTyped
  <2>2. Collected'
    BY <1>7
      DEF vars, inputVars, callerVars, MuInv, Collected, Injected, FitsBuffer, TotalLen, Pieces,
                BytesUpTo
  <2> QED
    BY <1>1, <2>1, <2>2 DEF MuInv
<1> QED
  BY <1>2, <1>3, <1>4, <1>5, <1>6, <1>7 DEF MuNext

LEMMA MuInvariant == MuSpec => []MuInv
BY MuInitial, MuStep, PTL DEF MuSpec

-----------------------------------------------------------------------------
(* What a signer and a verifier have obtained when both have returned.     *)
LEMMA WhenDone ==
  ASSUME MuInv, BothDone, NEW s \in Side, mu[s] # Refused
  PROVE  /\ input[s] \in InputOf /\ Len(input[s].ctx) <= CtxLimit
         /\ FitsBuffer(input[s]) => mu[s] = Joined(input[s])
BY DEF MuInv, MuTyped, Obtained, Over, BothDone

(***************************************************************************)
(* Signer and C verifier obtain the same mu exactly for the same context   *)
(* and message, if these fit the input buffer.                             *)
(***************************************************************************)
THEOREM MuCorrect == MuSpec => []MuBinds
<1>1. ASSUME MuInv
      PROVE  MuBinds
  <2> SUFFICES ASSUME BothDone, \A s \in Side : mu[s] # Refused /\ FitsBuffer(input[s])
               PROVE  mu["signer"] = mu["verifier"] <=> input["signer"] = input["verifier"]
    BY DEF MuBinds, Same
  <2> DEFINE a == input["signer"]  b == input["verifier"]
  <2>1. "signer" \in Side /\ "verifier" \in Side
    BY DEF Side
  <2>2. /\ a \in InputOf /\ Len(a.ctx) <= CtxLimit /\ mu["signer"] = Joined(a)
        /\ b \in InputOf /\ Len(b.ctx) <= CtxLimit /\ mu["verifier"] = Joined(b)
    BY <1>1, <2>1, WhenDone
  <2>3. Joined(a) = Joined(b) => a = b
    BY <2>2, JoinedBinds
  <2> QED
    BY <2>2, <2>3
<1> QED
  BY <1>1, MuInvariant, PTL

LEMMA ContractJoins ==
  ASSUME NEW in
  PROVE  ContractMu(in) = IF Len(in.ctx) > CtxLimit THEN Refused ELSE Joined(in)
BY DEF ContractMu, Joined, Header

(* The variant without a context hashes what the others do for an empty one. *)
LEMMA Erc7913Joins ==
  ASSUME NEW in \in InputOf, NEW m \in Message, Len(in.ctx) <= CtxLimit
  PROVE  Erc7913Mu(m) = Joined(in) <=> in.ctx = << >> /\ in.m = m
<1> DEFINE h == Header(in.ctx)  th == Tr \o h  thc == th \o in.ctx
           zero == <<0, 0>>  tz == Tr \o zero
<1>1. /\ Tr \in Seq(Bytes) /\ in.ctx \in Seq(Bytes) /\ in.m \in Seq(Bytes) /\ m \in Seq(Bytes)
      /\ Len(Tr) \in Nat /\ Len(in.ctx) \in Nat
  BY PiecesTyped, MuHashAssumption
<1>2. zero \in Seq(Bytes) /\ Len(zero) = 2 /\ zero[2] = 0
  BY MuHashAssumption DEF Bytes
<1>3. Erc7913Mu(m) = tz \o m
  BY DEF Erc7913Mu
<1> HIDE DEF zero
<1>4. ASSUME in.ctx = << >>
      PROVE  thc = tz
  <2>1. h = zero
    BY <1>4, ShortLength, MuHashAssumption DEF Header, zero
  <2>2. th \in Seq(Bytes)
    BY JoinedTyped
  <2>3. th \o << >> = th
    BY <2>2, ConcatEmptySeq
  <2> QED
    BY <1>4, <2>1, <2>3
<1>5. ASSUME tz \o m = Joined(in)
      PROVE  in.ctx = << >>
  <2>1. /\ tz \in Seq(Bytes) /\ Len(tz) = Len(Tr) + 2 /\ Len(Tr) + 2 \in 1 .. Len(tz)
    <3>1. tz \in Seq(Bytes) /\ Len(tz) = Len(Tr) + Len(zero)
      BY <1>1, <1>2, Longer
    <3> HIDE DEF tz
    <3> QED
      BY <1>1, <1>2, <3>1
  <2>2. tz[Len(Tr) + 2] = 0
    <3>1. \A i \in 1 .. Len(Tr) + Len(zero) :
            tz[i] = IF i <= Len(Tr) THEN Tr[i] ELSE zero[i - Len(Tr)]
      BY <1>1, <1>2, ConcatProperties
    <3>2. Len(Tr) + 2 \in 1 .. Len(Tr) + Len(zero) /\ ~(Len(Tr) + 2 <= Len(Tr))
          /\ (Len(Tr) + 2) - Len(Tr) = 2
      BY <1>1, <1>2
    <3> QED
      BY <1>2, <3>1, <3>2
  <2> HIDE DEF tz
  <2>3. (tz \o m)[Len(Tr) + 2] = 0
    BY <1>1, <2>1, <2>2, Longer
  <2>4. Len(in.ctx) % ByteSpace = 0
    BY <1>5, <2>3, JoinedTyped
  <2>5. Len(in.ctx) = 0
    BY <1>1, <2>4, ShortLength
  <2> QED
    BY <1>1, <2>5
<1>6. ASSUME in.ctx = << >>, tz \o m = Joined(in)
      PROVE  in.m = m
  <2>1. tz \in Seq(Bytes)
    BY <1>1, <1>2, Longer
  <2>2. tz \o m = tz \o in.m
    BY <1>4, <1>6 DEF Joined
  <2> HIDE DEF tz
  <2> QED
    BY <1>1, <2>1, <2>2, Cut
<1>7. ASSUME in.ctx = << >>, in.m = m
      PROVE  tz \o m = Joined(in)
  BY <1>4, <1>7 DEF Joined
<1> HIDE DEF tz
<1> QED
  BY <1>3, <1>5, <1>6, <1>7

LEMMA HashedWhole ==
  ASSUME NEW text \in Seq(Bytes), Len(text) < SizeSpace
  PROVE  Hashed(text) = text
<1>1. SizeSpace \in Nat \ {0} /\ Len(text) \in 0 .. SizeSpace - 1
  BY MuHashAssumption
<1>2. Len(text) % SizeSpace = Len(text)
  BY <1>1, RemainderOfSmall
<1>3. SubSeq(text, 1, Len(text)) = text
  OBVIOUS
<1> QED
  BY <1>2, <1>3 DEF Hashed

LEMMA LowramJoins ==
  ASSUME NEW in \in InputOf, Len(in.m) < SizeSpace
  PROVE  LowramMu(in) = IF Len(in.ctx) > CtxLimit THEN Refused ELSE Joined(in)
<1> SUFFICES ASSUME ~(Len(in.ctx) > CtxLimit)
             PROVE  LowramMu(in) = Joined(in)
  BY DEF LowramMu
<1>1. /\ Tr \in Seq(Bytes) /\ Header(in.ctx) \in Seq(Bytes) /\ in.ctx \in Seq(Bytes)
      /\ in.m \in Seq(Bytes) /\ Len(in.ctx) \in Nat /\ Len(Header(in.ctx)) = 2
  BY PiecesTyped, HeaderTyped
<1>2. /\ Len(Tr) < SizeSpace /\ Len(Header(in.ctx)) < SizeSpace /\ Len(in.ctx) < SizeSpace
  BY <1>1, MuHashAssumption
<1>3. /\ Hashed(Tr) = Tr /\ Hashed(Header(in.ctx)) = Header(in.ctx)
      /\ Hashed(in.ctx) = in.ctx /\ Hashed(in.m) = in.m
  BY <1>1, <1>2, HashedWhole
<1> QED
  BY <1>3 DEF LowramMu, Joined

(* An implementation that refuses the same contexts and joins the same     *)
(* bytes binds the same pairs.                                             *)
LEMMA JoinerBinds ==
  ASSUME NEW a \in InputOf, NEW b \in InputOf, Len(a.ctx) <= CtxLimit,
         NEW v, v = IF Len(b.ctx) > CtxLimit THEN Refused ELSE Joined(b)
  PROVE  v = Joined(a) <=> a = b
<1>1. Joined(a) # Refused
  BY JoinedTyped, MuHashAssumption
<1>2. Len(a.ctx) \in Nat /\ Len(b.ctx) \in Nat /\ CtxLimit \in Nat
  BY PiecesTyped, MuHashAssumption
<1>3. CASE Len(b.ctx) > CtxLimit
  BY <1>1, <1>2, <1>3
<1>4. CASE ~(Len(b.ctx) > CtxLimit)
  <2>1. Len(b.ctx) <= CtxLimit
    BY <1>2, <1>4
  <2>2. Joined(a) = Joined(b) => a = b
    BY <2>1, JoinedBinds
  <2> QED
    BY <1>4, <2>2
<1> QED
  BY <1>3, <1>4

(***************************************************************************)
(* The contracts and c-lowram obtain the mu of a C signer exactly for what *)
(* was signed, if it fits the signer's buffer and, for c-lowram, 16 bits.  *)
(***************************************************************************)
THEOREM OthersCorrect == MuSpec => []OthersBind
<1>1. ASSUME MuInv
      PROVE  OthersBind
  <2> DEFINE a == input["signer"]  b == input["verifier"]
  <2>1. "signer" \in Side /\ "verifier" \in Side
    BY DEF Side
  <2>2. b \in InputOf
    BY <1>1, <2>1 DEF MuInv, MuTyped
  <2>3. ASSUME BothDone, mu["signer"] # Refused, FitsBuffer(a)
        PROVE  a \in InputOf /\ Len(a.ctx) <= CtxLimit /\ mu["signer"] = Joined(a)
    BY <1>1, <2>1, <2>3, WhenDone
  <2>4. ContractBinds
    <3> SUFFICES ASSUME BothDone, mu["signer"] # Refused, FitsBuffer(a)
                 PROVE  /\ ContractMu(b) = mu["signer"] <=> a = b
                        /\ Erc7913Mu(b.m) = mu["signer"] <=> a.ctx = << >> /\ a.m = b.m
      BY DEF ContractBinds, Same
    <3>1. ContractMu(b) = Joined(a) <=> a = b
      BY <2>2, <2>3, ContractJoins, JoinerBinds
    <3>2. b.m \in Message
      BY <2>2 DEF InputOf
    <3>3. Erc7913Mu(b.m) = Joined(a) <=> a.ctx = << >> /\ a.m = b.m
      BY <2>3, <3>2, Erc7913Joins
    <3> QED
      BY <2>3, <3>1, <3>3
  <2>5. LowramBinds
    <3> SUFFICES ASSUME BothDone, mu["signer"] # Refused, FitsBuffer(a), Len(b.m) < SizeSpace
                 PROVE  LowramMu(b) = mu["signer"] <=> a = b
      BY DEF LowramBinds, Same
    <3>1. LowramMu(b) = Joined(a) <=> a = b
      BY <2>2, <2>3, LowramJoins, JoinerBinds
    <3> QED
      BY <2>3, <3>1
  <2> QED
    BY <2>4, <2>5 DEF OthersBind
<1> QED
  BY <1>1, MuInvariant, PTL
=============================================================================
