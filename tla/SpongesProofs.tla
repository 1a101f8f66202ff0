----------------------------- MODULE SpongesProofs -----------------------------
(***************************************************************************)
(* Proofs about the three incremental sponges, for every rate, every input *)
(* in whatever pieces and every output in whatever portions.               *)
(*                                                                         *)
(* All three keep the same account of the input: the blocks processed are  *)
(* the first ones of it (InputBlocks), and the bytes after them are the    *)
(* first of the current block.  From the padding on, the state has been    *)
(* permuted with the padded input and then with zero blocks (StateBlocks), *)
(* one for every block of output that was begun.                           *)
(***************************************************************************)
EXTENDS MCSponges, IntegerLemmas, SequenceTheorems

-----------------------------------------------------------------------------
(***************************************************************************)
(* The blocks a sponge goes through.                                       *)
(***************************************************************************)
Blocks == [Index -> SUBSET Int]

(* Block b of the input, if it is complete. *)
FullBlock(b) == [i \in Index |-> {Rate * (b - 1) + i}]

(* The block after l complete ones, with r bytes in it; and padded. *)
PartBlock(l, r) == [i \in Index |-> IF i < r THEN {Rate * l + i} ELSE {}]
LastBlock(l, r) == [i \in Index |-> IF i < r THEN {Rate * l + i} ELSE PadAt(i, r)]

(* Block b of those that n bytes of input and its output take. *)
StateBlock(n, b) ==
  IF b <= n \div Rate THEN FullBlock(b)
  ELSE IF b = (n \div Rate) + 1 THEN LastBlock(n \div Rate, n % Rate) ELSE ZeroBlock

InputBlocks(s) == \A b \in 1 .. Len(s) : s[b] = FullBlock(b)
StateBlocks(s, n) == \A b \in 1 .. Len(s) : s[b] = StateBlock(n, b)

(* The first m bytes of the output for n bytes of input. *)
Output(n, m) == [p \in 1 .. m |-> OutputByte(n, p - 1)]

-----------------------------------------------------------------------------
(***************************************************************************)
(* The invariants.                                                         *)
(***************************************************************************)
(* keccak_update: `rest` is already what it will be on return. *)
KeccakInput ==
  LET done == Rate * Len(k_hash)
  IN  /\ InputBlocks(k_hash)
      /\ k_pc = "idle" =>
           /\ done + k_rest = k_total
           /\ \A i \in Index : i < k_rest => k_message[i] = {done + i}
      /\ k_pc # "idle" => k_msg + k_size = k_total
      /\ k_pc = "partial" =>
           /\ done + k_idx = k_msg
           /\ k_rest = (k_idx + k_size) % Rate
           /\ \A i \in Index : i < k_idx => k_message[i] = {done + i}
      /\ k_pc = "blocks" => done = k_msg /\ k_rest = k_size % Rate

KeccakInv ==
  /\ Keccak!TypeOK
  /\ k_finalized = 0 => KeccakInput
  /\ k_finalized = 1 => k_pc = "idle" /\ k_hash = Padded(k_total)

(* fips202.c: the block that is not permuted in yet is one of the state's. *)
ShakeInput ==
  /\ pc \in {"idle", "absorb", "once"}
  /\ pc = "once" => pos = 0
  /\ InputBlocks(hash)
  /\ Rate * Len(hash) + pos + todo = total
  /\ block = PartBlock(Len(hash), pos)
  /\ squeezed = << >>

ShakeOutput ==
  /\ pc \in {"idle", "squeeze", "blocks"}
  /\ pc = "blocks" => pos = Rate /\ Len(squeezed) + todo * Rate <= MaxOutput
  /\ pc = "squeeze" => Len(squeezed) + todo <= MaxOutput
  /\ Len(hash) >= total \div Rate
  /\ StateBlocks(hash, total)
  /\ block = StateBlock(total, Len(hash) + 1)
  /\ Len(squeezed) + Rate = Rate * (Len(hash) - (total \div Rate)) + pos

ShakeInv ==
  /\ TypeOK
  /\ pc = "idle" => todo = 0
  /\ squeezed = Output(total, Len(squeezed)) /\ Len(squeezed) \in Nat
  /\ ~finalized => ShakeInput
  /\ finalized => ShakeOutput

(* ZKNOX_shake.sol: permuted as soon as the block is full, or read. *)
SolInput ==
  /\ sol_pc \in {"idle", "absorb"}
  /\ InputBlocks(sol_state)
  /\ Rate * Len(sol_state) + sol_i + sol_todo = sol_total
  /\ sol_buff = PartBlock(Len(sol_state), sol_i)
  /\ sol_squeezed = << >>

SolOutput ==
  /\ sol_pc \in {"idle", "squeeze"}
  /\ sol_pc = "squeeze" => Len(sol_squeezed) + sol_todo <= MaxOutput
  /\ Len(sol_state) > sol_total \div Rate
  /\ StateBlocks(sol_state, sol_total)
  /\ sol_buff = ZeroBlock
  /\ Len(sol_squeezed) + Rate = Rate * (Len(sol_state) - (sol_total \div Rate)) + sol_i

SolInv ==
  /\ Sol!TypeOK
  /\ sol_pc = "idle" => sol_todo = 0
  /\ sol_squeezed = Output(sol_total, Len(sol_squeezed)) /\ Len(sol_squeezed) \in Nat
  /\ ~sol_digested => SolInput
  /\ sol_digested => SolOutput

SpongesInv == KeccakInv /\ ShakeInv /\ SolInv

-----------------------------------------------------------------------------
(***************************************************************************)
(* Positions in a sequence of blocks.                                      *)
(***************************************************************************)
LEMMA Position ==
  ASSUME NEW l \in Nat, NEW r \in Index
  PROVE  /\ (Rate * l + r) \div Rate = l
         /\ (Rate * l + r) % Rate = r
         /\ Rate * l + r \in Nat
         /\ Rate * (l + 1) = Rate * l + Rate
<1> DEFINE x == Rate * l + r  q == x \div Rate  s == x % Rate
<1>1. Rate \in Nat \ {0} /\ x \in Int
  BY SpongePaddingAssumption DEF Index
<1>2. q \in Int /\ s \in 0 .. Rate - 1 /\ x = Rate * q + s
  BY <1>1, Division
<1>3. Rate * l + r = Rate * q + s /\ r \in 0 .. Rate - 1
  BY <1>2 DEF Index
<1> HIDE DEF q, s
<1>4. l = q /\ r = s
  BY <1>1, <1>2, <1>3, DivisionUnique
<1>5. Rate * (l + 1) = Rate * l + Rate /\ Rate * l \in Nat
  BY SpongePaddingAssumption
<1> QED
  BY <1>4, <1>5 DEF q, s, Index

LEMMA Split ==
  ASSUME NEW n \in Nat
  PROVE  /\ n \div Rate \in Nat
         /\ n % Rate \in Index
         /\ n = Rate * (n \div Rate) + (n % Rate)
BY SpongePaddingAssumption DEF Index

(* The blocks before a place do not overlap it. *)
LEMMA NextMultiple ==
  ASSUME NEW m \in Int
  PROVE  /\ Rate * m \in Int /\ Rate * (m + 1) = Rate * m + Rate
         /\ m \in Nat => Rate * m \in Nat
BY SpongePaddingAssumption

LEMMA Below ==
  ASSUME NEW l \in Nat, NEW b \in 1 .. l
  PROVE  Rate * (b - 1) \in Nat /\ Rate * (b - 1) + Rate <= Rate * l
<1>1. PICK d \in Nat : l = b + d
  <2>1. l - b \in Nat /\ l = b + (l - b)
    OBVIOUS
  <2> QED
    BY <2>1
<1>2. PICK c \in Nat : b = c + 1
  <2>1. b - 1 \in Nat /\ b = (b - 1) + 1
    OBVIOUS
  <2> QED
    BY <2>1
<1>3. Rate * (c + 1 + d) = Rate * c + Rate + Rate * d /\ Rate * d \in Nat /\ Rate * c \in Nat
  BY SpongePaddingAssumption
<1>4. b - 1 = c /\ l = c + 1 + d
  BY <1>1, <1>2
<1> QED
  BY <1>3, <1>4, SpongePaddingAssumption

-----------------------------------------------------------------------------
(***************************************************************************)
(* The padded input, as complete blocks and a last one.                    *)
(***************************************************************************)
LEMMA PaddedBlocks ==
  ASSUME NEW l \in Nat, NEW r \in Index, NEW n, n = Rate * l + r
  PROVE  /\ Padded(n) = [b \in 1 .. l + 1 |-> IF b = l + 1 THEN LastBlock(l, r)
                                                           ELSE FullBlock(b)]
<1>1. n \div Rate = l /\ n % Rate = r /\ n \in Nat
  BY Position
<1>2. ASSUME NEW b \in 1 .. l
      PROVE  [i \in Index |-> PaddedByte(n, b, i)] = FullBlock(b)
  <2>1. ASSUME NEW i \in Index
        PROVE  Rate * (b - 1) + i < n
    BY Below, SpongePaddingAssumption DEF Index
  <2> QED
    BY <2>1 DEF PaddedByte, FullBlock
<1>3. [i \in Index |-> PaddedByte(n, l + 1, i)] = LastBlock(l, r)
  <2>1. ASSUME NEW i \in Index
        PROVE  /\ Rate * ((l + 1) - 1) + i = Rate * l + i
               /\ Rate * l + i < n <=> i < r
    BY SpongePaddingAssumption DEF Index
  <2> QED
    BY <1>1, <2>1 DEF PaddedByte, LastBlock
<1>4. \A b \in 1 .. l + 1 : b \in 1 .. l \/ b = l + 1
  OBVIOUS
<1>5. Padded(n) = [b \in 1 .. l + 1 |-> IF b = l + 1 THEN LastBlock(l, r) ELSE FullBlock(b)]
  <2>1. Padded(n) = [b \in 1 .. l + 1 |-> [i \in Index |-> PaddedByte(n, b, i)]]
    BY <1>1 DEF Padded
  <2>2. \A b \in 1 .. l + 1 : [i \in Index |-> PaddedByte(n, b, i)]
                              = IF b = l + 1 THEN LastBlock(l, r) ELSE FullBlock(b)
    BY <1>2, <1>3, <1>4
  <2> QED
    BY <2>1, <2>2
<1> QED
  BY <1>5

LEMMA PaddedState ==
  ASSUME NEW n \in Nat
  PROVE  \A b \in 1 .. (n \div Rate) + 1 : Padded(n)[b] = StateBlock(n, b)
<1> DEFINE l == n \div Rate  r == n % Rate
<1>1. l \in Nat /\ r \in Index /\ n = Rate * l + r
  BY Split
<1> HIDE DEF l, r
<1>2. Padded(n) = [b \in 1 .. l + 1 |-> IF b = l + 1 THEN LastBlock(l, r) ELSE FullBlock(b)]
  BY <1>1, PaddedBlocks
<1>3. \A b \in 1 .. l + 1 : b <= l \/ b = l + 1
  BY <1>1
<1>4. \A b \in 1 .. l + 1 : b = l + 1 => ~(b <= l)
  BY <1>1
<1> QED
  BY <1>2, <1>3, <1>4 DEF StateBlock, l, r

LEMMA AppendIsFunction ==
  ASSUME NEW S, NEW s \in Seq(S), NEW e \in S
  PROVE  Append(s, e) = [b \in 1 .. Len(s) + 1 |-> IF b = Len(s) + 1 THEN e ELSE s[b]]
<1> DEFINE t == Append(s, e)
<1>1. t \in Seq(S) /\ Len(t) = Len(s) + 1
  OBVIOUS
<1>2. \A b \in 1 .. Len(s) + 1 : t[b] = IF b = Len(s) + 1 THEN e ELSE s[b]
  OBVIOUS
<1> HIDE DEF t
<1>3. t \in [1 .. Len(s) + 1 -> S]
  BY <1>1, LenProperties
<1>4. t = [b \in 1 .. Len(s) + 1 |-> IF b = Len(s) + 1 THEN e ELSE s[b]]
  BY <1>2, <1>3
<1> QED
  BY <1>4 DEF t

(* Appending the padded block to the complete ones gives the padded input. *)
LEMMA PaddedByAppend ==
  ASSUME NEW s \in Seq(Blocks), InputBlocks(s), NEW r \in Index, NEW n,
         n = Rate * Len(s) + r
  PROVE  Append(s, LastBlock(Len(s), r)) = Padded(n)
<1> DEFINE l == Len(s)
<1>1. l \in Nat
  OBVIOUS
<1> DEFINE last == LastBlock(l, r)
<1>2. Append(s, last) = [b \in 1 .. l + 1 |-> IF b = l + 1 THEN last ELSE s[b]]
  <2>1. last \in Blocks
    BY <1>1, Position, SpongePaddingAssumption
       DEF LastBlock, Blocks, PadAt, Index, FirstPad, LastPad
  <2> HIDE DEF last
  <2> QED
    BY <2>1, AppendIsFunction
<1>3. \A b \in 1 .. l + 1 : b # l + 1 => s[b] = FullBlock(b)
  BY <1>1 DEF InputBlocks
<1>4. Padded(n) = [b \in 1 .. l + 1 |-> IF b = l + 1 THEN last ELSE FullBlock(b)]
  BY <1>1, PaddedBlocks
<1> HIDE DEF last
<1>5. Append(s, last) = Padded(n)
  BY <1>2, <1>3, <1>4
<1> QED
  BY <1>5 DEF last

(* One more complete block. *)
LEMMA InputByAppend ==
  ASSUME NEW s \in Seq(Blocks), InputBlocks(s)
  PROVE  /\ FullBlock(Len(s) + 1) = PartBlock(Len(s), Rate)
         /\ InputBlocks(Append(s, FullBlock(Len(s) + 1)))
         /\ Append(s, FullBlock(Len(s) + 1)) \in Seq(Blocks)
         /\ Len(Append(s, FullBlock(Len(s) + 1))) = Len(s) + 1
         /\ Rate * (Len(s) + 1) = Rate * Len(s) + Rate
<1> DEFINE b == FullBlock(Len(s) + 1)
<1>1. Len(s) \in Nat
  OBVIOUS
<1>2. b = PartBlock(Len(s), Rate)
  <2>1. (Len(s) + 1) - 1 = Len(s) /\ \A i \in Index : i < Rate
    BY <1>1, SpongePaddingAssumption DEF Index
  <2> QED
    BY <2>1 DEF FullBlock, PartBlock
<1>3. b \in Blocks
  BY <1>1, SpongePaddingAssumption DEF FullBlock, Blocks, Index
<1> HIDE DEF b
<1>4. Append(s, b) \in Seq(Blocks) /\ Len(Append(s, b)) = Len(s) + 1
  BY <1>3
<1>5. \A c \in 1 .. Len(s) + 1 : Append(s, b)[c] = IF c = Len(s) + 1 THEN b ELSE s[c]
  BY <1>3
<1>6. InputBlocks(Append(s, b))
  BY <1>1, <1>4, <1>5 DEF InputBlocks, b
<1>7. Rate * (Len(s) + 1) = Rate * Len(s) + Rate
  BY <1>1, SpongePaddingAssumption
<1> QED
  BY <1>2, <1>4, <1>6, <1>7 DEF b

-----------------------------------------------------------------------------
(***************************************************************************)
(* Keccak-256.                                                             *)
(***************************************************************************)
(* A buffer as the type invariant has it, and the blocks of one. *)
KeccakBlocks == [Index -> SUBSET (LastPad .. MaxBytes - 1)]

(* SpongePadding is the same for the three modules that extend it. *)
LEMMA KeccakNames ==
  /\ Keccak!Index = Index /\ Keccak!ZeroBlock = ZeroBlock
  /\ Keccak!FirstPad = FirstPad /\ Keccak!LastPad = LastPad
  /\ \A i, r : Keccak!PadAt(i, r) = PadAt(i, r)
  /\ \A n : Keccak!Padded(n) = Padded(n)
<1>1. Keccak!Index = Index /\ Keccak!FirstPad = FirstPad /\ Keccak!LastPad = LastPad
  BY DEF Keccak!Index, Index, Keccak!FirstPad, FirstPad, Keccak!LastPad, LastPad
<1>2. \A i, r : Keccak!PadAt(i, r) = PadAt(i, r)
  BY <1>1 DEF Keccak!PadAt, PadAt
<1>3. \A n, b, i : Keccak!PaddedByte(n, b, i) = PaddedByte(n, b, i)
  BY <1>2 DEF Keccak!PaddedByte, PaddedByte
<1> QED
  BY <1>1, <1>2, <1>3 DEF Keccak!ZeroBlock, ZeroBlock, Keccak!Padded, Padded

LEMMA KeccakTypes ==
  ASSUME KeccakInv
  PROVE  /\ Rate \in Nat \ {0} /\ MaxBytes \in Nat /\ SizeSpace \in Nat \ {0}
         /\ FirstPad = -1 /\ LastPad = -2
         /\ k_hash \in Seq(KeccakBlocks) /\ k_hash \in Seq(Blocks)
         /\ Len(k_hash) \in Nat /\ Rate * Len(k_hash) \in Nat
         /\ k_message \in KeccakBlocks
         /\ k_rest \in Index /\ k_idx \in Index
         /\ k_size \in Nat /\ k_msg \in Nat /\ k_total \in Nat /\ k_passed \in Nat
         /\ k_msg <= k_total /\ k_total <= k_passed /\ k_passed <= MaxBytes
         /\ k_finalized \in {0, 1} /\ k_ret \in {0, -2}
         /\ k_pc \in {"idle", "partial", "blocks"} /\ k_aligned \in BOOLEAN
<1>1. Rate \in Nat \ {0} /\ MaxBytes \in Nat /\ SizeSpace \in Nat \ {0}
      /\ FirstPad = -1 /\ LastPad = -2
  BY SpongePaddingAssumption, SpongesAssumption DEF FirstPad, LastPad
<1>2. /\ k_hash \in Seq(KeccakBlocks) /\ k_message \in KeccakBlocks
      /\ k_rest \in Index /\ k_idx \in Index /\ k_size \in Nat
      /\ k_msg \in 0 .. k_total /\ k_total \in 0 .. k_passed /\ k_passed \in 0 .. MaxBytes
      /\ k_finalized \in {0, 1} /\ k_ret \in {0, -2}
      /\ k_pc \in {"idle", "partial", "blocks"} /\ k_aligned \in BOOLEAN
  BY KeccakNames DEF KeccakInv, Keccak!TypeOK, KeccakBlocks
<1>3. KeccakBlocks \subseteq Blocks
  BY <1>1 DEF KeccakBlocks, Blocks
<1>4. k_hash \in Seq(Blocks) /\ Len(k_hash) \in Nat
  BY <1>2, <1>3, SeqMonotonic
<1> QED
  BY <1>1, <1>2, <1>4

LEMMA KeccakNumbers ==
  ASSUME KeccakInv
  PROVE  /\ Rate \in Nat /\ Rate > 0 /\ MaxBytes \in Nat
         /\ k_rest \in Nat /\ k_rest < Rate /\ k_idx \in Nat /\ k_idx < Rate
         /\ k_size \in Nat /\ k_msg \in Nat /\ k_total \in Nat /\ k_passed \in Nat
         /\ k_msg <= k_total /\ k_total <= k_passed /\ k_passed <= MaxBytes
         /\ \A i \in Index : i \in Nat /\ i < Rate
BY KeccakTypes DEF Index

LEMMA KeccakTypeNext ==
  ASSUME k_hash' \in Seq(KeccakBlocks), k_message' \in KeccakBlocks,
         k_rest' \in Index, k_idx' \in Index, k_size' \in Nat,
         k_msg' \in Nat, k_msg' <= k_total', k_total' \in Nat, k_total' <= k_passed',
         k_passed' \in Nat, k_passed' <= MaxBytes,
         k_finalized' \in {0, 1}, k_ret' \in {0, -2},
         k_pc' \in {"idle", "partial", "blocks"}, k_aligned' \in BOOLEAN
  PROVE  Keccak!TypeOK'
BY KeccakNames, SpongesAssumption DEF Keccak!TypeOK, KeccakBlocks

(* What the memcpy of keccak_update leaves in the buffer. *)
LEMMA KeccakCopied ==
  ASSUME KeccakInv, k_msg + k_size = k_total,
         NEW at \in Nat, NEW n \in Nat, n <= k_size
  PROVE  /\ Keccak!Copied(at, n) \in KeccakBlocks
         /\ \A i \in Index : Keccak!Copied(at, n)[i]
              = IF at <= i /\ i < at + n THEN {k_msg + i - at} ELSE k_message[i]
<1>1. /\ k_msg \in Nat /\ k_size \in Nat /\ k_total <= MaxBytes /\ MaxBytes \in Nat
      /\ k_message \in KeccakBlocks /\ LastPad = -2
  BY KeccakTypes
<1>2. \A i \in Index : at <= i /\ i < at + n => k_msg + i - at \in LastPad .. MaxBytes - 1
  BY <1>1, SpongePaddingAssumption DEF Index
<1> QED
  BY <1>1, <1>2, KeccakNames DEF Keccak!Copied, KeccakBlocks

(* A block that holds the next bytes of the input is the next full one. *)
LEMMA NextBlockFull ==
  ASSUME NEW l \in Nat, NEW b \in Blocks, \A i \in Index : b[i] = {Rate * l + i}
  PROVE  b = FullBlock(l + 1)
<1>1. (l + 1) - 1 = l
  OBVIOUS
<1> QED
  BY <1>1 DEF FullBlock, Blocks

LEMMA KeccakZero ==
  /\ ZeroBlock \in KeccakBlocks /\ 0 \in Index
  /\ << >> \in Seq(KeccakBlocks) /\ Len(<< >>) = 0 /\ Rate * 0 = 0
  /\ \A i \in Index : ~(i < 0)
BY SpongePaddingAssumption DEF ZeroBlock, KeccakBlocks, Index

LEMMA KeccakStart == Keccak!Init => KeccakInv
<1> SUFFICES ASSUME Keccak!Init
             PROVE  KeccakInv
  OBVIOUS
<1>1. KeccakInput
  BY KeccakZero, KeccakNames DEF Keccak!Init, KeccakInput, InputBlocks
<1>2. Keccak!TypeOK
  BY KeccakZero, KeccakNames, SpongesAssumption DEF Keccak!Init, Keccak!TypeOK, KeccakBlocks
<1> QED
  BY <1>1, <1>2 DEF Keccak!Init, KeccakInv

LEMMA KeccakInitStep ==
  ASSUME KeccakInv, Keccak!InitCtx
  PROVE  KeccakInv'
<1>1. /\ k_hash' = << >> /\ k_message' = ZeroBlock /\ k_rest' = 0 /\ k_finalized' = 0
      /\ k_total' = 0 /\ k_passed' = 0 /\ k_msg' = 0 /\ k_ret' = 0 /\ k_pc = "idle"
      /\ UNCHANGED <<k_pc, k_size, k_idx, k_aligned>>
  BY KeccakNames DEF Keccak!InitCtx
<1>2. KeccakInput'
  BY <1>1, KeccakZero DEF KeccakInput, InputBlocks
<1>3. Keccak!TypeOK'
  BY <1>1, KeccakZero, KeccakTypes, KeccakTypeNext
<1> QED
  BY <1>1, <1>2, <1>3 DEF KeccakInv

LEMMA KeccakRefusedStep ==
  ASSUME KeccakInv, Keccak!InjectRefused \/ Keccak!FlipRefused
  PROVE  KeccakInv'
<1>1. /\ UNCHANGED <<k_hash, k_message, k_rest, k_finalized, k_pc, k_msg, k_size, k_idx,
                     k_aligned, k_total, k_passed>>
      /\ k_ret' = -2
  BY DEF Keccak!InjectRefused, Keccak!FlipRefused, Keccak!ctxVars, Keccak!callVars,
         Keccak!history
<1>2. Keccak!TypeOK'
  BY <1>1, KeccakTypes, KeccakTypeNext
<1> QED
  BY <1>1, <1>2 DEF KeccakInv, KeccakInput

(* A piece of input longer than the 16-bit parameter is cut, never lengthened. *)
LEMMA KeccakInjectStep ==
  ASSUME KeccakInv, NEW n \in Size, Keccak!Inject(n)
  PROVE  KeccakInv'
<1>1. n \in Nat /\ n % SizeSpace \in Nat /\ n % SizeSpace <= n
  BY SpongesAssumption
<1>2. /\ k_pc = "idle" /\ k_finalized = 0 /\ k_passed + n <= MaxBytes
      /\ k_pc' = "partial" /\ k_size' = n % SizeSpace /\ k_idx' = k_rest
      /\ k_rest' = (k_rest + k_size') % Rate /\ k_aligned' \in BOOLEAN
      /\ k_msg' = k_total /\ k_total' = k_total + k_size' /\ k_passed' = k_passed + n
      /\ UNCHANGED <<k_hash, k_message, k_finalized, k_ret>>
  BY DEF Keccak!Inject
<1> DEFINE size == n % SizeSpace
<1> HIDE DEF size
<1>3. size \in Nat /\ size <= n /\ k_size' = size
  BY <1>1, <1>2 DEF size
<1>4. k_rest' \in Index
  <2>1. k_rest + size \in Nat /\ k_rest' = (k_rest + size) % Rate
    BY <1>2, <1>3, KeccakNumbers
  <2> QED
    BY <2>1, SpongePaddingAssumption DEF Index
<1>5. Keccak!TypeOK'
  <2>1. k_total' \in Nat /\ k_passed' \in Nat /\ k_msg' \in Nat /\ k_msg' <= k_total'
        /\ k_total' <= k_passed' /\ k_passed' <= MaxBytes
    BY <1>1, <1>2, <1>3, KeccakNumbers
  <2> QED
    BY <1>2, <1>3, <1>4, <2>1, KeccakTypes, KeccakTypeNext
<1>6. KeccakInput'
  <2>1. KeccakInput
    BY <1>2 DEF KeccakInv
  <2> QED
    BY <1>2, <1>3, <2>1, KeccakTypes DEF KeccakInput
<1> QED
  BY <1>2, <1>5, <1>6 DEF KeccakInv

LEMMA KeccakNoPartialStep ==
  ASSUME KeccakInv, Keccak!NoPartial
  PROVE  KeccakInv'
<1>1. /\ k_pc = "partial" /\ k_idx = 0 /\ k_pc' = "blocks"
      /\ UNCHANGED <<k_hash, k_message, k_rest, k_finalized, k_msg, k_size, k_idx, k_aligned,
                     k_total, k_passed, k_ret>>
  BY DEF Keccak!NoPartial, Keccak!ctxVars, Keccak!history
<1>2. Keccak!TypeOK'
  BY <1>1, KeccakTypes, KeccakTypeNext
<1>3. k_finalized = 0 /\ KeccakInput
  BY <1>1, KeccakTypes DEF KeccakInv
<1>4. KeccakInput'
  BY <1>1, <1>3, KeccakTypes DEF KeccakInput
<1> QED
  BY <1>1, <1>2, <1>3, <1>4 DEF KeccakInv

(* The partial block is filled up: it is the next full one. *)
LEMMA KeccakFillStep ==
  ASSUME KeccakInv, Keccak!FillPartial
  PROVE  KeccakInv'
<1>1. /\ k_pc = "partial" /\ k_idx > 0 /\ Rate - k_idx <= k_size
      /\ k_message' = Keccak!Copied(k_idx, Rate - k_idx)
      /\ k_hash' = Append(k_hash, k_message')
      /\ k_msg' = k_msg + Rate - k_idx /\ k_size' = k_size - (Rate - k_idx)
      /\ k_pc' = "blocks"
      /\ UNCHANGED <<k_rest, k_finalized, k_idx, k_aligned, k_total, k_passed, k_ret>>
  BY DEF Keccak!FillPartial, Keccak!history
<1> DEFINE done == Rate * Len(k_hash)
<1>0. done \in Nat
  BY KeccakTypes
<1> HIDE DEF done
<1>2. k_finalized = 0 /\ KeccakInput
  BY <1>1, KeccakTypes DEF KeccakInv
<1>3. /\ InputBlocks(k_hash) /\ k_msg + k_size = k_total
      /\ done + k_idx = k_msg
      /\ k_rest = (k_idx + k_size) % Rate
      /\ \A i \in Index : i < k_idx => k_message[i] = {done + i}
  BY <1>1, <1>2 DEF KeccakInput, done
<1>4. Rate - k_idx \in Nat /\ k_idx \in Nat /\ k_idx + (Rate - k_idx) = Rate
  BY KeccakNumbers
<1>5. /\ k_message' \in KeccakBlocks
      /\ \A i \in Index : k_message'[i] = {done + i}
  <2>1. /\ Keccak!Copied(k_idx, Rate - k_idx) \in KeccakBlocks
        /\ \A i \in Index : Keccak!Copied(k_idx, Rate - k_idx)[i]
              = IF k_idx <= i /\ i < k_idx + (Rate - k_idx)
                THEN {k_msg + i - k_idx} ELSE k_message[i]
    BY <1>1, <1>3, <1>4, KeccakCopied
  <2>2. \A i \in Index : /\ i \in Int /\ i < Rate
                         /\ k_msg + i - k_idx = done + i
    BY <1>0, <1>3, KeccakNumbers
  <2>3. ASSUME NEW i \in Index
        PROVE  Keccak!Copied(k_idx, Rate - k_idx)[i] = {done + i}
    <3>1. CASE i < k_idx
      <4>1. ~(k_idx <= i)
        BY <3>1, KeccakNumbers
      <4> QED
        BY <1>3, <2>1, <3>1, <4>1
    <3>2. CASE k_idx <= i
      <4>1. i < k_idx + (Rate - k_idx)
        BY <1>4, <2>2
      <4> QED
        BY <2>1, <2>2, <3>2, <4>1
    <3> QED
      BY <3>1, <3>2, KeccakNumbers
  <2> QED
    BY <1>1, <2>1, <2>3
<1>6. /\ k_message' = FullBlock(Len(k_hash) + 1)
      /\ InputBlocks(k_hash') /\ k_hash' \in Seq(KeccakBlocks)
      /\ Len(k_hash') = Len(k_hash) + 1 /\ Rate * Len(k_hash') = done + Rate
  <2>1. KeccakBlocks \subseteq Blocks
    BY KeccakTypes DEF KeccakBlocks, Blocks
  <2>2. k_message' = FullBlock(Len(k_hash) + 1)
    BY <1>5, <2>1, KeccakTypes, NextBlockFull DEF done
  <2>3. k_hash' \in Seq(KeccakBlocks)
    BY <1>1, <1>5, KeccakTypes
  <2> QED
    BY <1>1, <1>3, <2>2, <2>3, KeccakTypes, InputByAppend DEF done
<1>7. k_rest = k_size' % Rate
  <2>1. k_size' = (k_idx + k_size) + Rate * (-1)
    BY <1>1, KeccakNumbers
  <2>2. k_idx + k_size \in Int /\ -1 \in Int
    BY KeccakNumbers
  <2> HIDE DEF done
  <2> QED
    BY <1>3, <2>1, <2>2, SpongePaddingAssumption, RemainderOfSum
<1>8. k_msg' \in Nat /\ k_size' \in Nat /\ k_msg' + k_size' = k_total' /\ k_msg' <= k_total'
      /\ Rate * Len(k_hash') = k_msg'
  <2>1. k_msg' = done + Rate
    BY <1>0, <1>1, <1>3, KeccakNumbers
  <2>2. k_size' \in Nat /\ k_size' = k_size - (Rate - k_idx) /\ k_total' = k_total
    BY <1>1, KeccakNumbers
  <2>3. Rate * Len(k_hash') = k_msg'
    BY <1>6, <2>1
  <2>4. k_msg' \in Nat /\ k_msg' + k_size' = k_total'
    BY <1>0, <1>3, <2>1, <2>2, KeccakNumbers
  <2> QED
    BY <2>2, <2>3, <2>4, KeccakNumbers
<1>9. Keccak!TypeOK'
  BY <1>1, <1>5, <1>6, <1>8, KeccakTypes, KeccakTypeNext
<1>10. KeccakInput'
  BY <1>1, <1>6, <1>7, <1>8 DEF KeccakInput
<1> QED
  BY <1>1, <1>2, <1>9, <1>10 DEF KeccakInv

(* The early return: the whole piece went into the partial block. *)
LEMMA KeccakExtendStep ==
  ASSUME KeccakInv, Keccak!ExtendPartial
  PROVE  KeccakInv'
<1>1. /\ k_pc = "partial" /\ k_idx > 0 /\ k_size < Rate - k_idx
      /\ k_message' = Keccak!Copied(k_idx, k_size) /\ k_pc' = "idle" /\ k_ret' = 0
      /\ UNCHANGED <<k_hash, k_rest, k_finalized, k_msg, k_size, k_idx, k_aligned,
                     k_total, k_passed>>
  BY DEF Keccak!ExtendPartial, Keccak!Return, Keccak!history
<1>2. k_finalized = 0 /\ KeccakInput
  BY <1>1, KeccakTypes DEF KeccakInv
<1> DEFINE done == Rate * Len(k_hash)
<1>3. done \in Nat
  BY KeccakTypes
<1> HIDE DEF done
<1>4. /\ InputBlocks(k_hash) /\ k_msg + k_size = k_total
      /\ done + k_idx = k_msg
      /\ k_rest = (k_idx + k_size) % Rate
      /\ \A i \in Index : i < k_idx => k_message[i] = {done + i}
  BY <1>1, <1>2 DEF KeccakInput, done
<1>5. k_rest = k_idx + k_size
  <2>1. k_idx + k_size \in 0 .. Rate - 1
    BY <1>1, KeccakNumbers
  <2> QED
    BY <1>4, <2>1, SpongePaddingAssumption, RemainderOfSmall
<1>6. done + k_rest = k_total
  BY <1>3, <1>4, <1>5, KeccakNumbers
<1>7. /\ k_message' \in KeccakBlocks
      /\ \A i \in Index : i < k_rest => k_message'[i] = {done + i}
  <2>1. /\ Keccak!Copied(k_idx, k_size) \in KeccakBlocks
        /\ \A i \in Index : Keccak!Copied(k_idx, k_size)[i]
              = IF k_idx <= i /\ i < k_idx + k_size
                THEN {k_msg + i - k_idx} ELSE k_message[i]
    <3>1. k_idx \in Nat /\ k_size \in Nat /\ k_size <= k_size
      BY KeccakNumbers
    <3> QED
      BY <1>4, <3>1, KeccakCopied
  <2>2. ASSUME NEW i \in Index, i < k_rest
        PROVE  Keccak!Copied(k_idx, k_size)[i] = {done + i}
    <3>1. CASE i < k_idx
      <4>1. ~(k_idx <= i)
        BY <3>1, KeccakNumbers
      <4> QED
        BY <1>4, <2>1, <3>1, <4>1
    <3>2. CASE k_idx <= i
      <4>1. k_msg + i - k_idx = done + i
        BY <1>3, <1>4, KeccakNumbers
      <4> QED
        BY <1>5, <2>1, <2>2, <3>2, <4>1
    <3> QED
      BY <3>1, <3>2, KeccakNumbers
  <2> QED
    BY <1>1, <2>1, <2>2
<1>8. Keccak!TypeOK'
  BY <1>1, <1>7, KeccakTypes, KeccakTypeNext
<1>9. KeccakInput'
  BY <1>1, <1>4, <1>6, <1>7 DEF KeccakInput, done
<1> QED
  BY <1>1, <1>2, <1>8, <1>9 DEF KeccakInv

(* A whole block, read in place or copied. *)
LEMMA KeccakBlockStep ==
  ASSUME KeccakInv, Keccak!ProcessBlock
  PROVE  KeccakInv'
<1> DEFINE b == Keccak!Copied(0, Rate)
<1>1. /\ k_pc = "blocks" /\ k_size >= Rate
      /\ k_hash' = Append(k_hash, b)
      /\ k_message' = IF k_aligned THEN k_message ELSE b
      /\ k_msg' = k_msg + Rate /\ k_size' = k_size - Rate
      /\ UNCHANGED <<k_rest, k_finalized, k_pc, k_idx, k_aligned, k_total, k_passed, k_ret>>
  BY DEF Keccak!ProcessBlock, Keccak!history
<1>2. k_finalized = 0 /\ KeccakInput
  BY <1>1, KeccakTypes DEF KeccakInv
<1> DEFINE done == Rate * Len(k_hash)
<1>3. done \in Nat
  BY KeccakTypes
<1>4. /\ InputBlocks(k_hash) /\ k_msg + k_size = k_total
      /\ done = k_msg /\ k_rest = k_size % Rate
  BY <1>1, <1>2 DEF KeccakInput
<1>5. /\ b \in KeccakBlocks
      /\ \A i \in Index : b[i] = {done + i}
  <2>1. /\ b \in KeccakBlocks
        /\ \A i \in Index : b[i] = IF 0 <= i /\ i < 0 + Rate
                                   THEN {k_msg + i - 0} ELSE k_message[i]
    <3>1. 0 \in Nat /\ Rate \in Nat /\ Rate <= k_size
      BY <1>1, KeccakNumbers
    <3> QED
      BY <1>4, <3>1, KeccakCopied
  <2>2. ASSUME NEW i \in Index
        PROVE  0 <= i /\ i < 0 + Rate /\ k_msg + i - 0 = k_msg + i
    BY KeccakNumbers
  <2> HIDE DEF b, done
  <2> QED
    BY <1>4, <2>1, <2>2
<1> HIDE DEF b
<1>6. /\ InputBlocks(k_hash') /\ k_hash' \in Seq(KeccakBlocks)
      /\ Rate * Len(k_hash') = done + Rate
  <2>1. KeccakBlocks \subseteq Blocks
    BY KeccakTypes DEF KeccakBlocks, Blocks
  <2>2. b = FullBlock(Len(k_hash) + 1)
    BY <1>5, <2>1, KeccakTypes, NextBlockFull
  <2>3. k_hash' \in Seq(KeccakBlocks)
    BY <1>1, <1>5, KeccakTypes
  <2> QED
    BY <1>1, <1>4, <2>2, <2>3, KeccakTypes, InputByAppend
<1> HIDE DEF done
<1>7. k_rest = k_size' % Rate
  <2>1. k_size' = k_size + Rate * (-1)
    BY <1>1, KeccakNumbers
  <2>2. k_size \in Int /\ -1 \in Int
    BY KeccakNumbers
  <2> QED
    BY <1>4, <2>1, <2>2, SpongePaddingAssumption, RemainderOfSum
<1>8. Rate * Len(k_hash') = k_msg'
  BY <1>1, <1>4, <1>6
<1>9. k_msg' \in Nat /\ k_size' \in Nat /\ k_msg' + k_size' = k_total' /\ k_msg' <= k_total'
  <2>1. /\ k_msg' = k_msg + Rate /\ k_size' = k_size - Rate /\ k_total' = k_total
        /\ k_size >= Rate /\ k_msg + k_size = k_total
    BY <1>1, <1>4
  <2>2. k_msg \in Nat /\ k_size \in Nat /\ Rate \in Nat /\ k_total \in Nat
    BY KeccakNumbers
  <2> QED
    BY <2>1, <2>2
<1>10. Keccak!TypeOK'
  BY <1>1, <1>5, <1>6, <1>9, KeccakTypes, KeccakTypeNext
<1>11. KeccakInput'
  BY <1>1, <1>6, <1>7, <1>8, <1>9 DEF KeccakInput
<1> QED
  BY <1>1, <1>2, <1>10, <1>11 DEF KeccakInv

(* The bytes left over go to the front of the buffer. *)
LEMMA KeccakLeftoverStep ==
  ASSUME KeccakInv, Keccak!SaveLeftover
  PROVE  KeccakInv'
<1>1. /\ k_pc = "blocks" /\ k_size < Rate
      /\ k_message' = Keccak!Copied(0, k_size) /\ k_pc' = "idle" /\ k_ret' = 0
      /\ UNCHANGED <<k_hash, k_rest, k_finalized, k_msg, k_size, k_idx, k_aligned,
                     k_total, k_passed>>
  BY DEF Keccak!SaveLeftover, Keccak!Return, Keccak!history
<1>2. k_finalized = 0 /\ KeccakInput
  BY <1>1, KeccakTypes DEF KeccakInv
<1> DEFINE done == Rate * Len(k_hash)
<1>3. done \in Nat
  BY KeccakTypes
<1> HIDE DEF done
<1>4. /\ InputBlocks(k_hash) /\ k_msg + k_size = k_total
      /\ done = k_msg /\ k_rest = k_size % Rate
  BY <1>1, <1>2 DEF KeccakInput, done
<1>5. k_rest = k_size
  <2>1. k_size \in 0 .. Rate - 1
    BY <1>1, KeccakNumbers
  <2> QED
    BY <1>4, <2>1, SpongePaddingAssumption, RemainderOfSmall
<1>6. /\ k_message' \in KeccakBlocks
      /\ \A i \in Index : i < k_rest => k_message'[i] = {done + i}
  <2>1. /\ Keccak!Copied(0, k_size) \in KeccakBlocks
        /\ \A i \in Index : Keccak!Copied(0, k_size)[i]
              = IF 0 <= i /\ i < 0 + k_size THEN {k_msg + i - 0} ELSE k_message[i]
    <3>1. 0 \in Nat /\ k_size \in Nat /\ k_size <= k_size
      BY KeccakNumbers
    <3> QED
      BY <1>4, <3>1, KeccakCopied
  <2>2. ASSUME NEW i \in Index
        PROVE  0 <= i /\ 0 + k_size = k_size /\ k_msg + i - 0 = k_msg + i
    BY KeccakNumbers
  <2> QED
    BY <1>1, <1>4, <1>5, <2>1, <2>2
<1>7. Keccak!TypeOK'
  BY <1>1, <1>6, KeccakTypes, KeccakTypeNext
<1>8. KeccakInput'
  BY <1>1, <1>4, <1>5, <1>6 DEF KeccakInput, done
<1> QED
  BY <1>1, <1>2, <1>7, <1>8 DEF KeccakInv

(* The padding takes the place of whatever earlier blocks left in the buffer. *)
LEMMA KeccakFlipStep ==
  ASSUME KeccakInv, Keccak!Flip
  PROVE  KeccakInv'
<1>1. /\ k_pc = "idle" /\ k_finalized = 0
      /\ k_message' = Keccak!PaddedMessage
      /\ k_hash' = Append(k_hash, k_message')
      /\ k_finalized' = 1 /\ k_ret' = 0
      /\ UNCHANGED <<k_rest, k_pc, k_msg, k_size, k_idx, k_aligned, k_total, k_passed>>
  BY DEF Keccak!Flip, Keccak!callVars, Keccak!history
<1>2. KeccakInput
  BY <1>1 DEF KeccakInv
<1>3. /\ InputBlocks(k_hash) /\ Rate * Len(k_hash) + k_rest = k_total
      /\ \A i \in Index : i < k_rest => k_message[i] = {Rate * Len(k_hash) + i}
  BY <1>1, <1>2 DEF KeccakInput
<1>4. k_message' = LastBlock(Len(k_hash), k_rest)
  <2>1. k_message' = [i \in Index |-> (IF i < k_rest THEN k_message[i] ELSE {})
                                      \cup PadAt(i, k_rest)]
    BY <1>1, KeccakNames DEF Keccak!PaddedMessage
  <2>2. ASSUME NEW i \in Index, i < k_rest
        PROVE  PadAt(i, k_rest) = {}
    BY <2>2, KeccakNumbers DEF PadAt
  <2> QED
    BY <1>3, <2>1, <2>2 DEF LastBlock
<1>5. k_message' \in KeccakBlocks
  <2>1. \A i \in Index : PadAt(i, k_rest) \in SUBSET (LastPad .. MaxBytes - 1)
    BY KeccakTypes DEF PadAt
  <2>2. \A i \in Index : k_message[i] \in SUBSET (LastPad .. MaxBytes - 1)
    BY KeccakTypes DEF KeccakBlocks
  <2>3. k_message' = [i \in Index |-> (IF i < k_rest THEN k_message[i] ELSE {})
                                      \cup PadAt(i, k_rest)]
    BY <1>1, KeccakNames DEF Keccak!PaddedMessage
  <2> QED
    BY <2>1, <2>2, <2>3 DEF KeccakBlocks
<1>6. k_hash' = Padded(k_total)
  BY <1>1, <1>3, <1>4, KeccakTypes, PaddedByAppend
<1>7. k_hash' \in Seq(KeccakBlocks)
  BY <1>1, <1>5, KeccakTypes
<1>8. Keccak!TypeOK'
  BY <1>1, <1>5, <1>7, KeccakTypes, KeccakTypeNext
<1> QED
  BY <1>1, <1>6, <1>8 DEF KeccakInv

LEMMA KeccakStep ==
  ASSUME KeccakInv, [Keccak!Next]_keccakVars
  PROVE  KeccakInv'
<1>1. CASE UNCHANGED keccakVars
  BY <1>1 DEF keccakVars, KeccakInv, KeccakInput, Keccak!TypeOK
<1>2. CASE Keccak!Next
  BY <1>2, KeccakInitStep, KeccakRefusedStep, KeccakInjectStep, KeccakNoPartialStep,
     KeccakFillStep, KeccakExtendStep, KeccakBlockStep, KeccakLeftoverStep, KeccakFlipStep
  DEF Keccak!Next
<1> QED
  BY <1>1, <1>2

-----------------------------------------------------------------------------
(***************************************************************************)
(* SHAKE-256 of the C code.                                                *)
(***************************************************************************)
InputBlocksType == [Index -> SUBSET (LastPad .. MaxInput - 1)]

(* The blocks of an input within the bound have its type. *)
LEMMA BlockTypes ==
  ASSUME NEW n \in 0 .. MaxInput
  PROVE  /\ \A b \in Nat \ {0} : Rate * b <= n => FullBlock(b) \in InputBlocksType
         /\ \A b \in Nat \ {0} : StateBlock(n, b) \in InputBlocksType
         /\ \A l \in Nat, r \in Nat : Rate * l + r <= n => PartBlock(l, r) \in InputBlocksType
         /\ InputBlocksType \subseteq Blocks
<1>1. MaxInput \in Nat /\ Rate \in Nat \ {0} /\ LastPad = -2 /\ FirstPad = -1
  BY ShakeAssumption, SpongePaddingAssumption DEF LastPad, FirstPad
<1>2. ASSUME NEW l \in Nat, NEW r \in Nat, Rate * l + r <= n, NEW i \in Index, i < r
      PROVE  Rate * l + i \in LastPad .. MaxInput - 1
  <2>1. PICK m \in Nat : m = Rate * l
    BY NextMultiple, SpongePaddingAssumption
  <2> QED
    BY <1>1, <1>2, <2>1 DEF Index
<1>3. ASSUME NEW l \in Nat, NEW r \in Nat, Rate * l + r <= n
      PROVE  PartBlock(l, r) \in InputBlocksType
  BY <1>2, <1>3 DEF PartBlock, InputBlocksType
<1>4. \A r : \A i \in Index : PadAt(i, r) \subseteq LastPad .. MaxInput - 1
  BY <1>1 DEF PadAt
<1>5. ASSUME NEW l \in Nat, NEW r \in Nat, Rate * l + r <= n
      PROVE  LastBlock(l, r) \in InputBlocksType
  BY <1>2, <1>4, <1>5 DEF LastBlock, InputBlocksType
<1>6. ASSUME NEW b \in Nat \ {0}, Rate * b <= n
      PROVE  FullBlock(b) \in InputBlocksType
  <2>1. b - 1 \in Nat /\ b \in 1 .. b
    OBVIOUS
  <2>2. PICK m \in Nat : m = Rate * (b - 1) /\ m + Rate <= Rate * b
    BY <2>1, Below
  <2>3. \A i \in Index : m + i \in LastPad .. MaxInput - 1
    BY <1>1, <1>6, <2>2 DEF Index
  <2> QED
    BY <2>2, <2>3 DEF FullBlock, InputBlocksType
<1>7. n \in Nat /\ n \div Rate \in Nat /\ n % Rate \in Index
      /\ n = Rate * (n \div Rate) + (n % Rate)
  BY <1>1, Split
<1>8. ASSUME NEW b \in Nat \ {0}
      PROVE  StateBlock(n, b) \in InputBlocksType
  <2>1. CASE b <= n \div Rate
    <3>1. b \in 1 .. n \div Rate
      BY <1>7, <2>1
    <3>2. Rate * b <= n
      <4>1. Rate * (b - 1) \in Nat /\ Rate * (b - 1) + Rate <= Rate * (n \div Rate)
        BY <1>7, <3>1, Below
      <4>2. Rate * b = Rate * (b - 1) + Rate
        BY <1>1
      <4> QED
        BY <1>1, <1>7, <4>1, <4>2 DEF Index
    <3> QED
      BY <1>6, <2>1, <3>2 DEF StateBlock
  <2>2. CASE b = (n \div Rate) + 1
    <3>1. n % Rate \in Nat /\ Rate * (n \div Rate) + (n % Rate) <= n
      BY <1>7 DEF Index
    <3>2. LastBlock(n \div Rate, n % Rate) \in InputBlocksType
      BY <1>5, <1>7, <3>1
    <3>3. ~(b <= n \div Rate)
      BY <1>7, <2>2
    <3> QED
      BY <2>2, <3>2, <3>3 DEF StateBlock
  <2>3. CASE ~(b <= n \div Rate) /\ b # (n \div Rate) + 1
    BY <2>3 DEF StateBlock, ZeroBlock, InputBlocksType
  <2> QED
    BY <2>1, <2>2, <2>3
<1>9. InputBlocksType \subseteq Blocks
  BY <1>1 DEF InputBlocksType, Blocks
<1> QED
  BY <1>3, <1>6, <1>8, <1>9

-----------------------------------------------------------------------------
(***************************************************************************)
(* The output: a state permuted with the padded input and m zero blocks    *)
(* holds the bytes from Rate * m on.                                       *)
(***************************************************************************)
LEMMA StateBlockType ==
  ASSUME NEW n \in Nat, NEW b \in Nat \ {0}
  PROVE  StateBlock(n, b) \in Blocks
<1>1. n \div Rate \in Nat /\ n % Rate \in Index /\ Rate \in Nat
  BY Split, SpongePaddingAssumption
<1>2. /\ FullBlock(b) \in Blocks /\ ZeroBlock \in Blocks
      /\ LastBlock(n \div Rate, n % Rate) \in Blocks
  BY <1>1 DEF FullBlock, ZeroBlock, LastBlock, PadAt, Blocks, Index, FirstPad, LastPad
<1> QED
  BY <1>2 DEF StateBlock

LEMMA StateSequence ==
  ASSUME NEW n \in Nat, NEW s \in Seq(Blocks), StateBlocks(s, n),
         NEW m \in Nat, Len(s) = (n \div Rate) + 1 + m
  PROVE  s = Padded(n) \o [k \in 1 .. m |-> ZeroBlock]
<1>1. PICK l \in Nat, r \in Index : n = Rate * l + r
  BY Split
<1>0. n \div Rate = l
  BY <1>1, Position
<1>9. \A b \in 1 .. l + 1 : Padded(n)[b] = StateBlock(n, b)
  BY <1>0, PaddedState
<1> DEFINE padded == Padded(n)
           zeros == [k \in 1 .. m |-> ZeroBlock]
           both == padded \o zeros
<1>2. DOMAIN padded = 1 .. l + 1 /\ padded = [b \in DOMAIN padded |-> padded[b]]
  BY <1>0 DEF Padded
<1>3. \A b \in 1 .. l + 1 : padded[b] = StateBlock(n, b)
  BY <1>9
<1> HIDE DEF padded
<1>4. padded \in Seq(Blocks) /\ Len(padded) = l + 1
  <2>1. \A b \in 1 .. l + 1 : padded[b] \in Blocks
    BY <1>3, StateBlockType
  <2>2. padded \in [1 .. l + 1 -> Blocks]
    BY <1>2, <2>1
  <2> QED
    BY <1>2, <2>2, SeqDef, LenProperties
<1>5. zeros \in Seq(Blocks) /\ Len(zeros) = m /\ \A k \in 1 .. m : zeros[k] = ZeroBlock
  BY DEF ZeroBlock, Blocks
<1> HIDE DEF zeros
<1>6. /\ both \in Seq(Blocks) /\ Len(both) = l + 1 + m
      /\ \A b \in 1 .. l + 1 + m : both[b] = IF b <= l + 1 THEN padded[b]
                                                           ELSE zeros[b - (l + 1)]
  <2>1. /\ both \in Seq(Blocks) /\ Len(both) = Len(padded) + Len(zeros)
        /\ \A b \in 1 .. Len(padded) + Len(zeros) :
             both[b] = IF b <= Len(padded) THEN padded[b] ELSE zeros[b - Len(padded)]
    BY <1>4, <1>5, ConcatProperties
  <2> HIDE DEF both
  <2> QED
    BY <1>4, <1>5, <2>1
<1>7. ASSUME NEW b \in 1 .. l + 1 + m
      PROVE  s[b] = both[b]
  <2>1. s[b] = StateBlock(n, b)
    BY <1>0 DEF StateBlocks
  <2>2. CASE b <= l + 1
    BY <1>3, <1>6, <2>1, <2>2
  <2>3. CASE ~(b <= l + 1)
    <3>1. b - (l + 1) \in 1 .. m /\ ~(b <= l) /\ b # l + 1
      BY <2>3
    <3> QED
      BY <1>0, <1>5, <1>6, <2>1, <2>3, <3>1 DEF StateBlock
  <2> QED
    BY <2>2, <2>3
<1> HIDE DEF both
<1>8. s = both
  BY <1>0, <1>6, <1>7, SeqEqual
<1> QED
  BY <1>8 DEF both, padded, zeros

(* Byte d of the output for n bytes of input is in place `first` of state s. *)
Holds(n, d, s, m, first) ==
  /\ n \in Nat /\ d \in Nat /\ s \in Seq(Blocks) /\ m \in Nat /\ first \in Nat
  /\ StateBlocks(s, n) /\ Len(s) = (n \div Rate) + 1 + m
  /\ d = Rate * m + first

LEMMA NextByte ==
  ASSUME NEW n, NEW d, NEW s, NEW m, NEW first, Holds(n, d, s, m, first), first \in Index
  PROVE  OutputByte(n, d) = [hash |-> s, at |-> first, xored |-> {}]
<1>1. d \div Rate = m /\ d % Rate = first
  BY Position DEF Holds
<1>2. s = Padded(n) \o [k \in 1 .. m |-> ZeroBlock]
  BY StateSequence DEF Holds
<1> QED
  BY <1>1, <1>2 DEF OutputByte

LEMMA OutputAppend ==
  ASSUME NEW n \in Nat, NEW d \in Nat, NEW j \in Nat, NEW bytes,
         bytes = [i \in 1 .. j |-> OutputByte(n, d + i - 1)]
  PROVE  /\ Output(n, d) \o bytes = Output(n, d + j)
         /\ Len(Output(n, d + j)) = d + j
         /\ Output(n, 0) = << >>
<1> DEFINE S == {OutputByte(n, p) : p \in Int}
<1>1. ASSUME NEW m \in Nat
      PROVE  /\ Output(n, m) \in Seq(S) /\ Len(Output(n, m)) = m
             /\ \A p \in 1 .. m : Output(n, m)[p] = OutputByte(n, p - 1)
  BY DEF Output
<1>2. bytes \in Seq(S) /\ Len(bytes) = j
  OBVIOUS
<1>3. d + j \in Nat
  OBVIOUS
<1> DEFINE both == Output(n, d) \o bytes
<1>4. Output(n, d) \in Seq(S) /\ Len(Output(n, d)) = d
  BY <1>1
<1> HIDE DEF S
<1>5. /\ both \in Seq(S) /\ Len(both) = d + j
      /\ \A p \in 1 .. d + j : both[p] = IF p <= d THEN Output(n, d)[p] ELSE bytes[p - d]
  <2>1. /\ both \in Seq(S) /\ Len(both) = Len(Output(n, d)) + Len(bytes)
        /\ \A p \in 1 .. Len(Output(n, d)) + Len(bytes) :
             both[p] = IF p <= Len(Output(n, d)) THEN Output(n, d)[p]
                                                ELSE bytes[p - Len(Output(n, d))]
    BY <1>2, <1>4, ConcatProperties
  <2> HIDE DEF both
  <2> QED
    BY <1>2, <1>4, <2>1
<1>6. ASSUME NEW p \in 1 .. d + j
      PROVE  both[p] = OutputByte(n, p - 1)
  <2>1. CASE p <= d
    BY <1>1, <1>5, <2>1
  <2>2. CASE ~(p <= d)
    <3>1. p - d \in 1 .. j /\ d + (p - d) - 1 = p - 1
      BY <2>2
    <3> QED
      BY <1>5, <2>2, <3>1
  <2> QED
    BY <2>1, <2>2
<1>7. both = Output(n, d + j)
  <2>1. /\ Output(n, d + j) \in Seq(S) /\ Len(Output(n, d + j)) = d + j
        /\ \A p \in 1 .. d + j : Output(n, d + j)[p] = OutputByte(n, p - 1)
    BY <1>1, <1>3
  <2> HIDE DEF both
  <2> QED
    BY <1>5, <1>6, <2>1, SeqEqual
<1>8. Output(n, 0) = << >>
  BY DEF Output
<1> QED
  BY <1>1, <1>3, <1>7, <1>8

-----------------------------------------------------------------------------
(* The invariant of fips202.c, step by step: first the absorbing calls. *)
LEMMA ShakeTypes ==
  ASSUME ShakeInv
  PROVE  /\ Rate \in Nat \ {0} /\ MaxInput \in Nat /\ MaxOutput \in Nat
         /\ hash \in Seq(InputBlocksType) /\ hash \in Seq(Blocks)
         /\ Len(hash) \in Nat /\ Rate * Len(hash) \in Nat
         /\ block \in InputBlocksType
         /\ pos \in 0 .. Rate /\ (~finalized => pos < Rate)
         /\ pc \in {"idle", "absorb", "once", "squeeze", "blocks"}
         /\ todo \in Nat /\ total \in 0 .. MaxInput /\ finalized \in BOOLEAN
         /\ Len(squeezed) \in Nat /\ Len(squeezed) <= MaxOutput
<1>1. Rate \in Nat \ {0} /\ MaxInput \in Nat /\ MaxOutput \in Nat
  BY SpongePaddingAssumption, ShakeAssumption
<1>2. /\ hash \in Seq(InputBlocksType) /\ block \in InputBlocksType
      /\ pos \in 0 .. Rate /\ (~finalized => pos < Rate)
      /\ pc \in {"idle", "absorb", "once", "squeeze", "blocks"}
      /\ todo \in Nat /\ total \in 0 .. MaxInput /\ finalized \in BOOLEAN
      /\ Len(squeezed) \in Nat /\ Len(squeezed) <= MaxOutput
  BY DEF ShakeInv, TypeOK, InputBlocksType
<1>3. hash \in Seq(Blocks) /\ Len(hash) \in Nat
  BY <1>2, BlockTypes, SeqMonotonic
<1> QED
  BY <1>1, <1>2, <1>3

LEMMA ShakeNumbers ==
  ASSUME ShakeInv
  PROVE  /\ Rate \in Nat /\ Rate > 0 /\ MaxInput \in Nat /\ MaxOutput \in Nat
         /\ pos \in Nat /\ pos <= Rate /\ todo \in Nat /\ total \in Nat /\ total <= MaxInput
         /\ \A i \in Index : i \in Nat /\ i < Rate
         /\ Len(squeezed) \in Nat /\ Len(squeezed) <= MaxOutput
BY ShakeTypes DEF Index

LEMMA ShakeTypeNext ==
  ASSUME hash' \in Seq(InputBlocksType), block' \in InputBlocksType,
         pos' \in Nat, pos' <= Rate, ~finalized' => pos' < Rate,
         pc' \in {"idle", "absorb", "once", "squeeze", "blocks"},
         todo' \in Nat, total' \in Nat, total' <= MaxInput, finalized' \in BOOLEAN,
         Len(squeezed') <= MaxOutput
  PROVE  TypeOK'
BY ShakeAssumption, SpongePaddingAssumption DEF TypeOK, InputBlocksType

(* A state as shake256_init leaves it, with n bytes to absorb. *)
LEMMA ShakeFresh ==
  ASSUME NEW n \in Nat, n <= MaxInput
  PROVE  /\ << >> \in Seq(InputBlocksType) /\ Len(<< >>) = 0
         /\ ZeroBlock \in InputBlocksType
         /\ InputBlocks(<< >>) /\ Rate * Len(<< >>) + 0 + n = n
         /\ ZeroBlock = PartBlock(Len(<< >>), 0)
         /\ << >> = Output(n, 0) /\ 0 < Rate /\ 0 <= Rate
         /\ MaxInput \in Nat /\ MaxOutput \in Nat /\ Rate \in Nat
<1>1. MaxInput \in Nat /\ MaxOutput \in Nat /\ Rate \in Nat \ {0}
  BY ShakeAssumption, SpongePaddingAssumption
<1>2. Len(<< >>) = 0 /\ << >> \in Seq(InputBlocksType)
  OBVIOUS
<1>3. InputBlocks(<< >>) /\ Rate * Len(<< >>) + 0 + n = n
  BY <1>1, <1>2 DEF InputBlocks
<1>4. \A i \in Index : ~(i < 0)
  BY <1>1 DEF Index
<1>5. ZeroBlock = PartBlock(Len(<< >>), 0) /\ ZeroBlock \in InputBlocksType
  BY <1>4 DEF ZeroBlock, PartBlock, InputBlocksType
<1>6. << >> = Output(n, 0)
  BY DEF Output
<1> QED
  BY <1>1, <1>2, <1>3, <1>5, <1>6

LEMMA ShakeStart == Init => ShakeInv
<1> SUFFICES ASSUME Init
             PROVE  ShakeInv
  OBVIOUS
<1>1. 0 \in Nat /\ 0 <= MaxInput
  BY ShakeAssumption
<1>2. ShakeInput
  BY <1>1, ShakeFresh DEF Init, ShakeInput
<1>3. TypeOK
  <2>1. hash \in Seq(InputBlocksType) /\ block \in InputBlocksType
    BY <1>1, ShakeFresh DEF Init
  <2>2. Len(squeezed) = 0
    BY DEF Init
  <2>3. pos \in 0 .. Rate /\ pos < Rate /\ todo \in Nat /\ total \in 0 .. MaxInput
        /\ Len(squeezed) <= MaxOutput
    BY <2>2, ShakeAssumption, SpongePaddingAssumption DEF Init
  <2>4. pc = "idle" /\ finalized = FALSE
    BY DEF Init
  <2> QED
    BY <2>1, <2>3, <2>4 DEF TypeOK, InputBlocksType
<1>4. squeezed = Output(total, Len(squeezed)) /\ Len(squeezed) \in Nat
  BY <1>1, ShakeFresh DEF Init
<1> QED
  BY <1>2, <1>3, <1>4 DEF Init, ShakeInv

(* shake256_init, and the start of shake256_absorb_once. *)
LEMMA ShakeNewStep ==
  ASSUME ShakeInv, InitState \/ \E n \in Piece : AbsorbOnce(n)
  PROVE  ShakeInv'
<1>1. /\ hash' = << >> /\ block' = ZeroBlock /\ pos' = 0 /\ ~finalized'
      /\ finalized' \in BOOLEAN /\ squeezed' = << >> /\ pc = "idle"
  BY DEF InitState, AbsorbOnce
<1>2. PICK m \in Nat : /\ m <= MaxInput /\ total' = m /\ todo' = m
                       /\ pc' \in {"idle", "once"} /\ (pc' = "idle" => m = 0)
  <2>1. CASE InitState
    <3>1. todo = 0
      BY <1>1 DEF ShakeInv
    <3>2. total' = 0 /\ todo' = 0 /\ pc' = "idle" /\ 0 \in Nat /\ 0 <= MaxInput
      BY <1>1, <2>1, <3>1, ShakeAssumption DEF InitState
    <3> QED
      BY <3>2
  <2>2. CASE \E n \in Piece : AbsorbOnce(n)
    BY <2>2, ShakeAssumption DEF AbsorbOnce
  <2> QED
    BY <2>1, <2>2
<1>3. TypeOK'
  BY <1>1, <1>2, ShakeFresh, ShakeTypeNext
<1>4. ShakeInput'
  BY <1>1, <1>2, ShakeFresh DEF ShakeInput
<1>5. (squeezed = Output(total, Len(squeezed)) /\ Len(squeezed) \in Nat)'
  BY <1>1, <1>2, ShakeFresh
<1> QED
  BY <1>1, <1>2, <1>3, <1>4, <1>5 DEF ShakeInv

LEMMA ShakeAbsorbStep ==
  ASSUME ShakeInv, NEW n \in Piece, Absorb(n)
  PROVE  ShakeInv'
<1>1. /\ pc = "idle" /\ ~finalized /\ total + n <= MaxInput /\ pc' = "absorb" /\ todo' = n
      /\ total' = total + n /\ n \in Nat
      /\ UNCHANGED <<hash, block, pos, finalized, squeezed>>
  BY ShakeAssumption DEF Absorb
<1>2. ShakeInput /\ todo = 0
  BY <1>1 DEF ShakeInv
<1>3. TypeOK'
  <2>1. total' \in Nat /\ total' <= MaxInput
    BY <1>1, ShakeNumbers
  <2> QED
    BY <1>1, <2>1, ShakeTypes, ShakeNumbers, ShakeTypeNext
<1>4. ShakeInput'
  <2>1. Rate * Len(hash) + pos + todo' = total'
    BY <1>1, <1>2, ShakeTypes, ShakeNumbers DEF ShakeInput
  <2> QED
    BY <1>1, <1>2, <2>1 DEF ShakeInput
<1>5. (squeezed = Output(total, Len(squeezed)) /\ Len(squeezed) \in Nat)'
  <2>1. squeezed = << >> /\ total' \in Nat
    BY <1>1, <1>2, ShakeNumbers DEF ShakeInput
  <2> QED
    BY <1>1, <2>1 DEF Output
<1> QED
  BY <1>1, <1>3, <1>4, <1>5 DEF ShakeInv

(* n bytes XORed in make the block so much fuller. *)
LEMMA ShakeAbsorbed ==
  ASSUME ShakeInv, ~finalized, NEW n \in Nat, n <= todo, pos + n <= Rate
  PROVE  Absorbed(n) = PartBlock(Len(hash), pos + n)
<1> DEFINE done == Rate * Len(hash)
<1>1. done \in Nat
  BY ShakeTypes
<1>2. done + pos + todo = total
      /\ block = [i \in Index |-> IF i < pos THEN {done + i} ELSE {}]
  BY DEF ShakeInv, ShakeInput, PartBlock
<1> HIDE DEF done
<1>3. ASSUME NEW i \in Index
      PROVE  (IF pos <= i /\ i < pos + n THEN Xor(block[i], {total - todo + i - pos})
                                         ELSE block[i])
             = IF i < pos + n THEN {done + i} ELSE {}
  <2>1. CASE i < pos
    <3>1. ~(pos <= i) /\ i < pos + n
      BY <2>1, ShakeNumbers
    <3> QED
      BY <1>2, <2>1, <3>1
  <2>2. CASE ~(i < pos)
    <3>1. pos <= i /\ total - todo + i - pos = done + i
      BY <1>1, <1>2, <2>2, ShakeNumbers
    <3>2. block[i] = {}
      BY <1>2, <2>2
    <3> QED
      BY <3>1, <3>2 DEF Xor
  <2> QED
    BY <2>1, <2>2
<1> QED
  BY <1>3 DEF Absorbed, PartBlock, done

LEMMA ShakeBlockStep ==
  ASSUME ShakeInv, AbsorbBlock
  PROVE  ShakeInv'
<1>1. /\ pc \in {"absorb", "once"} /\ pos + todo >= Rate
      /\ hash' = Append(hash, Absorbed(Rate - pos)) /\ block' = ZeroBlock
      /\ todo' = todo - (Rate - pos) /\ pos' = 0
      /\ UNCHANGED <<pc, total, finalized, squeezed>>
  BY DEF AbsorbBlock, BlockFull
<1>0. /\ pos + todo >= Rate /\ todo' = todo - (Rate - pos) /\ pos' = 0 /\ total' = total
  BY <1>1
<1>2. ~finalized /\ ShakeInput
  BY <1>1 DEF ShakeInv, ShakeOutput
<1>3. Absorbed(Rate - pos) = FullBlock(Len(hash) + 1)
  <2>1. PICK n \in Nat : n = Rate - pos /\ n <= todo /\ pos + n = Rate /\ pos + n <= Rate
    <3>1. Rate - pos \in Nat /\ Rate - pos <= todo /\ pos + (Rate - pos) = Rate
          /\ pos + (Rate - pos) <= Rate
      BY <1>0, ShakeNumbers
    <3> QED
      BY <3>1
  <2>2. Absorbed(n) = PartBlock(Len(hash), pos + n)
    BY <1>2, <2>1, ShakeAbsorbed
  <2>3. InputBlocks(hash)
    BY <1>2 DEF ShakeInput
  <2> QED
    BY <2>1, <2>2, <2>3, ShakeTypes, InputByAppend
<1> DEFINE done == Rate * Len(hash)
<1>4. /\ InputBlocks(hash') /\ Len(hash') = Len(hash) + 1
      /\ Rate * Len(hash') = done + Rate /\ Rate * (Len(hash) + 1) = done + Rate
  BY <1>1, <1>2, <1>3, ShakeTypes, InputByAppend DEF ShakeInput
<1>5. done \in Nat /\ done + pos + todo = total
  BY <1>2, ShakeTypes DEF ShakeInput
<1> HIDE DEF done
<1>7. todo' \in Nat /\ done + Rate + pos' + todo' = total' /\ done + Rate <= total
  BY <1>0, <1>5, ShakeNumbers
<1>6. hash' \in Seq(InputBlocksType) /\ block' \in InputBlocksType
  <2>1. Rate * (Len(hash) + 1) <= total /\ Len(hash) + 1 \in Nat \ {0}
    BY <1>4, <1>7, ShakeTypes
  <2>2. FullBlock(Len(hash) + 1) \in InputBlocksType
    BY <2>1, ShakeTypes, BlockTypes
  <2> QED
    BY <1>1, <1>3, <2>2, ShakeTypes DEF ZeroBlock, InputBlocksType
<1>8. TypeOK'
  BY <1>1, <1>6, <1>7, ShakeTypes, ShakeNumbers, ShakeTypeNext
<1>9. block' = PartBlock(Len(hash'), 0)
  <2>1. \A i \in Index : ~(i < 0)
    BY ShakeNumbers
  <2> QED
    BY <1>1, <2>1 DEF ZeroBlock, PartBlock
<1>10. ShakeInput'
  BY <1>1, <1>2, <1>4, <1>7, <1>9 DEF ShakeInput
<1> QED
  BY <1>1, <1>2, <1>8, <1>10 DEF ShakeInv

LEMMA ShakeRestStep ==
  ASSUME ShakeInv, AbsorbRest
  PROVE  ShakeInv'
<1>1. /\ pc = "absorb" /\ ~(pos + todo >= Rate)
      /\ block' = Absorbed(todo) /\ pos' = pos + todo /\ todo' = 0 /\ pc' = "idle"
      /\ UNCHANGED <<hash, total, finalized, squeezed>>
  BY DEF AbsorbRest, BlockFull
<1>2. ~finalized /\ ShakeInput
  BY <1>1 DEF ShakeInv, ShakeOutput
<1>3. pos' \in Nat /\ pos' < Rate /\ pos' <= Rate
  BY <1>1, ShakeNumbers
<1>4. block' = PartBlock(Len(hash), pos')
  <2>1. todo \in Nat /\ todo <= todo /\ pos + todo <= Rate
    BY <1>1, ShakeNumbers
  <2> QED
    BY <1>1, <1>2, <2>1, ShakeAbsorbed
<1> DEFINE done == Rate * Len(hash)
<1>5. done \in Nat /\ done + pos + todo = total
  BY <1>2, ShakeTypes DEF ShakeInput
<1>6. block' \in InputBlocksType
  <2>1. done + pos' <= total
    BY <1>1, <1>5, ShakeNumbers
  <2> QED
    BY <1>3, <1>4, <2>1, ShakeTypes, BlockTypes
<1> HIDE DEF done
<1>7. TypeOK'
  BY <1>1, <1>3, <1>6, ShakeTypes, ShakeNumbers, ShakeTypeNext
<1>8. done + pos' + todo' = total'
  BY <1>1, <1>5, ShakeNumbers
<1>9. ShakeInput'
  BY <1>1, <1>2, <1>4, <1>8 DEF ShakeInput, done
<1> QED
  BY <1>1, <1>2, <1>7, <1>9 DEF ShakeInv

(* XORing the padding in is the same as putting it behind the input. *)
LEMMA PaddingXored ==
  ASSUME NEW l \in Nat, NEW r \in Index
  PROVE  [i \in Index |-> Xor(PartBlock(l, r)[i], PadAt(i, r))] = LastBlock(l, r)
<1>1. ASSUME NEW i \in Index
      PROVE  Xor(PartBlock(l, r)[i], PadAt(i, r))
               = IF i < r THEN {Rate * l + i} ELSE PadAt(i, r)
  <2>1. CASE i < r
    <3>1. i # r /\ i # Rate - 1
      BY <2>1, SpongePaddingAssumption DEF Index
    <3>2. PadAt(i, r) = {} /\ PartBlock(l, r)[i] = {Rate * l + i}
      BY <2>1, <3>1 DEF PadAt, PartBlock
    <3> QED
      BY <2>1, <3>2 DEF Xor
  <2>2. CASE ~(i < r)
    <3>1. PartBlock(l, r)[i] = {}
      BY <2>2 DEF PartBlock
    <3> QED
      BY <2>2, <3>1 DEF Xor
  <2> QED
    BY <2>1, <2>2
<1> QED
  BY <1>1 DEF LastBlock

(* The blocks of an input are the first of its state's; the padded one follows. *)
LEMMA InputIsState ==
  ASSUME NEW s \in Seq(Blocks), InputBlocks(s), NEW r \in Index,
         NEW n, n = Rate * Len(s) + r
  PROVE  /\ n \div Rate = Len(s)
         /\ StateBlocks(s, n)
         /\ StateBlock(n, Len(s) + 1) = LastBlock(Len(s), r)
<1>1. Len(s) \in Nat
  OBVIOUS
<1>2. n \div Rate = Len(s) /\ n % Rate = r
  BY <1>1, Position
<1>3. StateBlocks(s, n)
  BY <1>1, <1>2 DEF StateBlocks, StateBlock, InputBlocks
<1>4. ~(Len(s) + 1 <= Len(s))
  BY <1>1
<1> QED
  BY <1>2, <1>3, <1>4 DEF StateBlock

LEMMA ShakePaddedStep ==
  ASSUME ShakeInv, ~finalized, NEW r \in Index, total = Rate * Len(hash) + r,
         block' = LastBlock(Len(hash), r), pos' = Rate, finalized' = TRUE, todo' = 0,
         pc' = "idle", UNCHANGED <<hash, total, squeezed>>
  PROVE  ShakeInv'
<1>1. InputBlocks(hash) /\ squeezed = << >>
  BY DEF ShakeInv, ShakeInput
<1>2. /\ total \div Rate = Len(hash) /\ StateBlocks(hash, total)
      /\ block' = StateBlock(total, Len(hash) + 1)
  BY <1>1, ShakeTypes, InputIsState
<1>3. block' \in InputBlocksType
  <2>1. Len(hash) + 1 \in Nat \ {0} /\ total \in 0 .. MaxInput
    BY ShakeTypes
  <2> QED
    BY <1>2, <2>1, BlockTypes
<1>4. TypeOK'
  <2>1. Rate \in Nat /\ Rate <= Rate
    BY ShakeNumbers
  <2> QED
    BY <1>3, <2>1, ShakeTypes, ShakeNumbers, ShakeTypeNext
<1>5. Len(squeezed) + Rate = Rate * (Len(hash) - (total \div Rate)) + Rate
  <2>1. Len(squeezed) = 0 /\ Len(hash) - Len(hash) = 0
    BY <1>1, ShakeTypes
  <2>2. Rate * 0 = 0
    BY ShakeNumbers
  <2> QED
    BY <1>2, <2>1, <2>2, ShakeNumbers
<1>6. Len(hash) >= total \div Rate
  BY <1>2, ShakeTypes
<1>7. ShakeOutput'
  BY <1>2, <1>5, <1>6 DEF ShakeOutput
<1>8. (squeezed = Output(total, Len(squeezed)) /\ Len(squeezed) \in Nat)'
  BY DEF ShakeInv
<1> QED
  BY <1>4, <1>7, <1>8 DEF ShakeInv

LEMMA ShakeFinalizeStep ==
  ASSUME ShakeInv, Finalize
  PROVE  ShakeInv'
<1>1. /\ pc = "idle" /\ ~finalized
      /\ block' = WithPadding(block, pos) /\ pos' = Rate /\ finalized' = TRUE
      /\ UNCHANGED <<hash, pc, todo, total, squeezed>>
  BY DEF Finalize
<1>2. /\ todo = 0 /\ Rate * Len(hash) + pos + todo = total
      /\ block = PartBlock(Len(hash), pos)
  BY <1>1 DEF ShakeInv, ShakeInput
<1>3. pos \in Index
  BY <1>1, ShakeTypes DEF Index
<1>4. block' = LastBlock(Len(hash), pos)
  BY <1>1, <1>2, <1>3, ShakeTypes, PaddingXored DEF WithPadding
<1>5. total = Rate * Len(hash) + pos
  BY <1>2, ShakeTypes, ShakeNumbers
<1> QED
  BY <1>1, <1>2, <1>3, <1>4, <1>5, ShakePaddedStep

LEMMA ShakeOnceStep ==
  ASSUME ShakeInv, AbsorbOnceRest
  PROVE  ShakeInv'
<1>1. /\ pc = "once" /\ ~(pos + todo >= Rate)
      /\ block' = WithPadding(Absorbed(todo), todo)
      /\ pos' = Rate /\ finalized' = TRUE /\ todo' = 0 /\ pc' = "idle"
      /\ UNCHANGED <<hash, total, squeezed>>
  BY DEF AbsorbOnceRest, BlockFull
<1>2. ~finalized
  BY <1>1 DEF ShakeInv, ShakeOutput
<1>3. pos = 0 /\ Rate * Len(hash) + pos + todo = total
  BY <1>1, <1>2 DEF ShakeInv, ShakeInput
<1>4. todo \in Index /\ todo <= todo /\ pos + todo <= Rate /\ pos + todo = todo
  BY <1>1, <1>3, ShakeNumbers DEF Index
<1>5. Absorbed(todo) = PartBlock(Len(hash), todo)
  <2>1. Absorbed(todo) = PartBlock(Len(hash), pos + todo)
    BY <1>2, <1>4, ShakeNumbers, ShakeAbsorbed
  <2> QED
    BY <1>4, <2>1
<1>6. block' = LastBlock(Len(hash), todo)
  BY <1>1, <1>4, <1>5, ShakeTypes, PaddingXored DEF WithPadding
<1>7. total = Rate * Len(hash) + todo
  BY <1>3, ShakeTypes, ShakeNumbers
<1> QED
  BY <1>1, <1>2, <1>4, <1>6, <1>7, ShakePaddedStep

(* Then the squeezing calls. *)
LEMMA StateByAppend ==
  ASSUME NEW n \in 0 .. MaxInput, NEW s \in Seq(InputBlocksType), StateBlocks(s, n),
         Len(s) >= n \div Rate, NEW b, b = StateBlock(n, Len(s) + 1)
  PROVE  /\ Append(s, b) \in Seq(InputBlocksType) /\ Append(s, b) \in Seq(Blocks)
         /\ StateBlocks(Append(s, b), n)
         /\ Len(Append(s, b)) = Len(s) + 1
         /\ ZeroBlock = StateBlock(n, Len(Append(s, b)) + 1)
<1>1. n \in Nat
  OBVIOUS
<1>0. Len(s) \in Nat /\ Len(s) + 1 \in Nat \ {0}
  OBVIOUS
<1>2. Len(s) \in Nat /\ Len(s) + 1 \in Nat \ {0} /\ n \div Rate \in Nat
  BY <1>0, <1>1, Split
<1>3. b \in InputBlocksType
  BY <1>2, BlockTypes
<1>4. /\ Append(s, b) \in Seq(InputBlocksType) /\ Len(Append(s, b)) = Len(s) + 1
      /\ \A c \in 1 .. Len(s) + 1 : Append(s, b)[c] = IF c = Len(s) + 1 THEN b ELSE s[c]
  BY <1>3
<1>5. Append(s, b) \in Seq(Blocks)
  BY <1>4, BlockTypes, SeqMonotonic
<1>6. StateBlocks(Append(s, b), n)
  BY <1>2, <1>4 DEF StateBlocks
<1>7. ~(Len(s) + 1 + 1 <= n \div Rate) /\ Len(s) + 1 + 1 # (n \div Rate) + 1
  BY <1>2
<1>8. ZeroBlock = StateBlock(n, Len(Append(s, b)) + 1)
  BY <1>4, <1>7 DEF StateBlock
<1> QED
  BY <1>4, <1>5, <1>6, <1>8

(* The next j bytes, read from place `first` of a state with nothing XORed in. *)
LEMMA Served ==
  ASSUME NEW n, NEW d, NEW s, NEW m, NEW first, Holds(n, d, s, m, first),
         NEW j \in Nat, first + j <= Rate
  PROVE  /\ Output(n, d) \o StateBytes(s, ZeroBlock, first, j) = Output(n, d + j)
         /\ Len(Output(n, d + j)) = d + j
<1> DEFINE bytes == StateBytes(s, ZeroBlock, first, j)
<1>1. ASSUME NEW i \in 1 .. j
      PROVE  [hash |-> s, at |-> first + i - 1, xored |-> ZeroBlock[first + i - 1]]
               = OutputByte(n, d + i - 1)
  <2>1. first + i - 1 \in Index /\ d + i - 1 \in Nat /\ first + i - 1 \in Nat
    BY SpongePaddingAssumption DEF Index, Holds
  <2>2. ZeroBlock[first + i - 1] = {}
    BY <2>1 DEF ZeroBlock
  <2>3. d + i - 1 = Rate * m + (first + i - 1)
    <3>1. PICK w \in Nat : w = Rate * m
      BY NextMultiple, SpongePaddingAssumption DEF Holds
    <3> QED
      BY <3>1 DEF Holds
  <2>4. Holds(n, d + i - 1, s, m, first + i - 1)
    BY <2>1, <2>3 DEF Holds
  <2> QED
    BY <2>1, <2>2, <2>4, NextByte
<1>2. bytes = [i \in 1 .. j |-> OutputByte(n, d + i - 1)]
  BY <1>1 DEF StateBytes
<1> HIDE DEF bytes
<1>3. n \in Nat /\ d \in Nat
  BY DEF Holds
<1>4. Output(n, d) \o bytes = Output(n, d + j) /\ Len(Output(n, d + j)) = d + j
  BY <1>2, <1>3, OutputAppend, ZenonT(60)
<1> QED
  BY <1>4 DEF bytes

(* The start and the end of the loops. *)
LEMMA ShakeSqueezeStep ==
  ASSUME ShakeInv,
         SqueezeReturn \/ \E n \in Request : Squeeze(n) \/ SqueezeBlocks(n)
  PROVE  ShakeInv'
<1>1. /\ finalized /\ UNCHANGED <<hash, block, pos, total, finalized, squeezed>>
  BY DEF Squeeze, SqueezeBlocks, SqueezeReturn, ShakeInv, ShakeInput
<1>2. ShakeOutput
  BY <1>1 DEF ShakeInv
<1>3. /\ todo' \in Nat /\ pc' \in {"idle", "squeeze", "blocks"}
      /\ pc' = "idle" => todo' = 0
      /\ pc' = "blocks" => pos = Rate /\ Len(squeezed) + todo' * Rate <= MaxOutput
      /\ pc' = "squeeze" => Len(squeezed) + todo' <= MaxOutput
  <2>1. ASSUME NEW n \in Request, Squeeze(n)
        PROVE  /\ todo' \in Nat /\ pc' = "squeeze" /\ Len(squeezed) + todo' <= MaxOutput
    BY <2>1, ShakeAssumption DEF Squeeze
  <2>2. ASSUME NEW n \in Request, SqueezeBlocks(n)
        PROVE  /\ todo' \in Nat /\ pc' = "blocks" /\ pos = Rate
               /\ Len(squeezed) + todo' * Rate <= MaxOutput
    BY <2>2, ShakeAssumption DEF SqueezeBlocks
  <2>3. CASE SqueezeReturn
    BY <2>3 DEF SqueezeReturn
  <2> QED
    BY <2>1, <2>2, <2>3
<1>4. TypeOK'
  BY <1>1, <1>3, ShakeTypes, ShakeNumbers, ShakeTypeNext
<1>5. ShakeOutput'
  BY <1>1, <1>2, <1>3 DEF ShakeOutput
<1>6. (squeezed = Output(total, Len(squeezed)) /\ Len(squeezed) \in Nat)'
  BY <1>1 DEF ShakeInv
<1> QED
  BY <1>1, <1>3, <1>4, <1>5, <1>6 DEF ShakeInv

(* How many zero blocks there were, and what has been handed out of them. *)
LEMMA ShakeDrawn ==
  ASSUME ShakeInv, finalized
  PROVE  \E z \in Nat : /\ Len(hash) = (total \div Rate) + z
                        /\ Len(squeezed) + Rate = Rate * z + pos
<1> DEFINE z == Len(hash) - (total \div Rate)
<1>1. ShakeOutput
  BY DEF ShakeInv
<1>2. total \div Rate \in Nat /\ Len(hash) \in Nat
  BY ShakeNumbers, ShakeTypes, Split
<1>3. z \in Nat /\ Len(hash) = (total \div Rate) + z
  <2>1. Len(hash) >= total \div Rate
    BY <1>1 DEF ShakeOutput
  <2> QED
    BY <1>2, <2>1
<1>4. Len(squeezed) + Rate = Rate * z + pos
  BY <1>1 DEF ShakeOutput
<1> QED
  BY <1>3, <1>4

(* The rest of a block that was begun. *)
LEMMA ShakePartStep ==
  ASSUME ShakeInv, SqueezePart
  PROVE  ShakeInv'
<1>1. PICK j : /\ pc = "squeeze" /\ todo > 0 /\ pos < Rate /\ j = Lesser(todo, Rate - pos)
               /\ squeezed' = squeezed \o StateBytes(hash, block, pos, j)
               /\ pos' = pos + j /\ todo' = todo - j
               /\ UNCHANGED <<hash, block, pc, total, finalized>>
  BY DEF SqueezePart
<1>2. finalized /\ ShakeOutput
  BY <1>1 DEF ShakeInv, ShakeInput
<1>3. j \in Nat /\ j <= todo /\ pos + j <= Rate
  <2>1. todo > 0 /\ pos < Rate /\ j = Lesser(todo, Rate - pos)
    BY <1>1
  <2> QED
    BY <2>1, ShakeNumbers DEF Lesser
<1> DEFINE d == Len(squeezed)
<1>4. d \in Nat /\ squeezed = Output(total, d)
  BY DEF ShakeInv
<1> HIDE DEF d
<1>5. PICK z \in Nat : Len(hash) = (total \div Rate) + z /\ d + Rate = Rate * z + pos
  BY <1>2, ShakeDrawn DEF d
<1>6. PICK m \in Nat : z = m + 1 /\ d = Rate * m + pos
  <2>1. PICK w \in Nat : w = Rate * z /\ pos < Rate /\ d + Rate = w + pos
    BY <1>1, <1>5, NextMultiple, SpongePaddingAssumption, ShakeNumbers
  <2>2. z # 0
    <3>1. Rate * 0 = 0
      BY ShakeNumbers
    <3>2. w # 0
      BY <1>4, <2>1, ShakeNumbers
    <3> QED
      BY <2>1, <3>1, <3>2
  <2>3. PICK m \in Nat : z = m + 1
    <3>1. z - 1 \in Nat /\ z = (z - 1) + 1
      BY <2>2
    <3> QED
      BY <3>1
  <2>4. PICK v \in Nat : v = Rate * m /\ Rate * (m + 1) = v + Rate
    <3>1. Rate * m \in Nat /\ Rate * (m + 1) = Rate * m + Rate
      BY NextMultiple, SpongePaddingAssumption
    <3> QED
      BY <3>1
  <2>5. d = v + pos
    <3>1. w = v + Rate /\ d + Rate = w + pos /\ w \in Nat /\ v \in Nat
      BY <2>1, <2>3, <2>4
    <3>2. d \in Nat /\ pos \in Nat /\ Rate \in Nat
      BY <1>4, ShakeNumbers
    <3> QED
      BY <3>1, <3>2
  <2> QED
    BY <2>3, <2>4, <2>5
<1>7. total \in Nat /\ total \div Rate \in Nat
  BY ShakeNumbers, Split
<1>8. block = ZeroBlock
  <2>1. ~(Len(hash) + 1 <= total \div Rate) /\ Len(hash) + 1 # (total \div Rate) + 1
    BY <1>5, <1>6, <1>7
  <2> QED
    BY <1>2, <2>1 DEF ShakeOutput, StateBlock
<1>9. squeezed' = Output(total, d + j) /\ Len(squeezed') = d + j
  <2>1. Len(hash) = (total \div Rate) + 1 + m
    BY <1>5, <1>6, <1>7
  <2>2. StateBlocks(hash, total)
    BY <1>2 DEF ShakeOutput
  <2>3. Holds(total, d, hash, m, pos)
    BY <1>4, <1>6, <1>7, <2>1, <2>2, ShakeTypes, ShakeNumbers DEF Holds
  <2>4. /\ Output(total, d) \o StateBytes(hash, ZeroBlock, pos, j) = Output(total, d + j)
        /\ Len(Output(total, d + j)) = d + j
    BY <1>3, <2>3, Served
  <2> QED
    BY <1>1, <1>4, <1>8, <2>4
<1>10. /\ todo' \in Nat /\ pos' \in Nat /\ pos' <= Rate
       /\ Len(squeezed') \in Nat /\ Len(squeezed') + todo' <= MaxOutput
       /\ Len(squeezed') <= MaxOutput
  <2>1. d + todo <= MaxOutput
    BY <1>1, <1>2 DEF ShakeOutput, d
  <2>2. pos' = pos + j /\ todo' = todo - j
    BY <1>1
  <2>3. /\ d \in Nat /\ j \in Nat /\ todo \in Nat /\ pos \in Nat /\ MaxOutput \in Nat
        /\ j <= todo /\ pos + j <= Rate
    BY <1>3, <1>4, ShakeNumbers
  <2>4. /\ d + j + (todo - j) <= MaxOutput /\ todo - j \in Nat /\ d + j <= MaxOutput
        /\ d + j \in Nat /\ pos + j \in Nat
    BY <2>1, <2>3
  <2> QED
    BY <1>9, <2>2, <2>3, <2>4
<1>11. TypeOK'
  BY <1>1, <1>2, <1>10, ShakeTypes, ShakeNumbers, ShakeTypeNext
<1>12. Len(squeezed') + Rate = Rate * (Len(hash) - (total \div Rate)) + pos'
  <2>1. Len(hash) - (total \div Rate) = z /\ pos' = pos + j
    BY <1>1, <1>5, <1>7
  <2>2. PICK w \in Nat : w = Rate * z /\ d + Rate = w + pos
    BY <1>5, NextMultiple, SpongePaddingAssumption
  <2>3. d + j + Rate = w + (pos + j)
    <3>1. d + Rate = w + pos /\ d \in Nat /\ j \in Nat /\ w \in Nat
      BY <1>3, <1>4, <2>2
    <3>2. pos \in Nat /\ Rate \in Nat
      BY ShakeNumbers
    <3> QED
      BY <3>1, <3>2
  <2> QED
    BY <1>9, <2>1, <2>2, <2>3
<1>13. ShakeOutput'
  BY <1>1, <1>2, <1>10, <1>12 DEF ShakeOutput
<1> QED
  BY <1>1, <1>2, <1>9, <1>10, <1>11, <1>13 DEF ShakeInv

(* The permutation that was put off, by the squeezing of bytes or of blocks. *)
LEMMA ShakeNextStep ==
  ASSUME ShakeInv, SqueezeNext \/ SqueezeBlock
  PROVE  ShakeInv'
<1>1. PICK j : /\ pc \in {"squeeze", "blocks"} /\ todo > 0 /\ pos = Rate
               /\ hash' = Append(hash, block) /\ block' = ZeroBlock
               /\ squeezed' = squeezed \o StateBytes(hash', ZeroBlock, 0, j)
               /\ pos' = j /\ j \in Nat /\ j <= Rate
               /\ todo' \in Nat
               /\ pc = "squeeze" => j <= todo /\ todo' = todo - j
               /\ pc = "blocks" => j = Rate /\ todo' = todo - 1
               /\ UNCHANGED <<pc, total, finalized>>
  <2>1. CASE SqueezeNext
    <3>1. Lesser(todo, Rate) \in Nat /\ Lesser(todo, Rate) <= todo /\ Lesser(todo, Rate) <= Rate
          /\ todo - Lesser(todo, Rate) \in Nat
      BY ShakeNumbers DEF Lesser
    <3> QED
      BY <2>1, <3>1 DEF SqueezeNext
  <2>2. CASE SqueezeBlock
    <3>1. finalized /\ ShakeOutput /\ pc = "blocks"
      BY <2>2 DEF SqueezeBlock, ShakeInv, ShakeInput
    <3>2. pos = Rate /\ todo > 0 /\ todo \in Nat /\ Rate \in Nat
      BY <2>2, <3>1, ShakeNumbers DEF SqueezeBlock, ShakeOutput
    <3>3. todo - 1 \in Nat /\ Rate <= Rate
      BY <3>2
    <3> QED
      BY <2>2, <3>2, <3>3 DEF SqueezeBlock
  <2> QED
    BY <2>1, <2>2
<1>2. finalized /\ ShakeOutput
  BY <1>1 DEF ShakeInv, ShakeInput
<1> DEFINE d == Len(squeezed)
<1>3. d \in Nat /\ squeezed = Output(total, d)
  BY DEF ShakeInv
<1> HIDE DEF d
<1>4. PICK z \in Nat : Len(hash) = (total \div Rate) + z /\ d + Rate = Rate * z + pos
  BY <1>2, ShakeDrawn DEF d
<1>5. j \in Nat /\ j <= Rate /\ pos = Rate /\ pos' = j
  BY <1>1
<1>6. PICK w \in Nat : w = Rate * z /\ Rate * (z + 1) = w + Rate
  BY NextMultiple, SpongePaddingAssumption
<1>7. d = w /\ d = Rate * z + 0
  <2>1. d + Rate = w + Rate /\ d \in Nat /\ w \in Nat /\ Rate \in Nat
    BY <1>3, <1>4, <1>5, <1>6, ShakeNumbers
  <2>2. d = w /\ w = w + 0
    BY <2>1
  <2> QED
    BY <1>6, <2>2
<1>8. total \in Nat /\ total \div Rate \in Nat
  BY ShakeNumbers, Split
<1>9. /\ hash' \in Seq(InputBlocksType) /\ hash' \in Seq(Blocks)
      /\ StateBlocks(hash', total) /\ Len(hash') = Len(hash) + 1
      /\ block' = StateBlock(total, Len(hash') + 1)
  <2>1. block = StateBlock(total, Len(hash) + 1) /\ StateBlocks(hash, total)
        /\ Len(hash) >= total \div Rate
    BY <1>2 DEF ShakeOutput
  <2>2. hash \in Seq(InputBlocksType) /\ total \in 0 .. MaxInput
    BY ShakeTypes
  <2> QED
    BY <1>1, <2>1, <2>2, StateByAppend
<1>10. squeezed' = Output(total, d + j) /\ Len(squeezed') = d + j
  <2>1. Len(hash') = (total \div Rate) + 1 + z
    BY <1>4, <1>8, <1>9
  <2>2. PICK s : s = hash'
    OBVIOUS
  <2>3. Holds(total, d, s, z, 0)
    BY <1>3, <1>7, <1>8, <1>9, <2>1, <2>2 DEF Holds
  <2>4. 0 + j <= Rate
    BY <1>5
  <2>5. /\ Output(total, d) \o StateBytes(s, ZeroBlock, 0, j) = Output(total, d + j)
        /\ Len(Output(total, d + j)) = d + j
    BY <1>5, <2>3, <2>4, Served
  <2> QED
    BY <1>1, <1>3, <2>2, <2>5
<1>11. /\ Len(squeezed') \in Nat
       /\ pc = "squeeze" => Len(squeezed') + todo' <= MaxOutput
       /\ pc = "blocks" => Len(squeezed') + todo' * Rate <= MaxOutput
       /\ Len(squeezed') <= MaxOutput
  <2>1. CASE pc = "squeeze"
    <3>1. d + todo <= MaxOutput /\ j <= todo /\ todo' = todo - j /\ pc # "blocks"
      BY <1>1, <1>2, <2>1 DEF ShakeOutput, d
    <3>2. d + j + (todo - j) <= MaxOutput /\ d + j <= MaxOutput /\ d + j \in Nat
      BY <1>3, <1>5, <3>1, ShakeNumbers
    <3> QED
      BY <1>10, <3>1, <3>2
  <2>2. CASE pc = "blocks"
    <3>1. d + todo * Rate <= MaxOutput /\ j = Rate /\ todo' = todo - 1 /\ pc # "squeeze"
      BY <1>1, <1>2, <2>2 DEF ShakeOutput, d
    <3>2. PICK t \in Nat : t = todo' /\ todo = t + 1
      BY <1>1, <3>1, ShakeNumbers
    <3>3. PICK u \in Nat : u = t * Rate /\ (t + 1) * Rate = u + Rate
      BY ShakeNumbers
    <3>4. d + Rate + u <= MaxOutput /\ d + Rate <= MaxOutput /\ d + Rate \in Nat
      BY <1>3, <3>1, <3>2, <3>3, ShakeNumbers
    <3> QED
      BY <1>10, <3>1, <3>2, <3>3, <3>4
  <2> QED
    BY <1>1, <2>1, <2>2
<1>12. TypeOK'
  <2>1. ZeroBlock \in InputBlocksType
    BY DEF ZeroBlock, InputBlocksType
  <2> QED
    BY <1>1, <1>2, <1>9, <1>11, <2>1, ShakeTypes, ShakeNumbers, ShakeTypeNext
<1>13. /\ Len(hash') >= total \div Rate
       /\ Len(squeezed') + Rate = Rate * (Len(hash') - (total \div Rate)) + pos'
  <2>1. Len(hash') - (total \div Rate) = z + 1 /\ Len(hash') >= total \div Rate
    BY <1>4, <1>8, <1>9
  <2>2. d + j + Rate = w + Rate + j
    BY <1>3, <1>5, <1>7, ShakeNumbers
  <2> QED
    BY <1>5, <1>6, <1>10, <2>1, <2>2
<1>14. pc' = "blocks" => pos' = Rate
  BY <1>1
<1>15. ShakeOutput'
  BY <1>1, <1>9, <1>11, <1>13, <1>14 DEF ShakeOutput
<1> QED
  BY <1>1, <1>2, <1>3, <1>5, <1>10, <1>12, <1>15 DEF ShakeInv

LEMMA ShakeStep ==
  ASSUME ShakeInv, [Next]_vars
  PROVE  ShakeInv'
<1>1. CASE UNCHANGED vars
  BY <1>1 DEF vars, ShakeInv, ShakeInput, ShakeOutput, TypeOK
<1>2. ASSUME InitState
      PROVE  ShakeInv'
  BY <1>2, ShakeNewStep
<1>3. ASSUME NEW n \in Piece, Absorb(n) \/ AbsorbOnce(n)
      PROVE  ShakeInv'
  BY <1>3, ShakeAbsorbStep, ShakeNewStep
<1>4. ASSUME NEW n \in Request, Squeeze(n) \/ SqueezeBlocks(n)
      PROVE  ShakeInv'
  BY <1>4, ShakeSqueezeStep
<1> QED
  BY <1>1, <1>2, <1>3, <1>4, ShakeBlockStep, ShakeRestStep, ShakeOnceStep, ShakeFinalizeStep,
     ShakePartStep, ShakeNextStep, ShakeSqueezeStep DEF Next

-----------------------------------------------------------------------------
(***************************************************************************)
(* SHAKE-256 of the contracts.                                             *)
(***************************************************************************)
LEMMA SolNames ==
  /\ Sol!Index = Index /\ Sol!ZeroBlock = ZeroBlock /\ Sol!LastPad = LastPad
  /\ \A i, r : Sol!PadAt(i, r) = PadAt(i, r)
  /\ \A a, b : Sol!Xor(a, b) = Xor(a, b)
<1>1. Sol!Index = Index /\ Sol!FirstPad = FirstPad /\ Sol!LastPad = LastPad
  BY DEF Sol!Index, Index, Sol!FirstPad, FirstPad, Sol!LastPad, LastPad
<1>2. \A i, r : Sol!PadAt(i, r) = PadAt(i, r)
  BY <1>1 DEF Sol!PadAt, PadAt
<1> QED
  BY <1>1, <1>2 DEF Sol!ZeroBlock, ZeroBlock, Sol!Xor, Xor

LEMMA SolTypes ==
  ASSUME SolInv
  PROVE  /\ Rate \in Nat \ {0} /\ MaxInput \in Nat /\ MaxOutput \in Nat
         /\ sol_state \in Seq(InputBlocksType) /\ sol_state \in Seq(Blocks)
         /\ Len(sol_state) \in Nat /\ Rate * Len(sol_state) \in Nat
         /\ sol_buff \in InputBlocksType
         /\ sol_i \in Index /\ sol_pc \in {"idle", "absorb", "squeeze"}
         /\ sol_todo \in Nat /\ sol_total \in 0 .. MaxInput /\ sol_digested \in BOOLEAN
         /\ Len(sol_squeezed) \in Nat /\ Len(sol_squeezed) <= MaxOutput
<1>1. Rate \in Nat \ {0} /\ MaxInput \in Nat /\ MaxOutput \in Nat
  BY SpongePaddingAssumption, ShakeAssumption
<1>2. /\ sol_state \in Seq(InputBlocksType) /\ sol_buff \in InputBlocksType
      /\ sol_i \in Index /\ sol_pc \in {"idle", "absorb", "squeeze"}
      /\ sol_todo \in Nat /\ sol_total \in 0 .. MaxInput /\ sol_digested \in BOOLEAN
      /\ Len(sol_squeezed) \in Nat /\ Len(sol_squeezed) <= MaxOutput
  BY SolNames DEF SolInv, Sol!TypeOK, InputBlocksType
<1>3. sol_state \in Seq(Blocks) /\ Len(sol_state) \in Nat
  BY <1>2, BlockTypes, SeqMonotonic
<1> QED
  BY <1>1, <1>2, <1>3

LEMMA SolNumbers ==
  ASSUME SolInv
  PROVE  /\ Rate \in Nat /\ Rate > 0 /\ MaxInput \in Nat /\ MaxOutput \in Nat
         /\ sol_i \in Nat /\ sol_i < Rate /\ sol_todo \in Nat
         /\ sol_total \in Nat /\ sol_total <= MaxInput
         /\ \A i \in Index : i \in Nat /\ i < Rate
         /\ Len(sol_squeezed) \in Nat /\ Len(sol_squeezed) <= MaxOutput
BY SolTypes DEF Index

LEMMA SolTypeNext ==
  ASSUME sol_state' \in Seq(InputBlocksType), sol_buff' \in InputBlocksType,
         sol_i' \in Nat, sol_i' < Rate, sol_pc' \in {"idle", "absorb", "squeeze"},
         sol_todo' \in Nat, sol_total' \in Nat, sol_total' <= MaxInput,
         sol_digested' \in BOOLEAN, Len(sol_squeezed') <= MaxOutput
  PROVE  Sol!TypeOK'
<1>1. sol_i' \in Index
  BY SpongePaddingAssumption DEF Index
<1> QED
  BY <1>1, SolNames, ShakeAssumption DEF Sol!TypeOK, InputBlocksType

LEMMA SolStart == Sol!Init => SolInv
<1> SUFFICES ASSUME Sol!Init
             PROVE  SolInv
  OBVIOUS
<1>1. 0 \in Nat /\ 0 <= MaxInput
  BY ShakeAssumption
<1>2. /\ sol_state = << >> /\ sol_buff = ZeroBlock /\ sol_i = 0 /\ sol_pc = "idle"
      /\ sol_todo = 0 /\ sol_total = 0 /\ sol_digested = FALSE /\ sol_squeezed = << >>
  BY SolNames DEF Sol!Init
<1>3. SolInput
  BY <1>1, <1>2, ShakeFresh DEF SolInput
<1>4. Sol!TypeOK
  <2>1. sol_state \in Seq(InputBlocksType) /\ sol_buff \in InputBlocksType
    BY <1>1, <1>2, ShakeFresh
  <2>2. Len(sol_squeezed) = 0
    BY <1>2
  <2>3. sol_i \in Index /\ sol_todo \in Nat /\ sol_total \in 0 .. MaxInput
        /\ Len(sol_squeezed) <= MaxOutput
    BY <1>2, <2>2, ShakeAssumption, SpongePaddingAssumption DEF Index
  <2>4. sol_pc = "idle" /\ sol_digested = FALSE
    BY <1>2
  <2> QED
    BY <2>1, <2>3, <2>4, SolNames DEF Sol!TypeOK, InputBlocksType
<1>5. sol_squeezed = Output(sol_total, Len(sol_squeezed)) /\ Len(sol_squeezed) \in Nat
  BY <1>1, <1>2, ShakeFresh
<1> QED
  BY <1>2, <1>3, <1>4, <1>5 DEF SolInv

LEMMA SolNewStep ==
  ASSUME SolInv, Sol!NewCtx
  PROVE  SolInv'
<1>1. 0 \in Nat /\ 0 <= MaxInput
  BY ShakeAssumption
<1>2. /\ sol_state' = << >> /\ sol_buff' = ZeroBlock /\ sol_i' = 0 /\ sol_pc = "idle"
      /\ sol_total' = 0 /\ sol_digested' = FALSE /\ sol_squeezed' = << >>
      /\ UNCHANGED <<sol_pc, sol_todo>>
  BY SolNames DEF Sol!NewCtx
<1>3. sol_todo' = 0
  BY <1>2 DEF SolInv
<1>4. SolInput'
  <2>1. PICK m \in Nat : m = 0 /\ m <= MaxInput
    BY <1>1
  <2>2. sol_todo' = m /\ sol_total' = m /\ sol_pc' = "idle"
    BY <1>2, <1>3, <2>1
  <2> QED
    BY <1>2, <2>1, <2>2, ShakeFresh DEF SolInput
<1>5. Sol!TypeOK'
  <2>1. sol_state' \in Seq(InputBlocksType) /\ sol_buff' \in InputBlocksType
    BY <1>1, <1>2, ShakeFresh
  <2>2. Len(sol_squeezed') = 0
    BY <1>2
  <2>3. /\ sol_i' \in Nat /\ sol_i' < Rate /\ sol_todo' \in Nat /\ sol_total' \in Nat
        /\ sol_total' <= MaxInput /\ Len(sol_squeezed') <= MaxOutput
        /\ sol_pc' = "idle" /\ sol_digested' \in BOOLEAN
    <3>1. sol_i' = 0 /\ sol_todo' = 0 /\ sol_total' = 0 /\ sol_pc' = "idle"
          /\ sol_digested' = FALSE
      BY <1>2, <1>3
    <3>2. 0 < Rate /\ 0 <= MaxInput /\ 0 <= MaxOutput
      BY SolNumbers
    <3> QED
      BY <2>2, <3>1, <3>2
  <2> QED
    BY <2>1, <2>3, SolTypeNext
<1>6. (sol_squeezed = Output(sol_total, Len(sol_squeezed)) /\ Len(sol_squeezed) \in Nat)'
  BY <1>1, <1>2, ShakeFresh
<1> QED
  BY <1>2, <1>3, <1>4, <1>5, <1>6 DEF SolInv

LEMMA SolUpdateStep ==
  ASSUME SolInv, NEW n \in Piece, Sol!Update(n)
  PROVE  SolInv'
<1>1. /\ sol_pc = "idle" /\ ~sol_digested /\ sol_total + n <= MaxInput
      /\ sol_pc' = "absorb" /\ sol_todo' = n /\ sol_total' = sol_total + n /\ n \in Nat
      /\ UNCHANGED <<sol_state, sol_buff, sol_i, sol_digested, sol_squeezed>>
  BY ShakeAssumption DEF Sol!Update
<1>2. SolInput /\ sol_todo = 0
  BY <1>1 DEF SolInv
<1>3. sol_total' \in Nat /\ sol_total' <= MaxInput
  BY <1>1, SolNumbers
<1>4. Sol!TypeOK'
  BY <1>1, <1>3, SolTypes, SolNumbers, SolTypeNext
<1>5. SolInput'
  <2>1. Rate * Len(sol_state) + sol_i + sol_todo' = sol_total'
    BY <1>1, <1>2, SolTypes, SolNumbers DEF SolInput
  <2> QED
    BY <1>1, <1>2, <2>1 DEF SolInput
<1>6. (sol_squeezed = Output(sol_total, Len(sol_squeezed)) /\ Len(sol_squeezed) \in Nat)'
  <2>1. sol_squeezed = << >>
    BY <1>2 DEF SolInput
  <2> QED
    BY <1>1, <1>3, <2>1 DEF Output
<1> QED
  BY <1>1, <1>4, <1>5, <1>6 DEF SolInv

LEMMA SolAbsorbed ==
  ASSUME SolInv, ~sol_digested, NEW n \in Nat, n <= sol_todo, sol_i + n <= Rate
  PROVE  Sol!Absorbed(n) = PartBlock(Len(sol_state), sol_i + n)
<1> DEFINE done == Rate * Len(sol_state)
<1>1. done \in Nat
  BY SolTypes
<1>2. done + sol_i + sol_todo = sol_total
      /\ sol_buff = [i \in Index |-> IF i < sol_i THEN {done + i} ELSE {}]
  BY DEF SolInv, SolInput, PartBlock
<1> HIDE DEF done
<1>3. ASSUME NEW i \in Index
      PROVE  (IF sol_i <= i /\ i < sol_i + n
              THEN Xor(sol_buff[i], {sol_total - sol_todo + i - sol_i}) ELSE sol_buff[i])
             = IF i < sol_i + n THEN {done + i} ELSE {}
  <2>1. CASE i < sol_i
    <3>1. ~(sol_i <= i) /\ i < sol_i + n
      BY <2>1, SolNumbers
    <3> QED
      BY <1>2, <2>1, <3>1
  <2>2. CASE ~(i < sol_i)
    <3>1. sol_i <= i /\ sol_total - sol_todo + i - sol_i = done + i
      BY <1>1, <1>2, <2>2, SolNumbers
    <3>2. sol_buff[i] = {}
      BY <1>2, <2>2
    <3> QED
      BY <3>1, <3>2 DEF Xor
  <2> QED
    BY <2>1, <2>2
<1> QED
  BY <1>3, SolNames DEF Sol!Absorbed, PartBlock, done

LEMMA SolIntoBlockStep ==
  ASSUME SolInv, Sol!AbsorbIntoBlock
  PROVE  SolInv'
<1>1. /\ sol_pc = "absorb" /\ sol_todo < Rate - sol_i
      /\ sol_buff' = Sol!Absorbed(sol_todo) /\ sol_i' = sol_i + sol_todo /\ sol_todo' = 0
      /\ UNCHANGED <<sol_state, sol_pc, sol_total, sol_digested, sol_squeezed>>
  BY DEF Sol!AbsorbIntoBlock
<1>0. sol_todo < Rate - sol_i /\ sol_i' = sol_i + sol_todo
  BY <1>1
<1>2. ~sol_digested /\ SolInput
  BY <1>1 DEF SolInv, SolOutput
<1>3. sol_i' \in Nat /\ sol_i' < Rate /\ sol_todo <= sol_todo /\ sol_i + sol_todo <= Rate
  BY <1>0, SolNumbers
<1>4. sol_buff' = PartBlock(Len(sol_state), sol_i')
  <2>1. Sol!Absorbed(sol_todo) = PartBlock(Len(sol_state), sol_i + sol_todo)
    BY <1>2, <1>3, SolNumbers, SolAbsorbed
  <2> QED
    BY <1>1, <2>1
<1> DEFINE done == Rate * Len(sol_state)
<1>5. done \in Nat /\ done + sol_i + sol_todo = sol_total
  BY <1>2, SolTypes DEF SolInput
<1> HIDE DEF done
<1>6. done + sol_i' <= sol_total /\ done + sol_i' + 0 = sol_total
  BY <1>0, <1>5, SolNumbers
<1>7. sol_buff' \in InputBlocksType
  <2>1. Rate * Len(sol_state) + sol_i' <= sol_total /\ sol_total \in 0 .. MaxInput
        /\ Len(sol_state) \in Nat
    BY <1>6, SolTypes DEF done
  <2> QED
    BY <1>3, <1>4, <2>1, BlockTypes
<1>8. Sol!TypeOK'
  BY <1>1, <1>3, <1>7, SolTypes, SolNumbers, SolTypeNext
<1>9. SolInput'
  BY <1>1, <1>2, <1>4, <1>6 DEF SolInput, done
<1>10. (sol_squeezed = Output(sol_total, Len(sol_squeezed)) /\ Len(sol_squeezed) \in Nat)'
  BY <1>1 DEF SolInv
<1> QED
  BY <1>1, <1>2, <1>8, <1>9, <1>10 DEF SolInv

LEMMA SolBlockStep ==
  ASSUME SolInv, Sol!AbsorbBlock
  PROVE  SolInv'
<1>1. /\ sol_pc = "absorb" /\ sol_todo >= Rate - sol_i
      /\ sol_state' = Append(sol_state, Sol!Absorbed(Rate - sol_i)) /\ sol_buff' = ZeroBlock
      /\ sol_todo' = sol_todo - (Rate - sol_i) /\ sol_i' = 0
      /\ UNCHANGED <<sol_pc, sol_total, sol_digested, sol_squeezed>>
  BY SolNames DEF Sol!AbsorbBlock, Sol!Permute
<1>0. /\ sol_todo >= Rate - sol_i /\ sol_todo' = sol_todo - (Rate - sol_i) /\ sol_i' = 0
      /\ sol_total' = sol_total
  BY <1>1
<1>2. ~sol_digested /\ SolInput
  BY <1>1 DEF SolInv, SolOutput
<1>3. Sol!Absorbed(Rate - sol_i) = FullBlock(Len(sol_state) + 1)
  <2>1. PICK n \in Nat : n = Rate - sol_i /\ n <= sol_todo /\ sol_i + n = Rate
                         /\ sol_i + n <= Rate
    <3>1. Rate - sol_i \in Nat /\ Rate - sol_i <= sol_todo /\ sol_i + (Rate - sol_i) = Rate
          /\ sol_i + (Rate - sol_i) <= Rate
      BY <1>0, SolNumbers
    <3> QED
      BY <3>1
  <2>2. Sol!Absorbed(n) = PartBlock(Len(sol_state), sol_i + n)
    BY <1>2, <2>1, SolAbsorbed
  <2>3. InputBlocks(sol_state)
    BY <1>2 DEF SolInput
  <2> QED
    BY <2>1, <2>2, <2>3, SolTypes, InputByAppend
<1> DEFINE done == Rate * Len(sol_state)
<1>4. /\ InputBlocks(sol_state') /\ Len(sol_state') = Len(sol_state) + 1
      /\ Rate * Len(sol_state') = done + Rate /\ Rate * (Len(sol_state) + 1) = done + Rate
  BY <1>1, <1>2, <1>3, SolTypes, InputByAppend DEF SolInput
<1>5. done \in Nat /\ done + sol_i + sol_todo = sol_total
  BY <1>2, SolTypes DEF SolInput
<1> HIDE DEF done
<1>6. sol_todo' \in Nat /\ done + Rate + sol_i' + sol_todo' = sol_total'
      /\ done + Rate <= sol_total
  BY <1>0, <1>5, SolNumbers
<1>7. sol_state' \in Seq(InputBlocksType) /\ sol_buff' \in InputBlocksType
  <2>1. Rate * (Len(sol_state) + 1) <= sol_total /\ Len(sol_state) + 1 \in Nat \ {0}
    BY <1>4, <1>6, SolTypes
  <2>2. FullBlock(Len(sol_state) + 1) \in InputBlocksType
    BY <2>1, SolTypes, BlockTypes
  <2> QED
    BY <1>1, <1>3, <2>2, SolTypes DEF ZeroBlock, InputBlocksType
<1>8. Sol!TypeOK'
  BY <1>1, <1>6, <1>7, SolTypes, SolNumbers, SolTypeNext
<1>9. sol_buff' = PartBlock(Len(sol_state'), 0)
  <2>1. \A i \in Index : ~(i < 0)
    BY SolNumbers
  <2> QED
    BY <1>1, <2>1 DEF ZeroBlock, PartBlock
<1>10. SolInput'
  BY <1>1, <1>2, <1>4, <1>6, <1>9 DEF SolInput
<1>11. (sol_squeezed = Output(sol_total, Len(sol_squeezed)) /\ Len(sol_squeezed) \in Nat)'
  BY <1>1 DEF SolInv
<1> QED
  BY <1>1, <1>2, <1>8, <1>10, <1>11 DEF SolInv

(* shakeDigest permutes the padded block in at once. *)
LEMMA SolDigestStep ==
  ASSUME SolInv, NEW n \in Request, Sol!Digest(n)
  PROVE  SolInv'
<1> DEFINE last == [j \in Index |-> Xor(sol_buff[j], PadAt(j, sol_i))]
<1>1. /\ sol_pc = "idle" /\ ~sol_digested /\ n <= MaxOutput
      /\ sol_state' = Append(sol_state, last) /\ sol_buff' = ZeroBlock
      /\ sol_i' = 0 /\ sol_digested' = TRUE /\ sol_pc' = "squeeze" /\ sol_todo' = n
      /\ n \in Nat /\ UNCHANGED <<sol_total, sol_squeezed>>
  BY SolNames, ShakeAssumption DEF Sol!Digest, Sol!Permute
<1>2. SolInput /\ sol_todo = 0
  BY <1>1 DEF SolInv
<1>3. last = LastBlock(Len(sol_state), sol_i)
  BY <1>2, SolTypes, PaddingXored DEF SolInput
<1> HIDE DEF last
<1>4. InputBlocks(sol_state) /\ sol_total = Rate * Len(sol_state) + sol_i
      /\ sol_squeezed = << >>
  BY <1>2, SolTypes, SolNumbers DEF SolInput
<1>5. /\ sol_total \div Rate = Len(sol_state) /\ StateBlocks(sol_state, sol_total)
      /\ last = StateBlock(sol_total, Len(sol_state) + 1)
  BY <1>3, <1>4, SolTypes, InputIsState
<1>6. /\ sol_state' \in Seq(InputBlocksType) /\ StateBlocks(sol_state', sol_total)
      /\ Len(sol_state') = Len(sol_state) + 1
  <2>1. Len(sol_state) >= sol_total \div Rate
    BY <1>5, SolTypes
  <2> QED
    BY <1>1, <1>5, <2>1, SolTypes, StateByAppend
<1>7. Sol!TypeOK'
  <2>1. ZeroBlock \in InputBlocksType
    BY DEF ZeroBlock, InputBlocksType
  <2>2. 0 \in Nat /\ 0 < Rate
    BY SolNumbers
  <2> QED
    BY <1>1, <1>6, <2>1, <2>2, SolTypes, SolNumbers, SolTypeNext
<1>8. Len(sol_squeezed) = 0 /\ 0 + n <= MaxOutput
  BY <1>1, <1>4
<1>9. /\ Len(sol_state') > sol_total \div Rate
      /\ Len(sol_squeezed) + Rate = Rate * (Len(sol_state') - (sol_total \div Rate)) + 0
  <2>1. Len(sol_state') - (sol_total \div Rate) = 1 /\ Len(sol_state') > sol_total \div Rate
    BY <1>5, <1>6, SolTypes
  <2>2. Rate * 1 = Rate
    BY SolNumbers
  <2> QED
    BY <1>8, <2>1, <2>2, SolNumbers
<1>10. SolOutput'
  BY <1>1, <1>6, <1>8, <1>9 DEF SolOutput
<1>11. (sol_squeezed = Output(sol_total, Len(sol_squeezed)) /\ Len(sol_squeezed) \in Nat)'
  BY <1>1 DEF SolInv
<1> QED
  BY <1>1, <1>7, <1>10, <1>11 DEF SolInv

LEMMA SolSqueezeStep ==
  ASSUME SolInv, Sol!Return \/ \E n \in Request : Sol!Squeeze(n)
  PROVE  SolInv'
<1>1. /\ UNCHANGED <<sol_state, sol_buff, sol_i, sol_total, sol_digested, sol_squeezed>>
      /\ sol_todo' \in Nat
      /\ \/ /\ sol_pc' = "idle"
            /\ sol_todo' = 0
         \/ /\ sol_digested /\ sol_pc' = "squeeze"
            /\ Len(sol_squeezed) + sol_todo' <= MaxOutput
      /\ sol_pc' = "idle" => sol_todo' = 0 /\ sol_todo = 0
  <2>1. CASE Sol!Return
    BY <2>1 DEF Sol!Return
  <2>2. ASSUME NEW n \in Request, Sol!Squeeze(n)
        PROVE  /\ UNCHANGED <<sol_state, sol_buff, sol_i, sol_total, sol_digested, sol_squeezed>>
               /\ sol_todo' \in Nat /\ sol_digested /\ sol_pc' = "squeeze"
               /\ Len(sol_squeezed) + sol_todo' <= MaxOutput
    BY <2>2, ShakeAssumption DEF Sol!Squeeze
  <2> QED
    BY <2>1, <2>2
<1>2. sol_pc' \in {"idle", "squeeze"}
  BY <1>1
<1>3. Sol!TypeOK'
  BY <1>1, <1>2, SolTypes, SolNumbers, SolTypeNext
<1>4. ASSUME ~sol_digested
      PROVE  SolInput'
  <2>1. SolInput /\ sol_pc' = "idle" /\ sol_todo' = 0 /\ sol_todo = 0
    BY <1>1, <1>4 DEF SolInv
  <2> QED
    BY <1>1, <2>1 DEF SolInput
<1>5. ASSUME sol_digested
      PROVE  SolOutput'
  <2>1. SolOutput
    BY <1>5 DEF SolInv
  <2> QED
    BY <1>1, <1>2, <2>1 DEF SolOutput
<1>6. (sol_squeezed = Output(sol_total, Len(sol_squeezed)) /\ Len(sol_squeezed) \in Nat)'
  BY <1>1 DEF SolInv
<1> QED
  BY <1>1, <1>3, <1>4, <1>5, <1>6 DEF SolInv

(* The bytes read are the next ones, whether or not they end the block. *)
LEMMA SolServed ==
  ASSUME SolInv, sol_digested, NEW j \in Nat, j <= sol_todo, sol_i + j <= Rate,
         sol_pc = "squeeze", sol_squeezed' = sol_squeezed \o Sol!StateBytes(j),
         sol_todo' = sol_todo - j, UNCHANGED sol_total
  PROVE  /\ sol_squeezed' = Output(sol_total, Len(sol_squeezed'))
         /\ Len(sol_squeezed') = Len(sol_squeezed) + j
         /\ Len(sol_squeezed') \in Nat
         /\ Len(sol_squeezed') + sol_todo' <= MaxOutput
         /\ Len(sol_squeezed') <= MaxOutput
         /\ sol_todo' \in Nat
<1> DEFINE d == Len(sol_squeezed)
<1>1. d \in Nat /\ sol_squeezed = Output(sol_total, d)
  BY DEF SolInv
<1>2. /\ Len(sol_state) > sol_total \div Rate /\ StateBlocks(sol_state, sol_total)
      /\ d + Rate = Rate * (Len(sol_state) - (sol_total \div Rate)) + sol_i
      /\ d + sol_todo <= MaxOutput
  BY DEF SolInv, SolOutput
<1> HIDE DEF d
<1>3. sol_total \in Nat /\ sol_total \div Rate \in Nat /\ Len(sol_state) \in Nat
  BY SolNumbers, SolTypes, Split
<1>4. PICK m \in Nat : Len(sol_state) = (sol_total \div Rate) + 1 + m
  <2>1. /\ Len(sol_state) - (sol_total \div Rate) - 1 \in Nat
        /\ Len(sol_state) = (sol_total \div Rate) + 1
                            + (Len(sol_state) - (sol_total \div Rate) - 1)
    BY <1>2, <1>3
  <2> QED
    BY <2>1
<1>5. d = Rate * m + sol_i
  <2>1. Len(sol_state) - (sol_total \div Rate) = m + 1
    BY <1>3, <1>4
  <2>2. PICK v \in Nat : v = Rate * m /\ Rate * (m + 1) = v + Rate
    <3>1. Rate * m \in Nat /\ Rate * (m + 1) = Rate * m + Rate
      BY NextMultiple, SpongePaddingAssumption
    <3> QED
      BY <3>1
  <2>3. d + Rate = (v + Rate) + sol_i
    BY <1>2, <2>1, <2>2
  <2>4. d = v + sol_i
    <3>1. d \in Nat /\ v \in Nat /\ sol_i \in Nat /\ Rate \in Nat
      BY <1>1, <2>2, SolNumbers
    <3> QED
      BY <2>3, <3>1
  <2> QED
    BY <2>2, <2>4
<1>6. Holds(sol_total, d, sol_state, m, sol_i)
  BY <1>1, <1>2, <1>3, <1>4, <1>5, SolTypes, SolNumbers DEF Holds
<1>7. Sol!StateBytes(j) = StateBytes(sol_state, ZeroBlock, sol_i, j)
  <2>1. ASSUME NEW k \in 1 .. j
        PROVE  ZeroBlock[sol_i + k - 1] = {}
    BY SolNumbers DEF ZeroBlock, Index
  <2> QED
    BY <2>1 DEF Sol!StateBytes, StateBytes
<1>8. sol_squeezed' = Output(sol_total, d + j) /\ Len(sol_squeezed') = d + j
  <2>1. /\ Output(sol_total, d) \o StateBytes(sol_state, ZeroBlock, sol_i, j)
             = Output(sol_total, d + j)
        /\ Len(Output(sol_total, d + j)) = d + j
    BY <1>6, Served
  <2> QED
    BY <1>1, <1>7, <2>1
<1>9. d + j \in Nat /\ sol_todo - j \in Nat /\ d + j + (sol_todo - j) <= MaxOutput
      /\ d + j <= MaxOutput
  <2>1. /\ d \in Nat /\ d + sol_todo <= MaxOutput
        /\ j \in Nat /\ j <= sol_todo /\ sol_todo \in Nat /\ MaxOutput \in Nat
    BY <1>1, <1>2, SolNumbers
  <2> QED
    BY <2>1
<1> QED
  BY <1>8, <1>9 DEF d

LEMMA SolPartStep ==
  ASSUME SolInv, Sol!SqueezePart
  PROVE  SolInv'
<1>1. /\ sol_pc = "squeeze" /\ sol_todo < Rate - sol_i
      /\ sol_squeezed' = sol_squeezed \o Sol!StateBytes(sol_todo)
      /\ sol_i' = sol_i + sol_todo /\ sol_todo' = 0
      /\ UNCHANGED <<sol_state, sol_buff, sol_pc, sol_total, sol_digested>>
  BY DEF Sol!SqueezePart
<1>2. sol_digested /\ SolOutput
  BY <1>1 DEF SolInv, SolInput
<1>3. /\ sol_todo \in Nat /\ sol_todo <= sol_todo /\ sol_i + sol_todo <= Rate
      /\ sol_i + sol_todo < Rate /\ sol_i + sol_todo \in Nat /\ sol_todo - sol_todo = 0
  <2>1. sol_todo < Rate - sol_i
    BY <1>1
  <2> QED
    BY <2>1, SolNumbers
<1>4. /\ sol_squeezed' = Output(sol_total, Len(sol_squeezed'))
      /\ Len(sol_squeezed') = Len(sol_squeezed) + sol_todo
      /\ Len(sol_squeezed') \in Nat /\ Len(sol_squeezed') + sol_todo' <= MaxOutput
      /\ Len(sol_squeezed') <= MaxOutput /\ sol_todo' \in Nat
  <2>1. sol_todo' = sol_todo - sol_todo
    BY <1>1, <1>3
  <2> QED
    BY <1>1, <1>2, <1>3, <2>1, SolServed
<1>5. Sol!TypeOK'
  BY <1>1, <1>3, <1>4, SolTypes, SolNumbers, SolTypeNext
<1>6. Len(sol_squeezed') + Rate = Rate * (Len(sol_state) - (sol_total \div Rate)) + sol_i'
  <2>1. PICK w : /\ w = Rate * (Len(sol_state) - (sol_total \div Rate))
                 /\ Len(sol_squeezed) + Rate = w + sol_i
    BY <1>2 DEF SolOutput
  <2>2. w \in Int
    <3>1. sol_total \div Rate \in Nat
      BY SolNumbers, Split
    <3>2. Len(sol_state) - (sol_total \div Rate) \in Int
      BY <3>1, SolTypes
    <3> QED
      BY <2>1, <3>2, SolNumbers
  <2>3. Len(sol_squeezed) + sol_todo + Rate = w + (sol_i + sol_todo)
    <3>1. Len(sol_squeezed) + Rate = w + sol_i
      BY <2>1
    <3> QED
      BY <2>2, <3>1, SolNumbers
  <2> QED
    BY <1>1, <1>4, <2>1, <2>3
<1>7. SolOutput'
  BY <1>1, <1>2, <1>4, <1>6 DEF SolOutput
<1> QED
  BY <1>1, <1>2, <1>4, <1>5, <1>7 DEF SolInv

LEMMA SolNextBlockStep ==
  ASSUME SolInv, Sol!SqueezeBlock
  PROVE  SolInv'
<1>1. /\ sol_pc = "squeeze" /\ sol_todo >= Rate - sol_i
      /\ sol_squeezed' = sol_squeezed \o Sol!StateBytes(Rate - sol_i)
      /\ sol_state' = Append(sol_state, sol_buff) /\ sol_buff' = ZeroBlock
      /\ sol_i' = 0 /\ sol_todo' = sol_todo - (Rate - sol_i)
      /\ UNCHANGED <<sol_pc, sol_total, sol_digested>>
  BY SolNames DEF Sol!SqueezeBlock, Sol!Permute
<1>2. sol_digested /\ SolOutput
  BY <1>1 DEF SolInv, SolInput
<1>3. PICK j \in Nat : j = Rate - sol_i /\ j <= sol_todo /\ sol_i + j <= Rate /\ sol_i + j = Rate
  <2>1. sol_todo >= Rate - sol_i
    BY <1>1
  <2>2. Rate - sol_i \in Nat /\ Rate - sol_i <= sol_todo /\ sol_i + (Rate - sol_i) <= Rate
        /\ sol_i + (Rate - sol_i) = Rate
    BY <2>1, SolNumbers
  <2> QED
    BY <2>2
<1>4. /\ sol_squeezed' = Output(sol_total, Len(sol_squeezed'))
      /\ Len(sol_squeezed') = Len(sol_squeezed) + j
      /\ Len(sol_squeezed') \in Nat /\ Len(sol_squeezed') + sol_todo' <= MaxOutput
      /\ Len(sol_squeezed') <= MaxOutput /\ sol_todo' \in Nat
  BY <1>1, <1>2, <1>3, SolServed
<1>5. sol_total \in Nat /\ sol_total \div Rate \in Nat /\ Len(sol_state) \in Nat
  BY SolNumbers, SolTypes, Split
<1>6. /\ sol_state' \in Seq(InputBlocksType) /\ StateBlocks(sol_state', sol_total)
      /\ Len(sol_state') = Len(sol_state) + 1
  <2>1. Len(sol_state) > sol_total \div Rate /\ StateBlocks(sol_state, sol_total)
        /\ sol_buff = ZeroBlock
    BY <1>2 DEF SolOutput
  <2>2. /\ Len(sol_state) >= sol_total \div Rate
        /\ ~(Len(sol_state) + 1 <= sol_total \div Rate)
        /\ Len(sol_state) + 1 # (sol_total \div Rate) + 1
    BY <1>5, <2>1
  <2>3. sol_buff = StateBlock(sol_total, Len(sol_state) + 1)
    BY <2>1, <2>2 DEF StateBlock
  <2> QED
    BY <1>1, <2>1, <2>2, <2>3, SolTypes, StateByAppend
<1>7. Sol!TypeOK'
  <2>1. ZeroBlock \in InputBlocksType
    BY DEF ZeroBlock, InputBlocksType
  <2>2. 0 \in Nat /\ 0 < Rate
    BY SolNumbers
  <2> QED
    BY <1>1, <1>4, <1>6, <2>1, <2>2, SolTypes, SolNumbers, SolTypeNext
<1>8. /\ Len(sol_state') > sol_total \div Rate
      /\ Len(sol_squeezed') + Rate = Rate * (Len(sol_state') - (sol_total \div Rate)) + 0
  <2>1. PICK c \in Int : c = Len(sol_state) - (sol_total \div Rate)
    BY <1>5
  <2>2. Len(sol_state') - (sol_total \div Rate) = c + 1 /\ Len(sol_state') > sol_total \div Rate
    <3>1. Len(sol_state) > sol_total \div Rate
      BY <1>2 DEF SolOutput
    <3> QED
      BY <1>5, <1>6, <2>1, <3>1
  <2>3. PICK w \in Int : w = Rate * c /\ Rate * (c + 1) = w + Rate
    BY NextMultiple, SpongePaddingAssumption
  <2>4. Len(sol_squeezed) + Rate = w + sol_i
    BY <1>2, <2>1, <2>3 DEF SolOutput
  <2>5. Len(sol_squeezed) + j + Rate = w + Rate + 0
    <3>1. /\ Len(sol_squeezed) \in Nat /\ w \in Int /\ Rate \in Nat
          /\ j \in Nat /\ sol_i \in Nat /\ sol_i + j = Rate
      BY <1>3, <2>3, SolNumbers
    <3> QED
      BY <2>4, <3>1
  <2> QED
    BY <1>4, <2>2, <2>3, <2>5
<1>9. SolOutput'
  BY <1>1, <1>2, <1>4, <1>6, <1>8 DEF SolOutput
<1> QED
  BY <1>1, <1>2, <1>4, <1>7, <1>9 DEF SolInv

LEMMA SolStep ==
  ASSUME SolInv, [Sol!Next]_solVars
  PROVE  SolInv'
<1>1. CASE UNCHANGED solVars
  BY <1>1 DEF solVars, SolInv, SolInput, SolOutput, Sol!TypeOK
<1>2. CASE Sol!Next
  BY <1>2, SolNewStep, SolUpdateStep, SolIntoBlockStep, SolBlockStep, SolDigestStep,
     SolSqueezeStep, SolPartStep, SolNextBlockStep
  DEF Sol!Next
<1> QED
  BY <1>1, <1>2

-----------------------------------------------------------------------------
(***************************************************************************)
(* The theorems.                                                           *)
(***************************************************************************)
LEMMA SpongesKept == SpongesSpec => []SpongesInv
<1>1. SpongesInit => SpongesInv
  BY KeccakStart, ShakeStart, SolStart DEF SpongesInit, PairInit, SpongesInv
<1>2. SpongesInv /\ [SpongesNext]_<<using, vars, solVars, keccakVars>> => SpongesInv'
  <2> SUFFICES ASSUME SpongesInv, [SpongesNext]_<<using, vars, solVars, keccakVars>>
               PROVE  SpongesInv'
    OBVIOUS
  <2>1. /\ [Next]_vars /\ [Sol!Next]_solVars /\ [Keccak!Next]_keccakVars
    BY DEF SpongesNext, PairNext
  <2> QED
    BY <2>1, ShakeStep, SolStep, KeccakStep DEF SpongesInv
<1> QED
  BY <1>1, <1>2, PTL DEF SpongesSpec

(***************************************************************************)
(* The indices of the three contexts stay within their buffers, whatever   *)
(* the rate and the pieces (keccak256.c 292-336, fips202.c 373-514,        *)
(* ZKNOX_shake.sol 150-266).                                               *)
(***************************************************************************)
THEOREM SpongesTypeCorrect == SpongesSpec => []SpongesTypeOK
<1>1. SpongesInv => SpongesTypeOK
  BY DEF SpongesInv, KeccakInv, ShakeInv, SolInv, SpongesTypeOK, BothTypeOK
<1> QED
  BY <1>1, SpongesKept, PTL

(***************************************************************************)
(* Keccak-256 hashes the padded input and nothing else, wherever the       *)
(* pieces were cut (keccak256.c 292-363).                                  *)
(***************************************************************************)
THEOREM HashCorrect == SpongesSpec => []HashOfInput
<1>1. SpongesInv => HashOfInput
  BY KeccakNames DEF SpongesInv, KeccakInv, HashOfInput, Keccak!HashOfInput
<1> QED
  BY <1>1, SpongesKept, PTL

(***************************************************************************)
(* Every byte shake256_squeeze and _squeezeblocks hand out is the one of   *)
(* SHAKE-256 in that place (fips202.c 373-514).                            *)
(***************************************************************************)
THEOREM OutputCorrect == SpongesSpec => []OutputInOrder
<1>1. SpongesInv => OutputInOrder
  BY DEF SpongesInv, ShakeInv, OutputInOrder, Output
<1> QED
  BY <1>1, SpongesKept, PTL

(***************************************************************************)
(* Signer and contract draw the same bytes from the same input.            *)
(***************************************************************************)
THEOREM OutputsAgree == SpongesSpec => []SameOutput
<1>1. SpongesInv => SameOutput
  <2> SUFFICES ASSUME SpongesInv, total = sol_total,
                      NEW p \in 1 .. Lesser(Len(squeezed), Len(sol_squeezed))
               PROVE  squeezed[p] = sol_squeezed[p]
    BY DEF SameOutput
  <2>1. /\ squeezed = Output(total, Len(squeezed)) /\ Len(squeezed) \in Nat
        /\ sol_squeezed = Output(total, Len(sol_squeezed)) /\ Len(sol_squeezed) \in Nat
    BY DEF SpongesInv, ShakeInv, SolInv
  <2>2. p \in 1 .. Len(squeezed) /\ p \in 1 .. Len(sol_squeezed)
    BY <2>1 DEF Lesser
  <2>3. /\ Output(total, Len(squeezed))[p] = OutputByte(total, p - 1)
        /\ Output(total, Len(sol_squeezed))[p] = OutputByte(total, p - 1)
    BY <2>2 DEF Output
  <2> QED
    BY <2>1, <2>3
<1> QED
  BY <1>1, SpongesKept, PTL
=============================================================================
