---------------------------- MODULE VerifiersProofs ----------------------------
(***************************************************************************)
(* For every signature, whatever its numbers of rows, coefficients and     *)
(* position bytes: the row-by-row verifier comes to the verdict of the     *)
(* reference, the contracts accept what the reference accepts (with no row *)
(* of z exactly at the bound), what the signers pack is accepted, and an   *)
(* accepted hint section is the only one that decodes to its hint.         *)
(*                                                                         *)
(* And for every degree and all fields with the roots of unity it takes:   *)
(* the row A*z - c*t1*2^d that a verifier computes by transforms, and the  *)
(* product of challenge and secret of a signer, are right in the ring.     *)
(***************************************************************************)
EXTENDS Verifiers, RowProduct, IntegerLemmas

LEMMA Sizes ==
  /\ L \in Nat \ {0} /\ K \in Nat \ {0} /\ N \in Nat \ {0} /\ OMEGA \in Nat /\ Bound \in Nat
  /\ 0 \in KRow /\ K - 1 \in KRow /\ KRow \subseteq Nat /\ LRow \subseteq Nat
  /\ \A r \in KRow : r = 0 \/ r - 1 \in KRow
BY VerifiersAssumption DEF KRow, LRow

LEMMA SigFacts ==
  ASSUME NEW s \in Sig
  PROVE  /\ \A l \in LRow : s.z[l] \in Nat
         /\ \A r \in KRow : s.cnt[r] \in Nat /\ RowStart(s.cnt, r) \in Nat
         /\ \A j \in Slot : s.pos[j] \in Position
         /\ s.right \in [KRow -> SUBSET Position]
<1>1. s.z \in [LRow -> Norm] /\ s.cnt \in [KRow -> CountByte] /\ s.pos \in [Slot -> Position]
      /\ s.right \in Hint
  BY DEF Sig
<1>2. \A r \in KRow : s.cnt[r] \in Nat
  BY <1>1, VerifiersAssumption
<1> QED
  BY <1>1, <1>2, Sizes, VerifiersAssumption DEF RowStart

(* The positions of a good row lie in the section.                         *)
LEMMA RowInSection ==
  ASSUME NEW s \in Sig, NEW r \in KRow, RowEndsInOrder(s, r)
  PROVE  /\ RowStart(s.cnt, r) \in Nat /\ s.cnt[r] \in Nat
         /\ RowStart(s.cnt, r) <= s.cnt[r] /\ s.cnt[r] <= OMEGA
         /\ \A j \in RowStart(s.cnt, r) .. s.cnt[r] - 1 : j \in Slot /\ s.pos[j] \in Nat
<1>1. RowStart(s.cnt, r) \in Nat /\ s.cnt[r] \in Nat
      /\ RowStart(s.cnt, r) <= s.cnt[r] /\ s.cnt[r] <= OMEGA
  BY SigFacts DEF RowEndsInOrder
<1>2. \A j \in RowStart(s.cnt, r) .. s.cnt[r] - 1 : j \in Slot
  BY <1>1, Sizes DEF Slot
<1> QED
  BY <1>1, <1>2, SigFacts, Sizes DEF Position

-----------------------------------------------------------------------------
(* The row-by-row verifier.                                                *)

Typed ==
  /\ sig \in Sig
  /\ k_idx \in 0 .. K
  /\ l_idx \in 0 .. L
  /\ hint_ones \in Seq(Position)

(* The rows that were fed are rows the reference decodes and lets through. *)
RowsFed ==
  /\ fed = [r \in 1 .. k_idx |-> [z |-> LRow, h |-> DecodedRow(sig, r - 1)]]
  /\ \A r \in 0 .. k_idx - 1 : GoodRow(sig, r)
  /\ k_idx > 0 => NormsBelow(sig) /\ TailZero(sig)

(* The rows of z added up for the current row are those below the index.   *)
RowsAdded ==
  pc = "z" =>
    /\ k_idx < K
    /\ wcomp = 0 .. l_idx - 1
    /\ \A l \in 0 .. l_idx - 1 : sig.z[l] < Bound

Verdicts ==
  /\ pc \in {"begin", "row", "z", "done"}
  /\ verdict = "none" <=> pc # "done"
  /\ pc \in {"row", "z"} => ~WrongLength(sig)
  /\ pc = "done" => (verdict = "accept" <=> RefAccepts(sig))

IInv ==
  /\ Typed
  /\ RowsFed
  /\ RowsAdded
  /\ Verdicts

LEMMA InitIInv ==
  ASSUME Init
  PROVE  IInv
<1>1. Typed
  BY Sizes DEF Init, Typed
<1>2. RowsFed
  BY DEF Init, RowsFed
<1> QED
  BY <1>1, <1>2 DEF Init, IInv, RowsAdded, Verdicts

(* The steps that neither feed a row nor return.                           *)
LEMMA QuietIInv ==
  ASSUME IInv, Begin \/ BeginRow \/ AddZ
  PROVE  IInv'
<1>1. UNCHANGED <<sig, k_idx, hint_ones, fed, verdict>>
  BY DEF Begin, BeginRow, AddZ
<1>2. RowsFed'
  BY <1>1 DEF IInv, RowsFed
<1>3. l_idx' \in 0 .. L
  BY Sizes DEF IInv, Typed, Begin, BeginRow, AddZ
<1>4. RowsAdded'
  <2>1. CASE Begin
    BY <2>1 DEF Begin, RowsAdded
  <2>2. CASE BeginRow
    BY <2>2 DEF BeginRow, RowsAdded
  <2>3. CASE AddZ
    <3>1. l_idx \in Nat /\ l_idx' = l_idx + 1 /\ pc = "z" /\ sig' = sig /\ k_idx' = k_idx
          /\ wcomp' = wcomp \cup {l_idx} /\ sig.z[l_idx] < Bound
      BY <2>3, Sizes DEF IInv, Typed, AddZ
    <3>2. 0 .. l_idx' - 1 = (0 .. l_idx - 1) \cup {l_idx}
      BY <3>1
    <3> QED
      BY <3>1, <3>2 DEF IInv, RowsAdded
  <2> QED
    BY <2>1, <2>2, <2>3
<1>5. Verdicts'
  BY <1>1 DEF IInv, Verdicts, Begin, BeginRow, AddZ
<1> QED
  BY <1>1, <1>2, <1>3, <1>4, <1>5 DEF IInv, Typed

(* The positions copied over older ones are searched up to the row's end.  *)
LEMMA UsedHintsDecoded ==
  ASSUME IInv, FeedRow
  PROVE  /\ hint_ones' \in Seq(Position)
         /\ UsedHints = DecodedRow(sig, k_idx)
<1> DEFINE from == RowStart(sig.cnt, k_idx)  n == RowHints  m == Len(hint_ones)
           Entry(i) == IF i <= n THEN sig.pos[from + i - 1] ELSE hint_ones[i]
<1>1. sig \in Sig /\ k_idx \in KRow /\ RowEndsInOrder(sig, k_idx)
  BY Sizes DEF IInv, Typed, RowsAdded, FeedRow, RowIndicesGood, GoodRow, KRow
<1>2. /\ from \in Nat /\ sig.cnt[k_idx] = from + n /\ n \in Nat
      /\ \A j \in from .. from + n - 1 : j \in Slot /\ sig.pos[j] \in Position
  <2>1. from \in Nat /\ sig.cnt[k_idx] \in Nat /\ from <= sig.cnt[k_idx]
        /\ \A j \in from .. sig.cnt[k_idx] - 1 : j \in Slot
    BY <1>1, RowInSection
  <2>2. n = sig.cnt[k_idx] - from
    BY DEF RowHints
  <2> HIDE DEF n, from
  <2>3. n \in Nat /\ sig.cnt[k_idx] = from + n
    BY <2>1, <2>2
  <2> QED
    BY <1>1, <2>1, <2>3, SigFacts
<1>3. hint_ones' = [i \in 1 .. Larger(m, n) |-> Entry(i)]
  BY DEF FeedRow, Overwritten
<1>4. m \in Nat /\ \A i \in 1 .. m : hint_ones[i] \in Position
  BY DEF IInv, Typed
<1>5. DecodedRow(sig, k_idx) = {sig.pos[j] : j \in from .. from + n - 1}
  BY <1>2 DEF DecodedRow
<1>6. UsedHints = {hint_ones'[i] : i \in 1 .. n}
  BY DEF UsedHints
<1> HIDE DEF from, n, m
<1>7. Larger(m, n) \in Nat /\ n <= Larger(m, n) /\ \A i \in 1 .. Larger(m, n) : i <= n \/ i \in 1 .. m
  BY <1>2, <1>4 DEF Larger
<1>8. \A i \in 1 .. Larger(m, n) : Entry(i) \in Position
  BY <1>2, <1>4, <1>7
<1>9. hint_ones' \in Seq(Position)
  <2> HIDE DEF Entry
  <2> QED
    BY <1>3, <1>7, <1>8
<1>10. \A i \in 1 .. n : hint_ones'[i] = sig.pos[from + i - 1]
  BY <1>2, <1>3, <1>7
<1>11. {hint_ones'[i] : i \in 1 .. n} = {sig.pos[j] : j \in from .. from + n - 1}
  <2>1. \A i \in 1 .. n : from + i - 1 \in from .. from + n - 1
    BY <1>2
  <2>2. \A j \in from .. from + n - 1 : j - from + 1 \in 1 .. n /\ from + (j - from + 1) - 1 = j
    BY <1>2
  <2> QED
    BY <1>10, <2>1, <2>2
<1> QED
  BY <1>5, <1>6, <1>9, <1>11

LEMMA FeedRowIInv ==
  ASSUME IInv, FeedRow
  PROVE  IInv'
<1>1. /\ sig \in Sig /\ k_idx \in Nat /\ k_idx < K /\ k_idx' = k_idx + 1 /\ l_idx = L
      /\ sig' = sig /\ l_idx' = l_idx /\ verdict' = verdict /\ pc = "z" /\ pc' = "row"
      /\ GoodRow(sig, k_idx) /\ TailZero(sig)
      /\ fed = [r \in 1 .. k_idx |-> [z |-> LRow, h |-> DecodedRow(sig, r - 1)]]
  BY Sizes DEF IInv, Typed, RowsFed, RowsAdded, FeedRow, RowIndicesGood
<1>2. wcomp = LRow /\ NormsBelow(sig)
  BY <1>1 DEF IInv, RowsAdded, LRow, NormsBelow
<1>3. fed' = [r \in 1 .. k_idx' |-> [z |-> LRow, h |-> DecodedRow(sig, r - 1)]]
  <2> DEFINE row(r) == [z |-> LRow, h |-> DecodedRow(sig, r - 1)]
  <2>1. fed' = Append(fed, row(k_idx + 1))
    BY <1>1, <1>2, UsedHintsDecoded DEF FeedRow
  <2> HIDE DEF row
  <2>2. fed = [r \in 1 .. k_idx |-> row(r)]
    BY <1>1 DEF row
  <2>3. fed' = [r \in 1 .. k_idx + 1 |-> row(r)]
    BY <1>1, <2>1, <2>2
  <2> QED
    BY <1>1, <2>3 DEF row
<1>4. RowsFed'
  <2>1. \A r \in 0 .. k_idx' - 1 : GoodRow(sig, r)
    BY <1>1 DEF IInv, RowsFed
  <2> QED
    BY <1>1, <1>2, <1>3, <2>1 DEF RowsFed
<1>5. Typed'
  BY <1>1, UsedHintsDecoded, Sizes DEF IInv, Typed
<1> QED
  BY <1>1, <1>4, <1>5 DEF IInv, RowsAdded, Verdicts

(* An early rejection is one the reference makes, too.                     *)
LEMMA RejectIInv ==
  ASSUME IInv, RefuseLength \/ RejectZ \/ RejectHint
  PROVE  IInv'
<1>1. /\ UNCHANGED <<sig, k_idx, l_idx, wcomp, hint_ones, fed>>
      /\ pc' = "done" /\ verdict' = "reject" /\ sig \in Sig
  BY DEF IInv, Typed, RefuseLength, RejectZ, RejectHint, Return
<1>2. ~RefAccepts(sig)
  <2>1. CASE RefuseLength
    BY <2>1 DEF RefuseLength, RefAccepts
  <2>2. CASE RejectZ
    <3>1. l_idx \in LRow /\ ~(sig.z[l_idx] < Bound)
      BY <1>1, <2>2, SigFacts, Sizes DEF IInv, Typed, RejectZ, LRow
    <3> QED
      BY <3>1 DEF RefAccepts, NormsBelow
  <2>3. CASE RejectHint
    <3>1. k_idx \in KRow
      BY <2>3, Sizes DEF IInv, Typed, RowsAdded, RejectHint, KRow
    <3> QED
      BY <2>3, <3>1 DEF RejectHint, RowIndicesGood, RefAccepts, Unpacks
  <2> QED
    BY <2>1, <2>2, <2>3
<1> QED
  BY <1>1, <1>2 DEF IInv, Typed, RowsFed, RowsAdded, Verdicts

(* The comparison comes out as that of the reference.                      *)
LEMMA CompareIInv ==
  ASSUME IInv, Compare
  PROVE  IInv'
<1> DEFINE same == fed = [r \in 1 .. K |-> [z |-> LRow, h |-> sig.right[r - 1]]]
<1>1. /\ UNCHANGED <<sig, k_idx, l_idx, wcomp, hint_ones, fed>>
      /\ pc' = "done" /\ pc = "row" /\ k_idx = K /\ sig \in Sig
      /\ verdict' = IF same THEN "accept" ELSE "reject"
  BY DEF IInv, Typed, Compare, Return
<1>2. Unpacks(sig) /\ NormsBelow(sig) /\ ~WrongLength(sig)
  BY <1>1, Sizes DEF IInv, RowsFed, Verdicts, Unpacks, KRow
<1>3. same <=> Decoded(sig) = sig.right
  <2>1. fed = [r \in 1 .. K |-> [z |-> LRow, h |-> DecodedRow(sig, r - 1)]]
    BY <1>1 DEF IInv, RowsFed
  <2>2. same <=> \A r \in 1 .. K : DecodedRow(sig, r - 1) = sig.right[r - 1]
    BY <2>1
  <2>3. (\A r \in 1 .. K : DecodedRow(sig, r - 1) = sig.right[r - 1])
          <=> \A r \in KRow : DecodedRow(sig, r) = sig.right[r]
    <3>1. \A r \in 1 .. K : r - 1 \in KRow
      BY Sizes DEF KRow
    <3>2. \A r \in KRow : r + 1 \in 1 .. K /\ (r + 1) - 1 = r
      BY Sizes DEF KRow
    <3> QED
      BY <3>1, <3>2
  <2>4. Decoded(sig) = sig.right <=> \A r \in KRow : DecodedRow(sig, r) = sig.right[r]
    BY <1>1, SigFacts DEF Decoded
  <2> QED
    BY <2>2, <2>3, <2>4
<1> HIDE DEF same
<1>4. verdict' = "accept" <=> RefAccepts(sig)
  BY <1>1, <1>2, <1>3 DEF RefAccepts
<1>5. verdict' # "none"
  BY <1>1
<1> QED
  BY <1>1, <1>4, <1>5 DEF IInv, Typed, RowsFed, RowsAdded, Verdicts

LEMMA StepIInv ==
  ASSUME IInv, [Next]_vars
  PROVE  IInv'
<1>1. CASE UNCHANGED vars
  BY <1>1 DEF vars, IInv, Typed, RowsFed, RowsAdded, Verdicts
<1>2. CASE Next
  BY <1>2, QuietIInv, FeedRowIInv, RejectIInv, CompareIInv DEF Next
<1> QED
  BY <1>1, <1>2

(* The invariant holds throughout crypto_sign_verify of c-lowram.          *)
THEOREM LoopCorrect == Spec => []IInv
BY InitIInv, StepIInv, PTL DEF Spec

(* Row by row in reused buffers, the low-RAM verifier reaches the verdict  *)
(* of the reference (crypto_sign_verify of c-lowram and of c-ref).         *)
THEOREM LowramCorrect == Spec => []LowramAgrees
<1>1. IInv => LowramAgrees
  BY DEF IInv, Verdicts, LowramAgrees
<1> QED
  BY <1>1, LoopCorrect, PTL

-----------------------------------------------------------------------------
(* The contracts, and what the signers pack.                               *)

(* On a signature of the right length, with no row of z exactly at the     *)
(* bound, the contracts accept what the reference accepts: the panic in    *)
(* dilithiumCore1 only meets hints that the reference rejects.             *)
THEOREM SolidityCorrect == Spec => []SolidityAgrees
<1>1. ASSUME IInv
      PROVE  SolidityAgrees
  <2> SUFFICES ASSUME sig.length = "exact"
               PROVE  /\ (\A l \in LRow : sig.z[l] # Bound) =>
                           (SolVerdict(sig) = "accept" <=> RefAccepts(sig))
                      /\ (sig.ctx = "fits" /\ Unpacks(sig)) => SolVerdict(sig) # "revert"
    BY DEF SolidityAgrees
  <2>1. PanicsInCore1(sig) => ~Unpacks(sig)
    BY Sizes DEF PanicsInCore1, Unpacks, KRow
  <2>2. SliceFails(sig) <=> WrongLength(sig)
    BY DEF SliceFails, WrongLength
  <2>3. ASSUME \A l \in LRow : sig.z[l] # Bound
        PROVE  SolVerdict(sig) = "accept" <=> RefAccepts(sig)
    <3>1. \A l \in LRow : sig.z[l] \in Nat /\ sig.z[l] # Bound
      BY <1>1, <2>3, SigFacts DEF IInv, Typed
    <3>2. \A l \in LRow : sig.z[l] <= Bound <=> sig.z[l] < Bound
      BY <3>1, Sizes
    <3>3. SolNormsBelow(sig) <=> NormsBelow(sig)
      BY <3>2 DEF SolNormsBelow, NormsBelow
    <3> QED
      BY <2>1, <2>2, <3>3 DEF SolVerdict, RefAccepts
  <2>4. (sig.ctx = "fits" /\ Unpacks(sig)) => SolVerdict(sig) # "revert"
    BY <2>1 DEF SolVerdict, SliceFails
  <2> QED
    BY <2>3, <2>4
<1> QED
  BY <1>1, LoopCorrect, PTL

(* What pack_sig and pack_sig_h write for the right hint is accepted by    *)
(* every verifier, and the low-RAM one does not reject it on the way.      *)
THEOREM HonestCorrect == Spec => []HonestAccepted
<1>1. ASSUME IInv
      PROVE  HonestAccepted
  <2> SUFFICES ASSUME sig.length = "exact", sig.ctx = "fits", NormsBelow(sig), Packed(sig)
               PROVE  /\ RefAccepts(sig) /\ SolVerdict(sig) = "accept" /\ PyAccepts(sig)
                      /\ verdict # "reject"
    BY DEF HonestAccepted
  <2>1. sig \in Sig
    BY <1>1 DEF IInv, Typed
  <2>2. Unpacks(sig)
    BY DEF Packed, Unpacks, GoodRow
  <2>3. Decoded(sig) = sig.right
    BY <2>1, SigFacts DEF Packed, Decoded
  <2>4. RefAccepts(sig)
    BY <2>2, <2>3 DEF RefAccepts, WrongLength
  <2>5. SolVerdict(sig) = "accept"
    <3>1. \A l \in LRow : sig.z[l] <= Bound
      BY <2>1, SigFacts, Sizes DEF NormsBelow
    <3>2. ~PanicsInCore1(sig)
      BY <2>2, Sizes DEF PanicsInCore1, Unpacks, KRow
    <3> QED
      BY <2>2, <2>3, <3>1, <3>2 DEF SolVerdict, SolNormsBelow, SliceFails
  <2>6. PyAccepts(sig)
    <3>1. \A r \in KRow : RowStart(sig.cnt, r) <= sig.cnt[r] /\ sig.cnt[r] <= OMEGA
      BY DEF Packed, RowEndsInOrder
    <3>2. ASSUME NEW r \in KRow, NEW j \in RowStart(sig.cnt, r) + 1 .. sig.cnt[r] - 1
          PROVE  sig.pos[j - 1] <= sig.pos[j]
      <4>1. RowEndsInOrder(sig, r) /\ sig.pos[j - 1] < sig.pos[j]
        BY <3>2 DEF Packed, StrictlyAscending
      <4>2. /\ j \in RowStart(sig.cnt, r) .. sig.cnt[r] - 1
            /\ j - 1 \in RowStart(sig.cnt, r) .. sig.cnt[r] - 1
        BY <2>1, <3>2, SigFacts
      <4>3. sig.pos[j - 1] \in Nat /\ sig.pos[j] \in Nat
        BY <2>1, <4>1, <4>2, RowInSection
      <4> QED
        BY <4>1, <4>3
    <3>3. TailZero(sig)
      BY DEF Packed
    <3> QED
      BY <2>3, <3>1, <3>2, <3>3, Sizes DEF PyAccepts, PyUnpacks
  <2>7. verdict # "reject"
    BY <1>1, <2>4 DEF IInv, Verdicts
  <2> QED
    BY <2>4, <2>5, <2>6, <2>7
<1> QED
  BY <1>1, LoopCorrect, PTL

-----------------------------------------------------------------------------
(* Strong unforgeability: the hint section of an accepted signature is the *)
(* only one that decodes to its hint.                                      *)

(* Neighbours in order, so are any two.                                    *)
LEMMA AscendingPairs ==
  ASSUME NEW p, NEW lo \in Nat, NEW hi \in Nat,
         \A j \in lo .. hi - 1 : p[j] \in Nat,
         \A j \in lo + 1 .. hi - 1 : p[j - 1] < p[j]
  PROVE  \A i, j \in lo .. hi - 1 : i < j => p[i] < p[j]
<1> DEFINE T == {j \in lo .. hi - 1 : \E i \in lo .. j - 1 : ~(p[i] < p[j])}
<1>1. T = {}
  <2> SUFFICES ASSUME T # {}
               PROVE  FALSE
    OBVIOUS
  <2>1. T \in SUBSET Nat
    OBVIOUS
  <2>2. PICK j \in T : \A m \in T : j <= m
    BY <2>1, LeastNatural
  <2>3. PICK i \in lo .. j - 1 : ~(p[i] < p[j])
    OBVIOUS
  <2>4. j \in lo .. hi - 1 /\ j - 1 \in lo .. hi - 1 /\ j \in lo + 1 .. hi - 1
    BY <2>2, <2>3
  <2>5. p[j - 1] < p[j]
    BY <2>4
  <2>6. i # j - 1
    BY <2>3, <2>5
  <2>7. p[i] < p[j - 1]
    <3>1. j - 1 \notin T
      BY <2>2, <2>4
    <3>2. i \in lo .. (j - 1) - 1
      BY <2>3, <2>4, <2>6
    <3> QED
      BY <2>4, <3>1, <3>2
  <2>8. i \in lo .. hi - 1
    BY <2>3, <2>4
  <2>9. p[i] \in Nat /\ p[j - 1] \in Nat /\ p[j] \in Nat
    BY <2>4, <2>8
  <2> QED
    BY <2>3, <2>5, <2>7, <2>9
<1>2. ASSUME NEW i \in lo .. hi - 1, NEW j \in lo .. hi - 1, i < j
      PROVE  p[i] < p[j]
  <2>1. i \in lo .. j - 1 /\ j \notin T
    BY <1>1, <1>2
  <2> QED
    BY <2>1
<1> QED
  BY <1>2

(* Ascending rows with the same positions: the first place at which one    *)
(* ends, or has a smaller position, would be a position the other lacks.   *)
Rising(p, lo, b) == /\ \A j \in lo .. b - 1 : p[j] \in Nat
                    /\ \A i, j \in lo .. b - 1 : i < j => p[i] < p[j]
Within(p, u, lo, b, c) == \A j \in lo .. b - 1 : \E m \in lo .. c - 1 : p[j] = u[m]
AlikeBefore(p, u, lo, c, x) == \A j \in lo .. x - 1 : j \in lo .. c - 1 /\ p[j] = u[j]

LEMMA RowNotShorter ==
  ASSUME NEW p, NEW u, NEW lo \in Nat, NEW b \in Nat, NEW c \in Nat, NEW x \in lo .. b - 1,
         Rising(p, lo, b), Rising(u, lo, c), Within(p, u, lo, b, c),
         AlikeBefore(p, u, lo, c, x)
  PROVE  x \in lo .. c - 1 /\ u[x] <= p[x]
<1> USE DEF Rising, Within, AlikeBefore
<1>1. PICK m \in lo .. c - 1 : p[x] = u[m]
  OBVIOUS
<1>2. ~(m < x)
  <2> SUFFICES ASSUME m < x
               PROVE  FALSE
    OBVIOUS
  <2>1. m \in lo .. x - 1 /\ m \in lo .. b - 1
    BY <1>1
  <2>2. p[m] = u[m] /\ p[m] < p[x] /\ p[m] \in Nat /\ p[x] \in Nat
    BY <2>1
  <2> QED
    BY <1>1, <2>2
<1>3. x \in lo .. c - 1
  BY <1>1, <1>2
<1>4. u[x] \in Nat /\ u[m] \in Nat /\ (x = m \/ u[x] < u[m])
  BY <1>1, <1>2, <1>3
<1> QED
  BY <1>1, <1>3, <1>4

Stepping(p, lo, b) == /\ \A j \in lo .. b - 1 : p[j] \in Nat
                      /\ \A j \in lo + 1 .. b - 1 : p[j - 1] < p[j]
Entries(p, lo, b) == {p[j] : j \in lo .. b - 1}

LEMMA SameRow ==
  ASSUME NEW p, NEW u, NEW lo \in Nat, NEW b \in Nat, NEW c \in Nat, lo <= b, lo <= c,
         Stepping(p, lo, b), Stepping(u, lo, c), Entries(p, lo, b) = Entries(u, lo, c)
  PROVE  b = c /\ \A j \in lo .. b - 1 : p[j] = u[j]
<1> DEFINE Same(j) == j \in lo .. b - 1 /\ j \in lo .. c - 1 /\ p[j] = u[j]
           T == {j \in Nat : lo <= j /\ (j < b \/ j < c) /\ ~Same(j)}
<1>1. Rising(p, lo, b) /\ Rising(u, lo, c)
  BY AscendingPairs DEF Rising, Stepping
<1>2. Within(p, u, lo, b, c) /\ Within(u, p, lo, c, b)
  BY DEF Within, Entries
<1>3. T = {}
  <2> SUFFICES ASSUME T # {}
               PROVE  FALSE
    OBVIOUS
  <2>1. PICK x \in T : \A m \in T : x <= m
    BY LeastNatural
  <2>2. x \in Nat /\ lo <= x /\ (x < b \/ x < c) /\ ~Same(x)
    OBVIOUS
  <2>3. ASSUME NEW j \in lo .. x - 1
        PROVE  Same(j)
    <3>1. j \in Nat /\ lo <= j /\ j < x /\ (j < b \/ j < c)
      BY <2>2, <2>3
    <3>2. j \notin T
      BY <2>1, <2>2, <3>1
    <3> QED
      BY <3>1, <3>2
  <2>4. x < b => x \in lo .. c - 1 /\ u[x] <= p[x]
    <3> SUFFICES ASSUME x < b
                 PROVE  x \in lo .. c - 1 /\ u[x] <= p[x]
      OBVIOUS
    <3>1. x \in lo .. b - 1
      BY <2>2
    <3>2. AlikeBefore(p, u, lo, c, x)
      BY <2>3 DEF AlikeBefore
    <3> QED
      BY <1>1, <1>2, <3>1, <3>2, RowNotShorter
  <2>5. x < c => x \in lo .. b - 1 /\ p[x] <= u[x]
    <3> SUFFICES ASSUME x < c
                 PROVE  x \in lo .. b - 1 /\ p[x] <= u[x]
      OBVIOUS
    <3>1. x \in lo .. c - 1
      BY <2>2
    <3>2. AlikeBefore(u, p, lo, b, x)
      BY <2>3 DEF AlikeBefore
    <3> QED
      BY <1>1, <1>2, <3>1, <3>2, RowNotShorter
  <2>6. x \in lo .. b - 1 /\ x \in lo .. c - 1
    BY <2>2, <2>4, <2>5
  <2>7. p[x] \in Nat /\ u[x] \in Nat /\ u[x] <= p[x] /\ p[x] <= u[x]
    BY <1>1, <2>4, <2>5, <2>6 DEF Rising
  <2> QED
    BY <2>2, <2>6, <2>7
<1>4. b = c
  <2>1. CASE b < c
    BY <1>3, <2>1
  <2>2. CASE c < b
    BY <1>3, <2>2
  <2> QED
    BY <2>1, <2>2
<1>5. ASSUME NEW j \in lo .. b - 1
      PROVE  p[j] = u[j]
  BY <1>3, <1>5
<1> QED
  BY <1>4, <1>5

(* Rows that start together, decode alike and pass the checks end together. *)
LEMMA SameDecodedRow ==
  ASSUME NEW s \in Sig, NEW t \in Sig, NEW r \in KRow, GoodRow(s, r), GoodRow(t, r),
         RowStart(s.cnt, r) = RowStart(t.cnt, r), DecodedRow(s, r) = DecodedRow(t, r)
  PROVE  /\ s.cnt[r] = t.cnt[r]
         /\ \A j \in RowStart(s.cnt, r) .. s.cnt[r] - 1 : s.pos[j] = t.pos[j]
<1>1. /\ RowStart(s.cnt, r) \in Nat /\ s.cnt[r] \in Nat /\ t.cnt[r] \in Nat
      /\ RowStart(s.cnt, r) <= s.cnt[r] /\ RowStart(s.cnt, r) <= t.cnt[r]
      /\ \A j \in RowStart(s.cnt, r) .. s.cnt[r] - 1 : s.pos[j] \in Nat
      /\ \A j \in RowStart(s.cnt, r) .. t.cnt[r] - 1 : t.pos[j] \in Nat
  BY RowInSection DEF GoodRow
<1>2. PICK lo \in Nat, b \in Nat, c \in Nat :
        lo = RowStart(s.cnt, r) /\ b = s.cnt[r] /\ c = t.cnt[r]
  BY <1>1
<1>3. Stepping(s.pos, lo, b) /\ Stepping(t.pos, lo, c)
  BY <1>1, <1>2 DEF GoodRow, StrictlyAscending, Stepping
<1>4. Entries(s.pos, lo, b) = Entries(t.pos, lo, c)
  BY <1>2 DEF DecodedRow, Entries
<1>5. lo <= b /\ lo <= c
  BY <1>1, <1>2
<1>6. b = c /\ \A j \in lo .. b - 1 : s.pos[j] = t.pos[j]
  BY <1>3, <1>4, <1>5, SameRow
<1> QED
  BY <1>2, <1>6

(* Two hint sections that the reference decodes to the same hint.          *)
LEMMA SectionUnique ==
  ASSUME NEW s \in Sig, NEW t \in Sig, Unpacks(s), Unpacks(t), Decoded(s) = Decoded(t)
  PROVE  s.cnt = t.cnt /\ s.pos = t.pos
<1>1. \A r \in KRow : GoodRow(s, r) /\ GoodRow(t, r) /\ DecodedRow(s, r) = DecodedRow(t, r)
  <2>1. \A r \in KRow : Decoded(s)[r] = DecodedRow(s, r) /\ Decoded(t)[r] = DecodedRow(t, r)
    BY DEF Decoded
  <2> QED
    BY <2>1 DEF Unpacks
<1>2. \A r \in KRow : s.cnt[r] = t.cnt[r]
  <2> DEFINE T == {r \in KRow : s.cnt[r] # t.cnt[r]}
  <2> SUFFICES ASSUME T # {}
               PROVE  FALSE
    OBVIOUS
  <2>1. T \in SUBSET Nat
    BY Sizes
  <2>2. PICK r \in T : \A m \in T : r <= m
    BY <2>1, LeastNatural
  <2>3. RowStart(s.cnt, r) = RowStart(t.cnt, r)
    <3>1. CASE r # 0
      <4>1. r \in Nat /\ r - 1 \in KRow /\ ~(r <= r - 1)
        BY <2>1, <3>1, Sizes
      <4>2. s.cnt[r - 1] = t.cnt[r - 1]
        BY <2>2, <4>1
      <4> QED
        BY <3>1, <4>2 DEF RowStart
    <3> QED
      BY <3>1 DEF RowStart
  <2> QED
    BY <1>1, <2>3, SameDecodedRow
<1>3. \A r \in KRow : RowStart(s.cnt, r) = RowStart(t.cnt, r)
  BY <1>2, Sizes DEF RowStart
<1>4. ASSUME NEW j \in Slot
      PROVE  s.pos[j] = t.pos[j]
  <2>1. j \in Nat /\ s.cnt[K - 1] \in Nat /\ s.cnt[K - 1] = t.cnt[K - 1]
    BY <1>2, SigFacts, Sizes DEF Slot
  <2>2. CASE s.cnt[K - 1] <= j
    BY <2>1, <2>2 DEF Unpacks, TailZero
  <2>3. CASE j < s.cnt[K - 1]
    <3> DEFINE T == {r \in KRow : j < s.cnt[r]}
    <3>1. T \in SUBSET Nat /\ K - 1 \in T
      BY <2>3, Sizes
    <3>2. PICK r \in T : \A m \in T : r <= m
      BY <3>1, LeastNatural
    <3>3. RowStart(s.cnt, r) <= j
      <4>1. CASE r # 0
        <5>1. r \in Nat /\ r - 1 \in KRow /\ ~(r <= r - 1)
          BY <3>1, <4>1, Sizes
        <5>2. ~(j < s.cnt[r - 1]) /\ s.cnt[r - 1] \in Nat
          BY <3>2, <5>1, SigFacts
        <5> QED
          BY <2>1, <4>1, <5>2 DEF RowStart
      <4> QED
        BY <2>1, <4>1 DEF RowStart
    <3>4. j \in RowStart(s.cnt, r) .. s.cnt[r] - 1
      BY <2>1, <3>3, SigFacts
    <3> QED
      BY <1>1, <1>3, <3>4, SameDecodedRow
  <2> QED
    BY <2>1, <2>2, <2>3
<1> QED
  BY <1>2, <1>4 DEF Sig

(* "Coefficients are ordered for strong unforgeability", "Extra indices    *)
(* are zero for strong unforgeability" (c-ref/packing.c 223 and 231): the  *)
(* checks of unpack_sig leave one encoding of every hint.                  *)
THEOREM CanonicalCorrect == Spec => []Canonical
<1>1. ASSUME IInv
      PROVE  Canonical
  <2> SUFFICES ASSUME verdict = "accept",
                      NEW pos \in [Slot -> Position], NEW cnt \in [KRow -> CountByte],
                      RefAccepts([sig EXCEPT !.pos = pos, !.cnt = cnt])
               PROVE  [sig EXCEPT !.pos = pos, !.cnt = cnt] = sig
    BY DEF Canonical
  <2> DEFINE other == [sig EXCEPT !.pos = pos, !.cnt = cnt]
  <2>1. RefAccepts(sig) /\ sig \in Sig
    BY <1>1 DEF IInv, Typed, Verdicts
  <2>2. other \in Sig /\ other.right = sig.right /\ other.pos = pos /\ other.cnt = cnt
    BY <2>1 DEF Sig
  <2>3. RefAccepts(other)
    OBVIOUS
  <2> HIDE DEF other
  <2>4. Decoded(sig) = Decoded(other) /\ Unpacks(sig) /\ Unpacks(other)
    BY <2>1, <2>2, <2>3 DEF RefAccepts
  <2>5. sig.cnt = cnt /\ sig.pos = pos
    BY <2>1, <2>2, <2>4, SectionUnique
  <2> QED
    BY <2>1, <2>5 DEF Sig
<1> QED
  BY <1>1, LoopCorrect, PTL

-----------------------------------------------------------------------------
(* From here on: the products by the transforms.  The entries that a       *)
(* layer of c blocks finds in a table are c to 2c - 1, and their exponents *)
(* are odd multiples of the same power of two.                             *)

Powers == {1, 2, 4, 8, 16, 32, 64, 128}
Orders == {2, 4, 8, 16, 32, 64, 128, 256}

LEMMA ReversedSteps ==
  ASSUME NEW h \in Nat \ {0}
  PROVE  /\ Reversed(h, 0) = 0
         /\ \A j \in 0 .. h - 1 : Reversed(h, j) \in Nat
         /\ \A j \in 1 .. h - 1 :
              Reversed(h, j) = Reversed(h, j \div 2) \div 2 + (j % 2) * (h \div 2)
<1> DEFINE Value(f, j) == f[j \div 2] \div 2 + (j % 2) * (h \div 2)
           Upto(n) == \E f \in [0 .. n -> Nat] : f[0] = 0 /\ \A j \in 1 .. n : f[j] = Value(f, j)
           S == {n \in 0 .. h - 1 : Upto(n)}
<1>1. 0 \in S
  <2> DEFINE f == [j \in 0 .. 0 |-> 0]
  <2>1. f \in [0 .. 0 -> Nat] /\ f[0] = 0 /\ (\A j \in 1 .. 0 : f[j] = Value(f, j)) /\ 0 \in 0 .. h - 1
    OBVIOUS
  <2> QED
    BY <2>1
<1>2. ASSUME NEW n \in 0 .. (h - 1) - 1, n \in S
      PROVE  n + 1 \in S
  <2>1. PICK f \in [0 .. n -> Nat] : f[0] = 0 /\ \A j \in 1 .. n : f[j] = Value(f, j)
    BY <1>2
  <2> DEFINE last == Value(f, n + 1)
             g == [j \in 0 .. n + 1 |-> IF j = n + 1 THEN last ELSE f[j]]
  <2>2. \A j \in 1 .. n + 1 : j \div 2 \in 0 .. n /\ j \div 2 # n + 1
    OBVIOUS
  <2>3. last \in Nat
    <3>1. (n + 1) \div 2 \in 0 .. n
      OBVIOUS
    <3>2. f[(n + 1) \div 2] \in Nat
      BY <3>1
    <3>3. (n + 1) % 2 \in {0, 1} /\ h \div 2 \in Nat
      OBVIOUS
    <3> QED
      BY <3>2, <3>3
  <2> HIDE DEF last
  <2>4. g \in [0 .. n + 1 -> Nat] /\ g[0] = 0
    BY <2>1, <2>3
  <2>5. \A j \in 0 .. n : g[j] = f[j]
    OBVIOUS
  <2>6. g[n + 1] = last
    OBVIOUS
  <2> HIDE DEF g
  <2>7. ASSUME NEW j \in 1 .. n + 1
        PROVE  g[j] = Value(g, j)
    <3>1. g[j \div 2] = f[j \div 2]
      BY <2>2, <2>5
    <3>2. CASE j = n + 1
      BY <2>6, <3>1, <3>2 DEF last
    <3>3. CASE j \in 1 .. n
      BY <2>1, <2>5, <3>1, <3>3
    <3> QED
      BY <3>2, <3>3
  <2>8. Upto(n + 1)
    <3> HIDE DEF Value
    <3> QED
      BY <2>4, <2>7
  <2> HIDE DEF Upto
  <2> QED
    BY <2>8
<1> HIDE DEF Upto
<1>3. Upto(h - 1)
  <2>1. h - 1 \in Nat /\ h - 1 \in 0 .. h - 1
    OBVIOUS
  <2> HIDE DEF S
  <2>2. \A n \in 0 .. h - 1 : n \in S
    BY <1>1, <1>2, <2>1, UpTo
  <2> QED
    BY <2>1, <2>2 DEF S
<1>4. PICK f \in [0 .. h - 1 -> Nat] : f[0] = 0 /\ \A j \in 1 .. h - 1 : f[j] = Value(f, j)
  BY <1>3 DEF Upto
<1> DEFINE brv == CHOOSE r : r = [i \in 0 .. (h - 1) |->
                                    IF i = 0 THEN 0 ELSE r[i \div 2] \div 2 + (i % 2) * (h \div 2)]
<1>5. f = [i \in 0 .. (h - 1) |-> IF i = 0 THEN 0 ELSE f[i \div 2] \div 2 + (i % 2) * (h \div 2)]
  <2>1. \A i \in 0 .. h - 1 : i = 0 \/ i \in 1 .. h - 1
    OBVIOUS
  <2> QED
    BY <1>4, <2>1, Zenon
<1>6. brv = [i \in 0 .. (h - 1) |-> IF i = 0 THEN 0 ELSE brv[i \div 2] \div 2 + (i % 2) * (h \div 2)]
  BY <1>5, Zenon
<1>7. \A j : Reversed(h, j) = brv[j]
  BY Zenon DEF Reversed
<1> HIDE DEF brv
<1>8. brv[0] = 0 /\ \A j \in 1 .. h - 1 : brv[j] = brv[j \div 2] \div 2 + (j % 2) * (h \div 2)
  <2>1. 0 \in 0 .. h - 1 /\ \A j \in 1 .. h - 1 : j \in 0 .. h - 1 /\ j # 0
    OBVIOUS
  <2> QED
    BY <1>6, <2>1, Zenon
<1>9. \A j \in 0 .. h - 1 : brv[j] \in Nat
  <2> DEFINE Good == {n \in 0 .. h - 1 : \A j \in 0 .. n : brv[j] \in Nat}
  <2>1. 0 \in Good
    BY <1>8
  <2>2. ASSUME NEW n \in 0 .. (h - 1) - 1, n \in Good
        PROVE  n + 1 \in Good
    <3>1. n + 1 \in 1 .. h - 1 /\ (n + 1) \div 2 \in 0 .. n
      OBVIOUS
    <3>2. brv[(n + 1) \div 2] \in Nat
      BY <2>2, <3>1
    <3>3. (n + 1) % 2 \in {0, 1} /\ h \div 2 \in Nat
      OBVIOUS
    <3>4. brv[n + 1] \in Nat
      <4> DEFINE x == brv[(n + 1) \div 2]  b == (n + 1) % 2  y == h \div 2
      <4>1. brv[n + 1] = x \div 2 + b * y
        BY <1>8, <3>1
      <4>2. x \in Nat /\ b \in {0, 1} /\ y \in Nat
        BY <3>2, <3>3
      <4> HIDE DEF x, b, y
      <4>3. x \div 2 \in Nat /\ b * y \in Nat
        BY <4>2
      <4> QED
        BY <4>1, <4>3
    <3>5. \A j \in 0 .. n + 1 : j \in 0 .. n \/ j = n + 1
      OBVIOUS
    <3> QED
      BY <2>2, <3>1, <3>4, <3>5
  <2> HIDE DEF Good
  <2>3. h - 1 \in Nat /\ h - 1 \in 0 .. h - 1
    OBVIOUS
  <2>4. \A n \in 0 .. h - 1 : n \in Good
    BY <2>1, <2>2, <2>3, UpTo
  <2>5. \A j \in 0 .. h - 1 : j \in 0 .. h - 1
    OBVIOUS
  <2> QED
    BY <2>3, <2>4 DEF Good
<1> QED
  BY <1>7, <1>8, <1>9

(* What holds of the bits of the numbers below 2 * c, of which the leading *)
(* one stands for d.                                                       *)
Level(h, c, d) ==
  /\ \A j \in 0 .. c - 1 : Reversed(h, c + j) = Reversed(h, j) + d
  /\ \A j \in 0 .. 2 * c - 1 : \E u \in Nat : Reversed(h, j) = d * u
  /\ \A j \in 0 .. c - 1 : Reversed(h, c + j) + Reversed(h, 2 * c - 1 - j) = h

LEMMA LevelUp ==
  ASSUME NEW h \in Nat \ {0}, NEW c \in Nat \ {0}, NEW d \in Nat \ {0}, h = 4 * (c * d),
         Level(h, c, 2 * d)
  PROVE  Level(h, 2 * c, d)
<1> DEFINE r(j) == Reversed(h, j)
<1>1. /\ \A j \in 0 .. h - 1 : r(j) \in Nat
      /\ \A j \in 1 .. h - 1 : r(j) = r(j \div 2) \div 2 + (j % 2) * (h \div 2)
  BY ReversedSteps
<1>2. h \div 2 = 2 * (c * d) /\ 4 * c <= h /\ h \div 2 \in Nat
  <2> DEFINE p == c * d
  <2>1. p \in Nat /\ c <= p
    OBVIOUS
  <2> HIDE DEF p
  <2>2. h = 4 * p
    BY DEF p
  <2> QED
    BY <2>1, <2>2 DEF p
<1>3. /\ \A j \in 0 .. c - 1 : r(c + j) = r(j) + 2 * d
      /\ \A j \in 0 .. 2 * c - 1 : \E u \in Nat : r(j) = (2 * d) * u
      /\ \A j \in 0 .. c - 1 : r(c + j) + r(2 * c - 1 - j) = h
  BY DEF Level
<1> HIDE DEF r
<1>4. ASSUME NEW j \in 0 .. 2 * c - 1
      PROVE  r(2 * c + j) = r(j) + d
  <2>1. /\ 2 * c + j \in 1 .. h - 1 /\ (2 * c + j) \div 2 = c + (j \div 2) /\ (2 * c + j) % 2 = j % 2
        /\ j \div 2 \in 0 .. c - 1 /\ j \in 0 .. h - 1 /\ j \div 2 \in 0 .. h - 1 /\ j % 2 \in {0, 1}
    BY <1>2
  <2>2. r(2 * c + j) = (r(j \div 2) + 2 * d) \div 2 + (j % 2) * (h \div 2)
    BY <1>1, <1>3, <2>1
  <2>3. r(j \div 2) \in Nat
    BY <1>1, <2>1
  <2>4. (r(j \div 2) + 2 * d) \div 2 = r(j \div 2) \div 2 + d
    BY <2>3
  <2>5. CASE j = 0
    <3>1. r(0) = 0
      BY ReversedSteps DEF r
    <3>2. 0 \div 2 = 0 /\ 0 % 2 = 0
      OBVIOUS
    <3> QED
      BY <1>2, <2>2, <2>5, <3>1, <3>2
  <2>6. CASE j # 0
    <3>1. r(j) = r(j \div 2) \div 2 + (j % 2) * (h \div 2)
      BY <1>1, <2>1, <2>6
    <3> DEFINE x == r(j \div 2) \div 2  y == (j % 2) * (h \div 2)
    <3>2. x \in Int /\ y \in Int
      BY <1>2, <2>1, <2>3
    <3> HIDE DEF x, y
    <3>3. r(2 * c + j) = (x + d) + y /\ r(j) = x + y
      BY <2>2, <2>4, <3>1 DEF x, y
    <3> QED
      BY <3>2, <3>3
  <2> QED
    BY <2>5, <2>6
<1>5. ASSUME NEW j \in 0 .. 2 * (2 * c) - 1
      PROVE  \E u \in Nat : r(j) = d * u
  <2>1. CASE j = 0
    <3>1. r(0) = 0 /\ d * 0 = 0
      BY ReversedSteps DEF r
    <3> QED
      BY <2>1, <3>1
  <2>2. CASE j # 0
    <3>1. j \in 1 .. h - 1 /\ j \div 2 \in 0 .. 2 * c - 1 /\ j % 2 \in {0, 1}
      BY <1>2, <2>2
    <3>2. PICK u \in Nat : r(j \div 2) = (2 * d) * u
      BY <1>3, <3>1
    <3>3. r(j) = ((2 * d) * u) \div 2 + (j % 2) * (h \div 2)
      BY <1>1, <3>1, <3>2
    <3>4. ((2 * d) * u) \div 2 = d * u
      <4> DEFINE p == d * u
      <4>1. p \in Nat /\ (2 * d) * u = 2 * p
        OBVIOUS
      <4> HIDE DEF p
      <4>2. (2 * p) \div 2 = p
        BY <4>1
      <4> QED
        BY <4>1, <4>2 DEF p
    <3>5. r(j) = d * u + (j % 2) * (2 * (c * d))
      BY <1>2, <3>3, <3>4
    <3> DEFINE b == j % 2
    <3>6. b \in Nat
      BY <3>1
    <3> HIDE DEF b
    <3>7. d * u + b * (2 * (c * d)) = d * (u + b * (2 * c)) /\ u + b * (2 * c) \in Nat
      BY ONLY <3>6, u \in Nat, c \in Nat, d \in Nat
    <3> QED
      BY <3>5, <3>7 DEF b
  <2> QED
    BY <2>1, <2>2
<1>6. ASSUME NEW j \in 0 .. 2 * c - 1
      PROVE  r(2 * c + j) + r(2 * (2 * c) - 1 - j) = h
  <2> DEFINE i == 2 * (2 * c) - 1 - j  t == j \div 2
  <2>1. /\ 2 * c + j \in 1 .. h - 1 /\ (2 * c + j) \div 2 = c + t /\ (2 * c + j) % 2 = j % 2
        /\ i \in 1 .. h - 1 /\ i \div 2 = 2 * c - 1 - t /\ i % 2 = 1 - (j % 2)
        /\ t \in 0 .. c - 1 /\ j % 2 \in {0, 1}
        /\ c + t \in 0 .. 2 * c - 1 /\ 2 * c - 1 - t \in 0 .. 2 * c - 1
    BY <1>2
  <2> HIDE DEF i, t
  <2>2. r(c + t) + r(2 * c - 1 - t) = h
    BY <1>3, <2>1
  <2>3. PICK u \in Nat : r(c + t) = (2 * d) * u
    BY <1>3, <2>1
  <2>4. PICK v \in Nat : r(2 * c - 1 - t) = (2 * d) * v
    BY <1>3, <2>1
  <2>5. r(2 * c + j) = r(c + t) \div 2 + (j % 2) * (h \div 2)
    BY <1>1, <2>1
  <2>6. r(i) = r(2 * c - 1 - t) \div 2 + (1 - (j % 2)) * (h \div 2)
    BY <1>1, <2>1
  <2>7. r(c + t) \div 2 + r(2 * c - 1 - t) \div 2 = h \div 2
    <3> DEFINE p == d * u  o == d * v
    <3>1. p \in Nat /\ o \in Nat /\ r(c + t) = 2 * p /\ r(2 * c - 1 - t) = 2 * o
      BY <2>3, <2>4
    <3> HIDE DEF p, o
    <3>2. (2 * p) \div 2 = p /\ (2 * o) \div 2 = o /\ (2 * p + 2 * o) \div 2 = p + o
      BY <3>1
    <3>3. h = 2 * p + 2 * o
      BY <2>2, <3>1
    <3> QED
      BY <3>1, <3>2, <3>3
  <2> DEFINE x == r(c + t) \div 2  y == r(2 * c - 1 - t) \div 2
  <2>8. x \in Int /\ y \in Int
    <3>1. r(c + t) \in Int /\ r(2 * c - 1 - t) \in Int
      BY <2>3, <2>4
    <3> QED
      BY <3>1
  <2> HIDE DEF x, y
  <2>9. r(2 * c + j) = x + (j % 2) * (h \div 2) /\ r(i) = y + (1 - (j % 2)) * (h \div 2)
        /\ x + y = h \div 2
    BY <2>5, <2>6, <2>7 DEF x, y
  <2>10. h = 2 * (h \div 2)
    <3> DEFINE p == c * d
    <3>1. p \in Nat /\ h = 4 * p
      OBVIOUS
    <3> HIDE DEF p
    <3> QED
      BY <3>1
  <2>11. r(2 * c + j) + r(i) = h
    BY <1>2, <2>1, <2>8, <2>9, <2>10
  <2> QED
    BY <2>11 DEF i
<1> QED
  BY <1>4, <1>5, <1>6 DEF Level, r
LEMMA FirstLevel ==
  ASSUME NEW h \in Nat \ {0}, NEW d \in Nat \ {0}, h = 2 * d
  PROVE  Level(h, 1, d)
<1>1. Reversed(h, 0) = 0 /\ Reversed(h, 1) = d
  <2>1. 1 \in 1 .. h - 1 /\ 1 \div 2 = 0 /\ 1 % 2 = 1 /\ 0 \div 2 = 0 /\ h \div 2 = d
    OBVIOUS
  <2> QED
    BY <2>1, ReversedSteps
<1>2. \A j \in 0 .. 1 - 1 : j = 0
  OBVIOUS
<1>3. \A j \in 0 .. 2 * 1 - 1 : \E u \in Nat : Reversed(h, j) = d * u
  <2>1. d * 0 = 0 /\ d * 1 = d /\ 0 \in Nat /\ 1 \in Nat
    OBVIOUS
  <2>2. \A j \in 0 .. 2 * 1 - 1 : j = 0 \/ j = 1
    OBVIOUS
  <2> QED
    BY <1>1, <2>1, <2>2
<1>4. 1 + 0 = 1 /\ 2 * 1 - 1 - 0 = 1 /\ d + d = h
  OBVIOUS
<1> QED
  BY <1>1, <1>2, <1>3, <1>4 DEF Level

LEMMA Levels ==
  ASSUME NEW h \in Orders, NEW c \in Powers, 2 * c <= h
  PROVE  Level(h, c, h \div (2 * c))
<1> DEFINE At(e) == 2 * e <= h => Level(h, e, h \div (2 * e))
<1>1. h \in Nat \ {0} /\ h = 2 * (h \div 2) /\ h \div 2 \in Nat \ {0}
  BY DEF Orders
<1>2. At(1)
  <2>1. 2 * 1 = 2
    OBVIOUS
  <2> QED
    BY <1>1, <2>1, FirstLevel
<1>3. ASSUME NEW e \in Powers, At(e)
      PROVE  At(2 * e)
  <2> DEFINE d == h \div (2 * (2 * e))
  <2>1. SUFFICES ASSUME 2 * (2 * e) <= h
                 PROVE  Level(h, 2 * e, d)
    OBVIOUS
  <2>2. e \in Nat \ {0} /\ 2 * e <= h
    <3>1. e \in Nat \ {0}
      BY ONLY e \in Powers DEF Powers
    <3> QED
      BY ONLY <1>1, <2>1, <3>1
  <2>3. d \in Nat \ {0} /\ h \div (2 * e) = 2 * d /\ h = 4 * (e * d)
    BY <2>1, SMTT(60) DEF Powers, Orders
  <2>4. Level(h, e, 2 * d)
    BY <1>3, <2>2, <2>3
  <2> HIDE DEF d
  <2> QED
    BY <1>1, <2>2, <2>3, <2>4, LevelUp
<1> HIDE DEF At
<1>4. At(2) /\ At(4) /\ At(8) /\ At(16) /\ At(32) /\ At(64) /\ At(128)
  <2>1. {1, 2, 4, 8, 16, 32, 64} \subseteq Powers
    BY DEF Powers
  <2>2. /\ 2 * 1 = 2 /\ 2 * 2 = 4 /\ 2 * 4 = 8 /\ 2 * 8 = 16
        /\ 2 * 16 = 32 /\ 2 * 32 = 64 /\ 2 * 64 = 128
    OBVIOUS
  <2>3. At(2)
    BY <1>2, <1>3, <2>1, <2>2
  <2>4. At(4)
    BY <1>3, <2>1, <2>2, <2>3
  <2>5. At(8)
    BY <1>3, <2>1, <2>2, <2>4
  <2>6. At(16)
    BY <1>3, <2>1, <2>2, <2>5
  <2>7. At(32)
    BY <1>3, <2>1, <2>2, <2>6
  <2>8. At(64)
    BY <1>3, <2>1, <2>2, <2>7
  <2>9. At(128)
    BY <1>3, <2>1, <2>2, <2>8
  <2> QED
    BY <2>3, <2>4, <2>5, <2>6, <2>7, <2>8, <2>9
<1>5. At(c)
  BY <1>2, <1>4 DEF Powers
<1> QED
  BY <1>5 DEF At

LEMMA ReversedEven ==
  ASSUME NEW h \in Orders, NEW j \in 0 .. h \div 2 - 1
  PROVE  \E u \in Nat : Reversed(h, j) = 2 * u
<1>1. CASE h = 2
  <2>1. j = 0 /\ h \in Nat \ {0} /\ 0 = 2 * 0 /\ 0 \in Nat
    BY <1>1
  <2> QED
    BY <2>1, ReversedSteps
<1>2. CASE h # 2
  <2> DEFINE c == h \div 4
  <2>1. c \in Powers /\ 2 * c <= h /\ h \div (2 * c) = 2 /\ 2 * c = h \div 2
    BY <1>2 DEF Orders, Powers
  <2> HIDE DEF c
  <2>2. Level(h, c, 2)
    BY <2>1, Levels
  <2> QED
    BY <2>1, <2>2 DEF Level
<1> QED
  BY <1>1, <1>2

(* The roots that go with the nodes of the tree: node 1 is the whole       *)
(* polynomial, nodes 2 * c and 2 * c + 1 are the halves of node c.         *)
Exponent(h, c) == IF c = 1 THEN h ELSE Reversed(h, c \div 2) + (c % 2) * h

LEMMA ExponentOfChildren ==
  ASSUME NEW h \in Orders, NEW c \in 1 .. h - 1
  PROVE  /\ Reversed(h, c) \in Nat
         /\ Exponent(h, c) = 2 * Reversed(h, c)
         /\ Exponent(h, 2 * c) = Reversed(h, c)
         /\ Exponent(h, 2 * c + 1) = Reversed(h, c) + h
<1>1. h \in Nat \ {0} /\ h = 2 * (h \div 2) /\ h \div 2 \in Nat
  BY DEF Orders
<1>2. Reversed(h, c) \in Nat /\ Reversed(h, c) = Reversed(h, c \div 2) \div 2 + (c % 2) * (h \div 2)
  BY <1>1, ReversedSteps
<1>3. Exponent(h, 2 * c) = Reversed(h, c)
  <2>1. (2 * c) \div 2 = c /\ (2 * c) % 2 = 0 /\ 2 * c # 1 /\ 0 * h = 0
    BY <1>1
  <2> QED
    BY <1>2, <2>1 DEF Exponent
<1>4. Exponent(h, 2 * c + 1) = Reversed(h, c) + h
  <2>1. (2 * c + 1) \div 2 = c /\ (2 * c + 1) % 2 = 1 /\ 2 * c + 1 # 1 /\ 1 * h = h
    BY <1>1
  <2> QED
    BY <2>1 DEF Exponent
<1>5. CASE c = 1
  <2>1. 1 \div 2 = 0 /\ 1 % 2 = 1 /\ Reversed(h, 0) = 0 /\ 0 \div 2 = 0
    BY <1>1, ReversedSteps
  <2>2. Reversed(h, 1) = h \div 2
    BY <1>1, <1>2, <1>5, <2>1
  <2> QED
    BY <1>1, <1>2, <1>3, <1>4, <1>5, <2>2 DEF Exponent
<1>6. CASE c # 1
  <2>1. c \div 2 \in 0 .. h \div 2 - 1 /\ c % 2 \in {0, 1}
    BY <1>1
  <2>2. PICK u \in Nat : Reversed(h, c \div 2) = 2 * u
    BY <2>1, ReversedEven
  <2>3. (2 * u) \div 2 = u
    OBVIOUS
  <2>4. Reversed(h, c) = u + (c % 2) * (h \div 2) /\ Exponent(h, c) = 2 * u + (c % 2) * h
    BY <1>2, <1>6, <2>2, <2>3 DEF Exponent
  <2>5. Exponent(h, c) = 2 * Reversed(h, c)
    BY <1>1, <2>1, <2>4
  <2> QED
    BY <1>2, <1>3, <1>4, <2>5
<1> QED
  BY <1>5, <1>6

(* The leaves.                                                             *)
LEMMA ExponentOfLeaf ==
  ASSUME NEW h \in Orders, h # 2, NEW j \in 0 .. h - 1
  PROVE  Exponent(h, h + j) = 2 * Reversed(h, j) + 1
<1>1. h \in Nat \ {0} /\ h = 2 * (h \div 2) /\ h \div 2 \in Nat \ {0}
  BY DEF Orders
<1>2. Level(h, h \div 2, 1)
  <2> DEFINE c == h \div 2
  <2>1. c \in Powers /\ 2 * c <= h /\ h \div (2 * c) = 1
    BY DEF Orders, Powers
  <2> HIDE DEF c
  <2>2. Level(h, c, 1)
    BY <2>1, Levels
  <2> QED
    BY <2>2 DEF c
<1>3. /\ (h + j) \div 2 = h \div 2 + j \div 2 /\ (h + j) % 2 = j % 2 /\ h + j # 1
      /\ j \div 2 \in 0 .. h \div 2 - 1 /\ j % 2 \in {0, 1}
  BY <1>1
<1>4. Exponent(h, h + j) = Reversed(h, j \div 2) + 1 + (j % 2) * h
  BY <1>2, <1>3 DEF Exponent, Level
<1>5. PICK u \in Nat : Reversed(h, j \div 2) = 2 * u
  BY <1>3, ReversedEven
<1>6. Reversed(h, j) = u + (j % 2) * (h \div 2)
  <2>1. CASE j = 0
    <3>1. Reversed(h, 0) = 0 /\ 0 \div 2 = 0 /\ 0 % 2 = 0
      BY <1>1, ReversedSteps
    <3>2. u = 0
      BY <1>5, <2>1, <3>1
    <3> QED
      BY <1>1, <2>1, <3>1, <3>2
  <2>2. CASE j # 0
    <3>1. Reversed(h, j) = Reversed(h, j \div 2) \div 2 + (j % 2) * (h \div 2)
      <4>1. j \in 1 .. h - 1
        BY <1>1, <2>2
      <4> QED
        BY <1>1, <4>1, ReversedSteps
    <3>2. (2 * u) \div 2 = u
      OBVIOUS
    <3> QED
      BY <1>5, <3>1, <3>2
  <2> QED
    BY <2>1, <2>2
<1> QED
  BY <1>1, <1>3, <1>4, <1>5, <1>6

LEMMA ReversedComplement ==
  ASSUME NEW h \in Orders, NEW c \in Powers, 2 * c <= h, NEW j \in 0 .. c - 1
  PROVE  Reversed(h, c + j) + Reversed(h, 2 * c - 1 - j) = h
BY Levels DEF Level

(* A field, or any ring of residues, with a root whose power h is -1.      *)
Ring(m, g, h) ==
  /\ m \in Nat \ {0} /\ g \in Int /\ h \in Orders
  /\ Mod(m, PowerMod(g, h, m)) = Mod(m, -1)

LEMMA RingTypes ==
  ASSUME NEW m, NEW g, NEW h, Ring(m, g, h)
  PROVE  m \in Nat \ {0} /\ g \in Int /\ h \in Orders /\ h \in Nat \ {0}
BY DEF Ring, Orders

LEMMA HalfTurn ==
  ASSUME NEW m, NEW g, NEW h, Ring(m, g, h), NEW e \in Nat
  PROVE  Mod(m, PowerMod(g, e + h, m)) = Mod(m, -PowerMod(g, e, m))
<1> DEFINE x == PowerMod(g, e, m)  y == PowerMod(g, h, m)
<1>1. x \in Int /\ y \in Int
  BY RingTypes, PowerSteps
<1>2. Mod(m, PowerMod(g, e + h, m)) = Mod(m, x * y)
  BY RingTypes, PowerOfSum
<1>3. Mod(m, y) = Mod(m, -1) /\ m \in Nat \ {0}
  BY DEF Ring
<1> HIDE DEF x, y
<1>4. PICK o \in Int : o = -1
  OBVIOUS
<1>5. Mod(m, x * y) = Mod(m, x * o)
  BY ONLY <1>1, <1>3, <1>4, ModScale
<1>6. x * o = -x
  BY <1>1, <1>4
<1> QED
  BY <1>2, <1>5, <1>6 DEF x

LEMMA Turns ==
  ASSUME NEW m, NEW g, NEW h, Ring(m, g, h), NEW e \in Nat, NEW n \in Nat
  PROVE  Mod(m, PowerMod(g, e + 2 * (h * n), m)) = Mod(m, PowerMod(g, e, m))
<1> DEFINE P(j) == PowerMod(g, j, m)
           S == {j \in 0 .. n : Mod(m, P(e + 2 * (h * j))) = Mod(m, P(e))}
<1>1. m \in Nat \ {0} /\ h \in Nat \ {0} /\ \A j \in Nat : P(j) \in Int
  BY RingTypes, PowerSteps
<1>2. \A j \in Nat : Mod(m, P(j + h)) = Mod(m, -P(j))
  BY HalfTurn
<1> HIDE DEF P
<1>3. 0 \in S
  <2>1. e + 2 * (h * 0) = e
    BY <1>1
  <2> QED
    BY <2>1
<1>4. ASSUME NEW j \in 0 .. n - 1, j \in S
      PROVE  j + 1 \in S
  <2> DEFINE f == e + 2 * (h * j)
  <2>1. f \in Nat /\ f + h \in Nat
    BY <1>1
  <2>2. e + 2 * (h * (j + 1)) = (f + h) + h
    BY <1>1
  <2>3. Mod(m, P(f)) = Mod(m, P(e))
    BY <1>4
  <2> HIDE DEF f
  <2>4. Mod(m, P((f + h) + h)) = Mod(m, -P(f + h)) /\ Mod(m, P(f + h)) = Mod(m, -P(f))
    BY <1>2, <2>1
  <2>5. P(f) \in Int /\ P(f + h) \in Int
    BY <1>1, <2>1
  <2>6. Mod(m, -P(f + h)) = Mod(m, P(f))
    <3> DEFINE x == P(f + h)  y == -P(f)
    <3>1. x \in Int /\ y \in Int /\ Mod(m, x) = Mod(m, y) /\ 0 \in Int
      BY <2>4, <2>5
    <3>2. 0 - x = -P(f + h) /\ 0 - y = P(f)
      BY <2>5
    <3> HIDE DEF x, y
    <3>3. Mod(m, 0 - x) = Mod(m, 0 - y)
      BY ONLY <1>1, <3>1, ModSub
    <3> QED
      BY <3>2, <3>3
  <2>7. Mod(m, P(e + 2 * (h * (j + 1)))) = Mod(m, P(e))
    BY <2>2, <2>3, <2>4, <2>6
  <2> QED
    BY <2>7
<1> HIDE DEF S
<1>5. n \in S
  <2>1. \A j \in 0 .. n : j \in S
    BY <1>3, <1>4, UpTo
  <2> QED
    BY <2>1
<1> QED
  BY <1>5 DEF S, P

(* Two exponents that make half a turn.                                    *)
LEMMA Opposite ==
  ASSUME NEW m, NEW g, NEW h, Ring(m, g, h), NEW e \in Nat, NEW f \in Nat, e + f = h
  PROVE  Mod(m, PowerMod(g, e, m) * PowerMod(g, f, m)) = Mod(m, -1)
<1>1. Mod(m, PowerMod(g, e + f, m)) = Mod(m, PowerMod(g, e, m) * PowerMod(g, f, m))
  BY RingTypes, PowerOfSum
<1> QED
  BY <1>1 DEF Ring

(* The powers of the root of half a node, in those of the node.            *)
LEMMA PowersOfChild ==
  ASSUME NEW m, NEW g, NEW h, Ring(m, g, h), NEW e \in Nat, NEW f \in Nat, NEW b \in Nat,
         2 * e = f + 2 * (h * b), NEW v \in Nat
  PROVE  /\ Mod(m, PowerMod(g, e * (2 * v), m)) = Mod(m, PowerMod(g, f * v, m))
         /\ Mod(m, PowerMod(g, e * (2 * v + 1), m))
              = Mod(m, PowerMod(g, e, m) * PowerMod(g, f * v, m))
<1>1. m \in Nat \ {0} /\ g \in Int /\ h \in Nat
  BY RingTypes
<1>2. f * v \in Nat /\ e * (2 * v) \in Nat /\ b * v \in Nat
  OBVIOUS
<1>3. e * (2 * v) = f * v + 2 * (h * (b * v))
  <2>1. e * (2 * v) = (2 * e) * v
    BY ONLY e \in Nat, v \in Nat
  <2>2. (f + 2 * (h * b)) * v = f * v + 2 * (h * (b * v))
    BY ONLY <1>1, f \in Nat, b \in Nat, v \in Nat
  <2> QED
    BY <2>1, <2>2
<1>4. e * (2 * v + 1) = e + e * (2 * v)
  OBVIOUS
<1> DEFINE x == f * v  y == e * (2 * v)  w == b * v
<1>5. x \in Nat /\ y \in Nat /\ w \in Nat /\ y = x + 2 * (h * w)
  BY <1>2, <1>3
<1> HIDE DEF x, y, w
<1>6. Mod(m, PowerMod(g, y, m)) = Mod(m, PowerMod(g, x, m))
  BY <1>5, Turns
<1>7. Mod(m, PowerMod(g, e + y, m)) = Mod(m, PowerMod(g, e, m) * PowerMod(g, y, m))
  BY <1>1, <1>5, PowerOfSum
<1>8. PowerMod(g, e, m) \in Int /\ PowerMod(g, x, m) \in Int /\ PowerMod(g, y, m) \in Int
  BY <1>1, <1>5, PowerSteps
<1>9. Mod(m, PowerMod(g, e, m) * PowerMod(g, y, m)) = Mod(m, PowerMod(g, e, m) * PowerMod(g, x, m))
  BY ONLY <1>1, <1>6, <1>8, ModScale
<1> QED
  BY <1>4, <1>6, <1>7, <1>9 DEF x, y

-----------------------------------------------------------------------------
(* A polynomial modulo the X^w - r of a node, r a power e of the root: the *)
(* coefficients of X^n, X^(n + w), X^(n + 2w), ... come together.          *)

FoldedTerms(m, g, e, w, cnt, p, n) ==
  [v \in 0 .. cnt - 1 |-> p[n + v * w] * PowerMod(g, e * v, m)]

FoldedAt(m, g, e, w, cnt, p, n) == SumBelow(FoldedTerms(m, g, e, w, cnt, p, n), cnt)

Folded(m, g, h, w, p) ==
  [i \in Coeffs |->
     FoldedAt(m, g, Exponent(h, Size \div w + i \div w), w, Size \div w, p, i % w)]

FoldedTermsRight(m, g, e, w, cnt, p, n) ==
  /\ FoldedTerms(m, g, e, w, cnt, p, n) \in [0 .. cnt - 1 -> Int]
  /\ FoldedAt(m, g, e, w, cnt, p, n) \in Int
  /\ \A v \in 0 .. cnt - 1 :
       /\ p[n + v * w] \in Int
       /\ PowerMod(g, e * v, m) \in Int
       /\ FoldedTerms(m, g, e, w, cnt, p, n)[v] = p[n + v * w] * PowerMod(g, e * v, m)

LEMMA FoldedTermsType ==
  ASSUME NEW m \in Nat \ {0}, NEW g \in Int, NEW e \in Nat, NEW w \in Nat \ {0}, NEW cnt \in Nat,
         Size = cnt * w, NEW p \in [Coeffs -> Int], NEW n \in 0 .. w - 1
  PROVE  FoldedTermsRight(m, g, e, w, cnt, p, n)
<1> DEFINE f == FoldedTerms(m, g, e, w, cnt, p, n)
<1>1. ASSUME NEW v \in 0 .. cnt - 1
      PROVE  p[n + v * w] \in Int /\ PowerMod(g, e * v, m) \in Int
  <2>1. v * w + w <= cnt * w /\ v * w \in Nat
    <3>1. v + 1 <= cnt /\ v \in Nat
      OBVIOUS
    <3>2. (v + 1) * w <= cnt * w
      BY ONLY <3>1, w \in Nat \ {0}, cnt \in Nat
    <3> QED
      BY ONLY <3>1, <3>2, w \in Nat \ {0}
  <2>2. n + v * w \in Coeffs
    BY <2>1 DEF Coeffs
  <2>3. e * v \in Nat
    OBVIOUS
  <2> QED
    BY <2>2, <2>3, PowerSteps
<1>2. \A v \in 0 .. cnt - 1 : f[v] = p[n + v * w] * PowerMod(g, e * v, m)
  BY DEF FoldedTerms
<1>3. f \in [0 .. cnt - 1 -> Int]
  <2>1. \A v \in 0 .. cnt - 1 : p[n + v * w] * PowerMod(g, e * v, m) \in Int
    BY <1>1
  <2> QED
    BY <2>1 DEF FoldedTerms
<1> HIDE DEF f
<1>4. SumBelow(f, cnt) \in Int
  BY <1>3, PartialSums
<1> QED
  BY <1>1, <1>2, <1>3, <1>4 DEF FoldedTermsRight, FoldedAt, f

Doubles(h, e, f, b) == 2 * e = f + 2 * (h * b)

FoldsInto(m, g, e, f, w, c, p, n) ==
  Mod(m, FoldedAt(m, g, e, w, 2 * c, p, n))
  = Mod(m, FoldedAt(m, g, f, 2 * w, c, p, n)
             + PowerMod(g, e, m) * FoldedAt(m, g, f, 2 * w, c, p, n + w))

LEMMA FoldedHalves ==
  ASSUME NEW m, NEW g, NEW h, Ring(m, g, h), NEW e \in Nat, NEW f \in Nat, NEW b \in Nat,
         Doubles(h, e, f, b), NEW w \in Nat \ {0}, NEW c \in Nat, Size = c * (2 * w),
         NEW p \in [Coeffs -> Int], NEW n \in 0 .. w - 1
  PROVE  FoldsInto(m, g, e, f, w, c, p, n)
<1> DEFINE F == FoldedTerms(m, g, e, w, 2 * c, p, n)
           X == FoldedTerms(m, g, f, 2 * w, c, p, n)
           Y == FoldedTerms(m, g, f, 2 * w, c, p, n + w)
           s == PowerMod(g, e, m)
<1>1. /\ m \in Nat \ {0} /\ g \in Int /\ Size = (2 * c) * w /\ 2 * c \in Nat /\ 2 * w \in Nat \ {0}
      /\ n \in 0 .. 2 * w - 1 /\ n + w \in 0 .. 2 * w - 1
  <2>1. c * (2 * w) = (2 * c) * w
    OBVIOUS
  <2> QED
    BY <2>1, RingTypes
<1> DEFINE cc == 2 * c  ww == 2 * w  nw == n + w
<1>2. /\ F \in [0 .. 2 * c - 1 -> Int]
      /\ \A v \in 0 .. 2 * c - 1 :
           p[n + v * w] \in Int /\ F[v] = p[n + v * w] * PowerMod(g, e * v, m)
  <2>1. m \in Nat \ {0} /\ g \in Int /\ cc \in Nat /\ Size = cc * w
    BY <1>1
  <2> HIDE DEF cc
  <2>2. FoldedTermsRight(m, g, e, w, cc, p, n)
    BY ONLY <2>1, e \in Nat, w \in Nat \ {0}, p \in [Coeffs -> Int], n \in 0 .. w - 1,
            FoldedTermsType
  <2> QED
    BY <2>2 DEF FoldedTermsRight, cc, F
<1>3. /\ X \in [0 .. c - 1 -> Int]
      /\ \A v \in 0 .. c - 1 :
           p[n + v * (2 * w)] \in Int /\ X[v] = p[n + v * (2 * w)] * PowerMod(g, f * v, m)
  <2>1. m \in Nat \ {0} /\ g \in Int /\ ww \in Nat \ {0} /\ Size = c * ww /\ n \in 0 .. ww - 1
    BY <1>1
  <2> HIDE DEF ww
  <2>2. FoldedTermsRight(m, g, f, ww, c, p, n)
    BY ONLY <2>1, f \in Nat, c \in Nat, p \in [Coeffs -> Int], FoldedTermsType
  <2> QED
    BY <2>2 DEF FoldedTermsRight, ww, X
<1>4. /\ Y \in [0 .. c - 1 -> Int]
      /\ \A v \in 0 .. c - 1 :
           p[(n + w) + v * (2 * w)] \in Int
             /\ Y[v] = p[(n + w) + v * (2 * w)] * PowerMod(g, f * v, m)
  <2>1. m \in Nat \ {0} /\ g \in Int /\ ww \in Nat \ {0} /\ Size = c * ww /\ nw \in 0 .. ww - 1
    BY <1>1
  <2> HIDE DEF ww, nw
  <2>2. FoldedTermsRight(m, g, f, ww, c, p, nw)
    BY ONLY <2>1, f \in Nat, c \in Nat, p \in [Coeffs -> Int], FoldedTermsType
  <2> QED
    BY <2>2 DEF FoldedTermsRight, ww, nw, Y
<1>5. s \in Int
  BY <1>1, PowerSteps
<1> HIDE DEF F, X, Y
<1>6. ASSUME NEW j \in 0 .. c - 1
      PROVE  Mod(m, F[2 * j] + F[2 * j + 1]) = Mod(m, X[j] + s * Y[j])
  <2> DEFINE x == p[n + j * (2 * w)]  y == p[(n + w) + j * (2 * w)]
             u == PowerMod(g, e * (2 * j), m)  v == PowerMod(g, e * (2 * j + 1), m)
             z == PowerMod(g, f * j, m)
  <2>1. 2 * j \in 0 .. 2 * c - 1 /\ 2 * j + 1 \in 0 .. 2 * c - 1
        /\ n + (2 * j) * w = n + j * (2 * w)
        /\ n + (2 * j + 1) * w = (n + w) + j * (2 * w)
    OBVIOUS
  <2>2. x \in Int /\ y \in Int /\ F[2 * j] = x * u /\ F[2 * j + 1] = y * v
    BY <1>2, <2>1
  <2>3. X[j] = x * z /\ Y[j] = y * z
    BY <1>3, <1>4
  <2>4. Mod(m, u) = Mod(m, z) /\ Mod(m, v) = Mod(m, s * z)
    BY PowersOfChild DEF Doubles
  <2>5. u \in Int /\ v \in Int /\ z \in Int
    <3>1. e * (2 * j) \in Nat /\ e * (2 * j + 1) \in Nat /\ f * j \in Nat
      OBVIOUS
    <3> QED
      BY <1>1, <3>1, PowerSteps
  <2> HIDE DEF x, y, u, v, z, s
  <2> DEFINE sz == s * z
  <2>6. sz \in Int
    BY <1>5, <2>5
  <2>7. Mod(m, v) = Mod(m, sz)
    BY <2>4
  <2> HIDE DEF sz
  <2>8. Mod(m, x * u) = Mod(m, x * z)
    <3>1. m \in Nat \ {0} /\ x \in Int /\ u \in Int /\ z \in Int /\ Mod(m, u) = Mod(m, z)
      BY <1>1, <2>2, <2>4, <2>5
    <3> QED
      BY ONLY <3>1, ModScale
  <2>9. Mod(m, y * v) = Mod(m, y * sz)
    <3>1. m \in Nat \ {0} /\ y \in Int /\ v \in Int /\ sz \in Int
      BY <1>1, <2>2, <2>5, <2>6
    <3> QED
      BY ONLY <2>7, <3>1, ModScale
  <2> DEFINE xu == x * u  xz == x * z  yv == y * v  yz == y * sz
  <2>10. xu \in Int /\ xz \in Int /\ yv \in Int /\ yz \in Int
    BY ONLY <2>2, <2>5, <2>6
  <2>11. Mod(m, xu) = Mod(m, xz) /\ Mod(m, yv) = Mod(m, yz)
    BY <2>8, <2>9
  <2>12. F[2 * j] + F[2 * j + 1] = xu + yv
    BY <2>2
  <2>13. X[j] + s * Y[j] = xz + yz
    <3>1. s * (y * z) = y * (s * z)
      BY ONLY <1>5, <2>2, <2>5
    <3> QED
      BY <2>3, <3>1 DEF sz
  <2> HIDE DEF xu, xz, yv, yz
  <2>14. Mod(m, xu + yv) = Mod(m, xz + yz)
    BY ONLY <1>1, <2>10, <2>11, ModAdd
  <2> QED
    BY <2>12, <2>13, <2>14
<1>7. TermPairs(m, c, s, F, X, Y)
  BY <1>6 DEF TermPairs
<1> HIDE DEF s
<1>8. Mod(m, SumBelow(F, 2 * c)) = Mod(m, SumBelow(X, c) + s * SumBelow(Y, c))
  <2>1. PICK o \in Nat : o = 2 * c
    BY <1>1
  <2>2. m \in Nat \ {0} /\ F \in [0 .. o - 1 -> Int]
    BY <1>1, <1>2, <2>1
  <2>3. X \in [0 .. c - 1 -> Int] /\ Y \in [0 .. c - 1 -> Int]
    BY <1>3, <1>4
  <2>4. PairSums(m, c, o, s, F, X, Y)
    BY ONLY <1>5, <1>7, <2>1, <2>2, <2>3, c \in Nat, SumOfPairs
  <2> QED
    BY <2>1, <2>4 DEF PairSums
<1> QED
  BY <1>8 DEF FoldsInto, FoldedAt, F, X, Y, s

(* Where a coefficient is: in half a block, and in the block.              *)
Placed(w, i, j, n) == i \in Coeffs /\ i \div w = j /\ i % w = n

LEMMA PlaceOf ==
  ASSUME NEW w \in Nat \ {0}, NEW c \in Nat \ {0}, Size = c * w,
         NEW j \in 0 .. c - 1, NEW n \in 0 .. w - 1
  PROVE  Placed(w, j * w + n, j, n)
<1> DEFINE i == j * w + n
<1>1. j * w + w <= c * w /\ j * w \in Nat
  <2>1. j + 1 <= c /\ j \in Nat
    OBVIOUS
  <2>2. (j + 1) * w <= c * w
    BY ONLY <2>1, w \in Nat \ {0}, c \in Nat \ {0}
  <2> QED
    BY ONLY <2>1, <2>2, w \in Nat \ {0}
<1>2. i \in Coeffs /\ i \in Int
  BY <1>1 DEF Coeffs
<1>3. w * j + n = i
  OBVIOUS
<1> HIDE DEF i
<1>4. i \div w \in Int /\ i % w \in 0 .. w - 1 /\ i = w * (i \div w) + (i % w)
  BY <1>2, Division
<1> DEFINE d == i \div w  r == i % w
<1>5. d \in Int /\ r \in 0 .. w - 1 /\ w * j + n = w * d + r
  BY <1>3, <1>4
<1> HIDE DEF d, r
<1>6. j = d /\ n = r
  <2>1. w \in Nat \ {0} /\ j \in Int
    OBVIOUS
  <2> QED
    BY ONLY <1>5, <2>1, n \in 0 .. w - 1, DivisionUnique
<1> QED
  BY <1>2, <1>6 DEF i, d, r, Placed

LEMMA Places ==
  ASSUME NEW w \in Nat \ {0}, NEW c \in Nat \ {0}, Size = c * (2 * w),
         NEW j \in 0 .. c - 1, NEW n \in 0 .. w - 1
  PROVE  /\ Placed(w, j * (2 * w) + n, 2 * j, n)
         /\ Placed(w, j * (2 * w) + n + w, 2 * j + 1, n)
         /\ Placed(2 * w, j * (2 * w) + n, j, n)
         /\ Placed(2 * w, j * (2 * w) + n + w, j, n + w)
<1>1. PICK o \in Nat \ {0} : o = 2 * w
  OBVIOUS
<1>2. PICK u \in Nat \ {0} : u = 2 * c
  OBVIOUS
<1>3. Size = c * o /\ Size = u * w
  <2>1. c * (2 * w) = (2 * c) * w
    OBVIOUS
  <2> QED
    BY <1>1, <1>2, <2>1
<1>4. PICK nw \in 0 .. o - 1 : nw = n + w
  BY <1>1
<1>5. PICK i \in 0 .. u - 1 : i = 2 * j
  BY <1>2
<1>6. PICK ii \in 0 .. u - 1 : ii = 2 * j + 1
  BY <1>2
<1>7. Placed(o, j * o + n, j, n) /\ Placed(o, j * o + nw, j, nw)
  <2>1. n \in 0 .. o - 1
    BY <1>1
  <2> QED
    BY <1>3, <1>4, <2>1, PlaceOf
<1>8. Placed(w, i * w + n, i, n) /\ Placed(w, ii * w + n, ii, n)
  BY <1>3, PlaceOf
<1>9. i * w + n = j * (2 * w) + n /\ ii * w + n = j * (2 * w) + n + w
  <2>1. (2 * j) * w = j * (2 * w) /\ (2 * j + 1) * w = j * (2 * w) + w
    OBVIOUS
  <2> QED
    BY <1>5, <1>6, <2>1
<1>10. j * o + n = j * (2 * w) + n /\ j * o + nw = j * (2 * w) + n + w
  BY <1>1, <1>4
<1> QED
  BY <1>1, <1>4, <1>5, <1>6, <1>7, <1>8, <1>9, <1>10

LEMMA Parts ==
  ASSUME NEW w \in Nat \ {0}, NEW c \in Nat \ {0}, Size = c * w
  PROVE  Size \div w = c
<1>1. 0 \in 0 .. w - 1
  OBVIOUS
<1> DEFINE d == Size \div w  r == Size % w
<1>2. Size \in Int
  OBVIOUS
<1>3. d \in Int /\ r \in 0 .. w - 1 /\ Size = w * d + r
  BY <1>2, Division
<1>4. w * c + 0 = Size
  OBVIOUS
<1> HIDE DEF d, r
<1>5. w * c + 0 = w * d + r
  BY <1>3, <1>4
<1>6. c = d
  <2>1. PICK z \in 0 .. w - 1 : z = 0
    BY <1>1
  <2>2. w \in Nat \ {0} /\ c \in Int /\ w * c + z = w * d + r
    BY <1>5, <2>1
  <2> QED
    BY ONLY <1>3, <2>2, z \in 0 .. w - 1, DivisionUnique
<1> QED
  BY <1>6 DEF d

-----------------------------------------------------------------------------
(* One layer of a transform: block j of c has twice w coefficients.        *)

Twiddle(m, g, h, j) == PowerMod(g, Reversed(h, j), m)

SplitAt(m, z, w, x, y, i) ==
  /\ Mod(m, y[i]) = Mod(m, x[i] + z * x[i + w])
  /\ Mod(m, y[i + w]) = Mod(m, x[i] - z * x[i + w])

Splits(m, g, h, c, w, x, y) ==
  \A j \in 0 .. c - 1, n \in 0 .. w - 1 :
    SplitAt(m, Twiddle(m, g, h, c + j), w, x, y, j * (2 * w) + n)

(* The degrees: c blocks of 2 * w coefficients, with nodes below h.        *)
Layer(h, c, w) ==
  /\ w \in Nat \ {0} /\ c \in Nat \ {0} /\ Size = c * (2 * w) /\ 2 * c <= h

LEMMA FoldedSplits ==
  ASSUME NEW m, NEW g, NEW h, Ring(m, g, h), NEW w, NEW c, Layer(h, c, w),
         NEW p \in [Coeffs -> Int]
  PROVE  Splits(m, g, h, c, w, Folded(m, g, h, 2 * w, p), Folded(m, g, h, w, p))
<1>1. /\ m \in Nat \ {0} /\ g \in Int /\ h \in Orders /\ h \in Nat
      /\ w \in Nat \ {0} /\ c \in Nat \ {0} /\ Size = c * (2 * w) /\ 2 * c <= h
  BY RingTypes DEF Layer
<1>2. Size \div w = 2 * c /\ Size \div (2 * w) = c
  <2>1. PICK o \in Nat \ {0} : o = 2 * w
    BY <1>1
  <2>2. PICK u \in Nat \ {0} : u = 2 * c
    BY <1>1
  <2>3. Size = c * o /\ Size = u * w
    <3>1. c * (2 * w) = (2 * c) * w
      BY ONLY <1>1
    <3> QED
      BY <1>1, <2>1, <2>2, <3>1
  <2>4. Size \div o = c /\ Size \div w = u
    BY <1>1, <2>3, Parts
  <2> QED
    BY <2>1, <2>2, <2>4
<1> SUFFICES ASSUME NEW j \in 0 .. c - 1, NEW n \in 0 .. w - 1
             PROVE  SplitAt(m, Twiddle(m, g, h, c + j), w, Folded(m, g, h, 2 * w, p),
                            Folded(m, g, h, w, p), j * (2 * w) + n)
  BY DEF Splits
<1> DEFINE i == j * (2 * w) + n  node == c + j  e == Reversed(h, node)  z == PowerMod(g, e, m)
           P == FoldedAt(m, g, 2 * e, 2 * w, c, p, n)
           Q == FoldedAt(m, g, 2 * e, 2 * w, c, p, n + w)
           zz == PowerMod(g, e + h, m)
<1>3. node \in 1 .. h - 1
  BY <1>1
<1>4. /\ e \in Nat /\ Exponent(h, node) = 2 * e /\ Exponent(h, 2 * node) = e
      /\ Exponent(h, 2 * node + 1) = e + h
  BY <1>1, <1>3, ExponentOfChildren
<1>5. /\ Placed(w, i, 2 * j, n) /\ Placed(w, i + w, 2 * j + 1, n)
      /\ Placed(2 * w, i, j, n) /\ Placed(2 * w, i + w, j, n + w)
  BY <1>1, Places
<1>6. 2 * c + 2 * j = 2 * node /\ 2 * c + (2 * j + 1) = 2 * node + 1
  BY <1>1
<1>7. /\ Folded(m, g, h, 2 * w, p)[i] = P
      /\ Folded(m, g, h, 2 * w, p)[i + w] = Q
      /\ Folded(m, g, h, w, p)[i] = FoldedAt(m, g, e, w, 2 * c, p, n)
      /\ Folded(m, g, h, w, p)[i + w] = FoldedAt(m, g, e + h, w, 2 * c, p, n)
  <2> HIDE DEF i, node, e
  <2> QED
    BY <1>2, <1>4, <1>5, <1>6 DEF Folded, Placed, node
<1>8. P \in Int /\ Q \in Int /\ z \in Int /\ zz \in Int
  <2>1. PICK o \in Nat \ {0} : o = 2 * w
    BY <1>1
  <2>2. PICK f \in Nat : f = 2 * e
    BY <1>4
  <2>3. PICK nw \in 0 .. o - 1 : nw = n + w
    BY <1>1, <2>1
  <2>4. n \in 0 .. o - 1 /\ Size = c * o /\ c \in Nat
    BY <1>1, <2>1
  <2>5. FoldedTermsRight(m, g, f, o, c, p, n) /\ FoldedTermsRight(m, g, f, o, c, p, nw)
    BY <1>1, <2>4, FoldedTermsType
  <2>6. z \in Int /\ zz \in Int
    <3>1. e + h \in Nat
      BY <1>1, <1>4
    <3> QED
      BY <1>1, <1>4, <3>1, PowerSteps
  <2> QED
    BY <2>1, <2>2, <2>3, <2>5, <2>6 DEF FoldedTermsRight
<1>9. Mod(m, FoldedAt(m, g, e, w, 2 * c, p, n)) = Mod(m, P + z * Q)
  <2>1. e \in Nat /\ 0 \in Nat /\ c \in Nat
    BY <1>1, <1>4
  <2> HIDE DEF e
  <2>2. PICK f \in Nat : f = 2 * e
    BY <2>1
  <2>3. Doubles(h, e, f, 0)
    BY <1>1, <2>1, <2>2 DEF Doubles
  <2>4. FoldsInto(m, g, e, f, w, c, p, n)
    BY <1>1, <2>1, <2>3, FoldedHalves
  <2> QED
    BY <2>2, <2>4 DEF FoldsInto
<1>10. Mod(m, FoldedAt(m, g, e + h, w, 2 * c, p, n)) = Mod(m, P + zz * Q)
  <2>1. e \in Nat /\ 1 \in Nat /\ c \in Nat
    BY <1>1, <1>4
  <2> HIDE DEF e
  <2>2. PICK f \in Nat : f = 2 * e
    BY <2>1
  <2>3. PICK d \in Nat : d = e + h
    BY <1>1, <2>1
  <2>4. Doubles(h, d, f, 1)
    BY <1>1, <2>1, <2>2, <2>3 DEF Doubles
  <2>5. FoldsInto(m, g, d, f, w, c, p, n)
    BY <1>1, <2>1, <2>4, FoldedHalves
  <2> QED
    BY <2>2, <2>3, <2>5 DEF FoldsInto
<1>11. Mod(m, P + zz * Q) = Mod(m, P - z * Q)
  <2>1. Mod(m, zz) = Mod(m, -z)
    BY <1>4, HalfTurn
  <2>2. m \in Nat \ {0} /\ P \in Int /\ Q \in Int /\ zz \in Int /\ -z \in Int
    BY <1>1, <1>8
  <2>3. PICK y \in Int : y = -z
    BY <2>2
  <2> HIDE DEF P, Q, z, zz
  <2>4. Mod(m, P + zz * Q) = Mod(m, P + y * Q)
    <3>1. Mod(m, zz) = Mod(m, y)
      BY <2>1, <2>3
    <3>2. SameLines(m, P, zz, y, Q)
      BY ONLY <2>2, <3>1, y \in Int, ModSlope
    <3> QED
      BY <3>2 DEF SameLines
  <2>5. P + y * Q = P - z * Q
    BY ONLY <1>8, <2>3
  <2> QED
    BY <2>4, <2>5
<1> HIDE DEF i, node, z, zz, P, Q
<1> QED
  BY <1>7, <1>9, <1>10, <1>11 DEF SplitAt, Twiddle, node, z, i

(* Term u of a coefficient of a product modulo X^w - s: the two halves of  *)
(* the factors modulo X^(2w) - s^2 come together.                          *)
LowTerm(m, s, r, p, pp, c, cc, x, y) ==
  Mod(m, (p * c + pp * (r * cc)) + s * (p * cc + pp * c)) = Mod(m, x * y)
HighTerm(m, s, r, p, pp, c, cc, x, y) ==
  Mod(m, (p * (r * cc) + pp * (r * c)) + s * (p * c + pp * (r * cc))) = Mod(m, x * (s * y))

LEMMA HalfTerms ==
  ASSUME NEW m \in Nat \ {0}, NEW s \in Int, NEW r \in Int, Mod(m, r) = Mod(m, s * s),
         NEW p \in Int, NEW pp \in Int, NEW c \in Int, NEW cc \in Int,
         NEW x \in Int, Mod(m, x) = Mod(m, p + s * pp),
         NEW y \in Int, Mod(m, y) = Mod(m, c + s * cc)
  PROVE  LowTerm(m, s, r, p, pp, c, cc, x, y) /\ HighTerm(m, s, r, p, pp, c, cc, x, y)
<1>1. PICK t \in Int : t = s * s
  OBVIOUS
<1>2. PICK u \in Int : u = p + s * pp
  OBVIOUS
<1>3. PICK v \in Int : v = c + s * cc
  OBVIOUS
<1>4. Mod(m, r) = Mod(m, t) /\ Mod(m, x) = Mod(m, u) /\ Mod(m, y) = Mod(m, v)
  BY <1>1, <1>2, <1>3
<1>5. Mod(m, x * y) = Mod(m, u * v)
  BY ONLY <1>4, m \in Nat \ {0}, x \in Int, y \in Int, u \in Int, v \in Int, ModMul
<1>6. Mod(m, x * (s * y)) = Mod(m, u * (s * v))
  <2>1. PICK d \in Int : d = s * y
    OBVIOUS
  <2>2. PICK e \in Int : e = s * v
    OBVIOUS
  <2>3. Mod(m, d) = Mod(m, e)
    <3>1. Mod(m, s * y) = Mod(m, s * v)
      <4>1. PICK z \in Int : z = s
        OBVIOUS
      <4>2. Mod(m, s) = Mod(m, z) /\ Mod(m, y) = Mod(m, v)
        BY <1>4, <4>1
      <4>3. Mod(m, s * y) = Mod(m, z * v)
        BY ONLY <4>2, m \in Nat \ {0}, s \in Int, y \in Int, z \in Int, v \in Int, ModMul
      <4> QED
        BY <4>1, <4>3
    <3> QED
      BY <2>1, <2>2, <3>1
  <2>4. Mod(m, x * d) = Mod(m, u * e)
    BY ONLY <1>4, <2>3, m \in Nat \ {0}, x \in Int, u \in Int, d \in Int, e \in Int, ModMul
  <2> QED
    BY <2>1, <2>2, <2>4
<1>7. Mod(m, (p * c + pp * (r * cc)) + s * (p * cc + pp * c)) = Mod(m, u * v)
  <2>1. PICK a0 \in Int : a0 = p * c + s * (p * cc + pp * c)
    OBVIOUS
  <2>2. PICK b \in Int : b = pp * cc
    OBVIOUS
  <2>3. SameLines(m, a0, r, t, b)
    BY ONLY <1>4, m \in Nat \ {0}, a0 \in Int, b \in Int, r \in Int, t \in Int, ModSlope
  <2>4. (p * c + pp * (r * cc)) + s * (p * cc + pp * c) = a0 + r * b
    BY ONLY <2>1, <2>2, p \in Int, pp \in Int, c \in Int, cc \in Int, r \in Int, s \in Int
  <2>5. u * v = a0 + t * b
    BY ONLY <1>1, <1>2, <1>3, <2>1, <2>2, p \in Int, pp \in Int, c \in Int, cc \in Int, s \in Int
  <2> QED
    BY <2>3, <2>4, <2>5 DEF SameLines
<1>8. Mod(m, (p * (r * cc) + pp * (r * c)) + s * (p * c + pp * (r * cc))) = Mod(m, u * (s * v))
  <2>1. PICK a0 \in Int : a0 = s * (p * c)
    OBVIOUS
  <2>2. PICK b \in Int : b = (p * cc + pp * c) + s * (pp * cc)
    OBVIOUS
  <2>3. SameLines(m, a0, r, t, b)
    BY ONLY <1>4, m \in Nat \ {0}, a0 \in Int, b \in Int, r \in Int, t \in Int, ModSlope
  <2>4. (p * (r * cc) + pp * (r * c)) + s * (p * c + pp * (r * cc)) = a0 + r * b
    BY ONLY <2>1, <2>2, p \in Int, pp \in Int, c \in Int, cc \in Int, r \in Int, s \in Int
  <2>5. u * (s * v) = a0 + t * b
    BY ONLY <1>1, <1>2, <1>3, <2>1, <2>2, p \in Int, pp \in Int, c \in Int, cc \in Int, s \in Int
  <2> QED
    BY <2>3, <2>4, <2>5 DEF SameLines
<1> QED
  BY <1>5, <1>6, <1>7, <1>8 DEF LowTerm, HighTerm

-----------------------------------------------------------------------------
(* A product modulo X^w - r.                                               *)

BlockTerms(r, w, x, y, n) ==
  [u \in 0 .. w - 1 |-> x[u] * (IF u <= n THEN y[n - u] ELSE r * y[n - u + w])]

BlockAt(r, w, x, y, n) == SumBelow(BlockTerms(r, w, x, y, n), w)

Halved(m, s, w, x, u) == \A n \in 0 .. w - 1 : Mod(m, u[n]) = Mod(m, x[n] + s * x[n + w])

BlockTermsRight(r, w, x, y, n) ==
  /\ BlockTerms(r, w, x, y, n) \in [0 .. w - 1 -> Int]
  /\ BlockAt(r, w, x, y, n) \in Int

LEMMA BlockTermsType ==
  ASSUME NEW r \in Int, NEW w \in Nat \ {0}, NEW x \in [0 .. w - 1 -> Int],
         NEW y \in [0 .. w - 1 -> Int], NEW n \in 0 .. w - 1
  PROVE  BlockTermsRight(r, w, x, y, n)
<1> DEFINE f == BlockTerms(r, w, x, y, n)
<1>1. \A u \in 0 .. w - 1 : x[u] * (IF u <= n THEN y[n - u] ELSE r * y[n - u + w]) \in Int
  <2> SUFFICES ASSUME NEW u \in 0 .. w - 1
               PROVE  x[u] * (IF u <= n THEN y[n - u] ELSE r * y[n - u + w]) \in Int
    OBVIOUS
  <2> DEFINE v == IF u <= n THEN y[n - u] ELSE r * y[n - u + w]
  <2>1. x[u] \in Int
    OBVIOUS
  <2>2. v \in Int
    <3>1. CASE u <= n
      <4>1. n - u \in 0 .. w - 1
        BY <3>1
      <4> QED
        BY <3>1, <4>1
    <3>2. CASE ~(u <= n)
      <4>1. n - u + w \in 0 .. w - 1
        BY <3>2
      <4>2. y[n - u + w] \in Int
        BY <4>1
      <4> QED
        BY <3>2, <4>2
    <3> QED
      BY <3>1, <3>2
  <2> HIDE DEF v
  <2>3. x[u] * v \in Int
    BY <2>1, <2>2
  <2> QED
    BY <2>3 DEF v
<1>2. f \in [0 .. w - 1 -> Int]
  BY <1>1 DEF BlockTerms
<1> HIDE DEF f
<1>3. SumBelow(f, w) \in Int
  BY <1>2, PartialSums
<1> QED
  BY <1>2, <1>3 DEF f, BlockTermsRight, BlockAt

HalfBlock(m, s, r, w, x, y, u, v, n) ==
  Mod(m, BlockAt(s, w, u, v, n))
  = Mod(m, BlockAt(r, 2 * w, x, y, n) + s * BlockAt(r, 2 * w, x, y, n + w))

LEMMA HalfProduct ==
  ASSUME NEW m \in Nat \ {0}, NEW s \in Int, NEW r \in Int, Mod(m, r) = Mod(m, s * s),
         NEW w \in Nat \ {0},
         NEW x \in [0 .. 2 * w - 1 -> Int], NEW y \in [0 .. 2 * w - 1 -> Int],
         NEW u \in [0 .. w - 1 -> Int], NEW v \in [0 .. w - 1 -> Int],
         Halved(m, s, w, x, u), Halved(m, s, w, y, v), NEW n \in 0 .. w - 1
  PROVE  HalfBlock(m, s, r, w, x, y, u, v, n)
<1> DEFINE F == BlockTerms(r, 2 * w, x, y, n)
           G == BlockTerms(r, 2 * w, x, y, n + w)
           H == BlockTerms(s, w, u, v, n)
<1>1. PICK o \in Nat \ {0} : o = 2 * w
  OBVIOUS
<1>2. F \in [0 .. o - 1 -> Int] /\ G \in [0 .. o - 1 -> Int] /\ H \in [0 .. w - 1 -> Int]
  <2>1. PICK nw \in 0 .. o - 1 : nw = n + w
    BY <1>1
  <2>2. n \in 0 .. o - 1 /\ x \in [0 .. o - 1 -> Int] /\ y \in [0 .. o - 1 -> Int]
    <3>1. n \in 0 .. o - 1
      BY ONLY <1>1, n \in 0 .. w - 1, w \in Nat \ {0}
    <3>2. x \in [0 .. o - 1 -> Int] /\ y \in [0 .. o - 1 -> Int]
      BY ONLY <1>1, x \in [0 .. 2 * w - 1 -> Int], y \in [0 .. 2 * w - 1 -> Int]
    <3> QED
      BY ONLY <3>1, <3>2
  <2>3. BlockTermsRight(r, o, x, y, n) /\ BlockTermsRight(r, o, x, y, nw)
    BY ONLY <2>2, r \in Int, o \in Nat \ {0}, nw \in 0 .. o - 1, BlockTermsType
  <2>4. BlockTermsRight(s, w, u, v, n)
    BY BlockTermsType
  <2> QED
    BY <1>1, <2>1, <2>3, <2>4 DEF BlockTermsRight
<1>3. ASSUME NEW j \in 0 .. w - 1
      PROVE  Mod(m, (F[j] + F[j + w]) + s * (G[j] + G[j + w])) = Mod(m, H[j])
  <2>1. /\ F[j] = x[j] * (IF j <= n THEN y[n - j] ELSE r * y[n - j + 2 * w])
        /\ F[j + w] = x[j + w] * (IF j + w <= n THEN y[n - (j + w)] ELSE r * y[n - (j + w) + 2 * w])
        /\ G[j] = x[j] * (IF j <= n + w THEN y[n + w - j] ELSE r * y[n + w - j + 2 * w])
        /\ G[j + w] = x[j + w] * (IF j + w <= n + w THEN y[n + w - (j + w)]
                                                    ELSE r * y[n + w - (j + w) + 2 * w])
        /\ H[j] = u[j] * (IF j <= n THEN v[n - j] ELSE s * v[n - j + w])
    <3>1. j \in 0 .. 2 * w - 1 /\ j + w \in 0 .. 2 * w - 1
      OBVIOUS
    <3> QED
      BY <3>1 DEF BlockTerms
  <2>2. ~(j + w <= n) /\ j <= n + w /\ n - (j + w) + 2 * w = n - j + w /\ n + w - j = n - j + w
        /\ n + w - (j + w) = n - j /\ n + w - (j + w) + 2 * w = n - j + 2 * w
        /\ (j + w <= n + w <=> j <= n)
    OBVIOUS
  <2>3. x[j] \in Int /\ x[j + w] \in Int /\ u[j] \in Int /\ Mod(m, u[j]) = Mod(m, x[j] + s * x[j + w])
    <3>1. j \in 0 .. 2 * w - 1 /\ j + w \in 0 .. 2 * w - 1
      OBVIOUS
    <3> QED
      BY <3>1 DEF Halved
  <2> HIDE DEF F, G, H
  <2>4. CASE j <= n
    <3>1. PICK d \in 0 .. w - 1 : d = n - j
      BY <2>4
    <3>2. y[d] \in Int /\ y[d + w] \in Int /\ v[d] \in Int /\ Mod(m, v[d]) = Mod(m, y[d] + s * y[d + w])
      <4>1. d \in 0 .. 2 * w - 1 /\ d + w \in 0 .. 2 * w - 1
        OBVIOUS
      <4> QED
        BY <4>1 DEF Halved
    <3>3. LowTerm(m, s, r, x[j], x[j + w], y[d], y[d + w], u[j], v[d])
      <4>1. PICK p \in Int, pp \in Int, c \in Int, cc \in Int, e \in Int, f \in Int :
              p = x[j] /\ pp = x[j + w] /\ c = y[d] /\ cc = y[d + w] /\ e = u[j] /\ f = v[d]
        BY <2>3, <3>2
      <4>2. Mod(m, e) = Mod(m, p + s * pp) /\ Mod(m, f) = Mod(m, c + s * cc) /\ Mod(m, r) = Mod(m, s * s)
        BY <2>3, <3>2, <4>1
      <4>3. LowTerm(m, s, r, p, pp, c, cc, e, f)
        BY ONLY <4>2, m \in Nat \ {0}, s \in Int, r \in Int, p \in Int, pp \in Int, c \in Int,
                cc \in Int, e \in Int, f \in Int, HalfTerms
      <4> QED
        BY <4>1, <4>3
    <3>4. /\ F[j] = x[j] * y[d] /\ F[j + w] = x[j + w] * (r * y[d + w])
          /\ G[j] = x[j] * y[d + w] /\ G[j + w] = x[j + w] * y[d] /\ H[j] = u[j] * v[d]
      BY <2>1, <2>2, <2>4, <3>1
    <3> QED
      BY <3>3, <3>4 DEF LowTerm
  <2>5. CASE ~(j <= n)
    <3>1. PICK d \in 0 .. w - 1 : d = n - j + w
      BY <2>5
    <3>2. y[d] \in Int /\ y[d + w] \in Int /\ v[d] \in Int /\ Mod(m, v[d]) = Mod(m, y[d] + s * y[d + w])
      <4>1. d \in 0 .. 2 * w - 1 /\ d + w \in 0 .. 2 * w - 1
        OBVIOUS
      <4> QED
        BY <4>1 DEF Halved
    <3>3. HighTerm(m, s, r, x[j], x[j + w], y[d], y[d + w], u[j], v[d])
      <4>1. PICK p \in Int, pp \in Int, c \in Int, cc \in Int, e \in Int, f \in Int :
              p = x[j] /\ pp = x[j + w] /\ c = y[d] /\ cc = y[d + w] /\ e = u[j] /\ f = v[d]
        BY <2>3, <3>2
      <4>2. Mod(m, e) = Mod(m, p + s * pp) /\ Mod(m, f) = Mod(m, c + s * cc) /\ Mod(m, r) = Mod(m, s * s)
        BY <2>3, <3>2, <4>1
      <4>3. HighTerm(m, s, r, p, pp, c, cc, e, f)
        BY ONLY <4>2, m \in Nat \ {0}, s \in Int, r \in Int, p \in Int, pp \in Int, c \in Int,
                cc \in Int, e \in Int, f \in Int, HalfTerms
      <4> QED
        BY <4>1, <4>3
    <3>4. n - j + 2 * w = d + w
      BY <3>1
    <3>5. /\ F[j] = x[j] * (r * y[d + w]) /\ F[j + w] = x[j + w] * (r * y[d])
          /\ G[j] = x[j] * y[d] /\ G[j + w] = x[j + w] * (r * y[d + w]) /\ H[j] = u[j] * (s * v[d])
      BY <2>1, <2>2, <2>5, <3>1, <3>4
    <3> QED
      BY <3>3, <3>5 DEF HighTerm
  <2> QED
    BY <2>4, <2>5
<1> HIDE DEF F, G, H
<1>4. TermHalves(m, w, s, F, G, H)
  BY <1>3 DEF TermHalves
<1>5. HalfSums(m, w, o, s, F, G, H)
  BY ONLY <1>1, <1>2, <1>4, m \in Nat \ {0}, w \in Nat, o \in Nat, s \in Int, SumOfHalves
<1> QED
  BY <1>1, <1>5 DEF HalfSums, HalfBlock, BlockAt, F, G, H

(* The roots of the two halves of a node: opposite, and their squares are  *)
(* the node's.                                                             *)
RootOf(m, g, h, c) == PowerMod(g, Exponent(h, c), m)

Twin(m, z, zz, x, y) == Mod(m, x + zz * y) = Mod(m, x - z * y)

LEMMA Twins ==
  ASSUME NEW m \in Nat \ {0}, NEW z \in Int, NEW zz \in Int, Mod(m, zz) = Mod(m, -z),
         NEW x \in Int, NEW y \in Int
  PROVE  Twin(m, z, zz, x, y)
<1>1. PICK u \in Int : u = -z
  OBVIOUS
<1>2. Mod(m, zz) = Mod(m, u)
  BY <1>1
<1>3. SameLines(m, x, zz, u, y)
  BY ONLY <1>2, m \in Nat \ {0}, x \in Int, y \in Int, zz \in Int, u \in Int, ModSlope
<1>4. x + u * y = x - z * y
  BY ONLY <1>1, x \in Int, y \in Int, z \in Int
<1> QED
  BY <1>3, <1>4 DEF SameLines, Twin

LEMMA NodeRoots ==
  ASSUME NEW m, NEW g, NEW h, Ring(m, g, h), NEW c \in 1 .. h - 1
  PROVE  /\ Twiddle(m, g, h, c) \in Int
         /\ RootOf(m, g, h, c) \in Int
         /\ RootOf(m, g, h, 2 * c) = Twiddle(m, g, h, c)
         /\ RootOf(m, g, h, 2 * c + 1) \in Int
         /\ Mod(m, RootOf(m, g, h, 2 * c + 1)) = Mod(m, -Twiddle(m, g, h, c))
         /\ Mod(m, RootOf(m, g, h, c)) = Mod(m, Twiddle(m, g, h, c) * Twiddle(m, g, h, c))
         /\ Mod(m, RootOf(m, g, h, c))
              = Mod(m, RootOf(m, g, h, 2 * c + 1) * RootOf(m, g, h, 2 * c + 1))
<1>1. m \in Nat \ {0} /\ g \in Int /\ h \in Orders /\ h \in Nat
  BY RingTypes
<1>2. PICK e \in Nat : e = Reversed(h, c)
  BY <1>1, ExponentOfChildren
<1>3. Exponent(h, c) = 2 * e /\ Exponent(h, 2 * c) = e /\ Exponent(h, 2 * c + 1) = e + h
  BY <1>1, <1>2, ExponentOfChildren
<1>4. 2 * e \in Nat /\ e + h \in Nat
  BY <1>1
<1>5. /\ PowerMod(g, e, m) \in Int /\ PowerMod(g, 2 * e, m) \in Int /\ PowerMod(g, e + h, m) \in Int
  BY <1>1, <1>4, PowerSteps
<1>6. Mod(m, PowerMod(g, e + h, m)) = Mod(m, -PowerMod(g, e, m))
  BY HalfTurn
<1>7. Mod(m, PowerMod(g, e + e, m)) = Mod(m, PowerMod(g, e, m) * PowerMod(g, e, m))
  BY <1>1, PowerOfSum
<1>8. Mod(m, PowerMod(g, 2 * e, m)) = Mod(m, PowerMod(g, e + h, m) * PowerMod(g, e + h, m))
  <2>1. PICK d \in Nat : d = e + h
    BY <1>4
  <2>2. Mod(m, PowerMod(g, d + d, m)) = Mod(m, PowerMod(g, d, m) * PowerMod(g, d, m))
    BY <1>1, PowerOfSum
  <2>3. PICK f \in Nat : f = 2 * e
    BY <1>4
  <2>4. d + d = f + 2 * (h * 1)
    BY <1>1, <2>1, <2>3
  <2>5. Mod(m, PowerMod(g, f + 2 * (h * 1), m)) = Mod(m, PowerMod(g, f, m))
    <3>1. PICK b \in Nat : b = 1
      OBVIOUS
    <3>2. Mod(m, PowerMod(g, f + 2 * (h * b), m)) = Mod(m, PowerMod(g, f, m))
      BY Turns
    <3> QED
      BY <3>1, <3>2
  <2> QED
    BY <2>1, <2>2, <2>3, <2>4, <2>5
<1>9. e + e = 2 * e
  OBVIOUS
<1> QED
  BY <1>2, <1>3, <1>5, <1>6, <1>7, <1>8, <1>9 DEF Twiddle, RootOf

-----------------------------------------------------------------------------
(* The products of the blocks of two polynomials.                          *)

Slice(x, b, w) == [n \in 0 .. w - 1 |-> x[b + n]]

BlockOf(m, g, h, w, x, y, c, j, n) ==
  BlockAt(RootOf(m, g, h, c + j), w, Slice(x, j * w, w), Slice(y, j * w, w), n)

Blocks(m, g, h, w, x, y) ==
  [i \in Coeffs |-> BlockOf(m, g, h, w, x, y, Size \div w, i \div w, i % w)]

LEMMA SliceType ==
  ASSUME NEW w \in Nat \ {0}, NEW c \in Nat \ {0}, Size = c * w, NEW j \in 0 .. c - 1,
         NEW x \in [Coeffs -> Int]
  PROVE  Slice(x, j * w, w) \in [0 .. w - 1 -> Int]
<1>1. \A n \in 0 .. w - 1 : j * w + n \in Coeffs
  BY PlaceOf DEF Placed
<1> QED
  BY <1>1 DEF Slice

LEMMA LayerParts ==
  ASSUME NEW h \in Int, NEW w, NEW c, Layer(h, c, w)
  PROVE  /\ w \in Nat \ {0} /\ c \in Nat \ {0} /\ Size = c * (2 * w) /\ Size = (2 * c) * w
         /\ 2 * c \in Nat \ {0} /\ 2 * w \in Nat \ {0}
         /\ Size \div w = 2 * c /\ Size \div (2 * w) = c
<1>1. w \in Nat \ {0} /\ c \in Nat \ {0} /\ Size = c * (2 * w)
  BY DEF Layer
<1>2. c * (2 * w) = (2 * c) * w
  BY ONLY <1>1
<1>3. PICK o \in Nat \ {0} : o = 2 * w
  BY <1>1
<1>4. PICK u \in Nat \ {0} : u = 2 * c
  BY <1>1
<1>5. Size = c * o /\ Size = u * w
  BY <1>1, <1>2, <1>3, <1>4
<1>6. Size \div o = c /\ Size \div w = u
  BY <1>1, <1>5, Parts
<1> QED
  BY <1>1, <1>2, <1>3, <1>4, <1>6

LEMMA BlocksType ==
  ASSUME NEW m, NEW g, NEW h, Ring(m, g, h), NEW w \in Nat \ {0}, NEW c \in Nat \ {0}, Size = c * w,
         NEW j \in 0 .. c - 1, NEW n \in 0 .. w - 1, RootOf(m, g, h, c + j) \in Int,
         NEW x \in [Coeffs -> Int], NEW y \in [Coeffs -> Int]
  PROVE  BlockOf(m, g, h, w, x, y, c, j, n) \in Int
<1>1. Slice(x, j * w, w) \in [0 .. w - 1 -> Int] /\ Slice(y, j * w, w) \in [0 .. w - 1 -> Int]
  BY SliceType
<1> DEFINE r == RootOf(m, g, h, c + j)  p == Slice(x, j * w, w)  s == Slice(y, j * w, w)
<1>2. r \in Int /\ p \in [0 .. w - 1 -> Int] /\ s \in [0 .. w - 1 -> Int]
  BY <1>1
<1> HIDE DEF r, p, s
<1>3. BlockTermsRight(r, w, p, s, n)
  BY ONLY <1>2, w \in Nat \ {0}, n \in 0 .. w - 1, BlockTermsType
<1> QED
  BY <1>3 DEF BlockTermsRight, BlockOf, r, p, s

LEMMA SplitsHalve ==
  ASSUME NEW m, NEW g, NEW h, Ring(m, g, h), NEW w, NEW c, Layer(h, c, w),
         NEW x \in [Coeffs -> Int], NEW u \in [Coeffs -> Int], Splits(m, g, h, c, w, x, u),
         NEW j \in 0 .. c - 1
  PROVE  /\ Halved(m, RootOf(m, g, h, 2 * c + 2 * j), w,
                   Slice(x, j * (2 * w), 2 * w), Slice(u, (2 * j) * w, w))
         /\ Halved(m, RootOf(m, g, h, 2 * c + (2 * j + 1)), w,
                   Slice(x, j * (2 * w), 2 * w), Slice(u, (2 * j + 1) * w, w))
<1>1. /\ m \in Nat \ {0} /\ g \in Int /\ h \in Orders /\ h \in Nat
      /\ w \in Nat \ {0} /\ c \in Nat \ {0} /\ Size = c * (2 * w) /\ 2 * c <= h
  BY RingTypes DEF Layer
<1>2. PICK node \in 1 .. h - 1 : node = c + j
  BY <1>1
<1>3. PICK z \in Int, zz \in Int :
        /\ z = Twiddle(m, g, h, node) /\ z = RootOf(m, g, h, 2 * c + 2 * j)
        /\ zz = RootOf(m, g, h, 2 * c + (2 * j + 1))
        /\ Mod(m, zz) = Mod(m, -z)
  <2>1. 2 * c + 2 * j = 2 * node /\ 2 * c + (2 * j + 1) = 2 * node + 1
    BY <1>1, <1>2
  <2> QED
    BY <2>1, NodeRoots
<1>4. ASSUME NEW n \in 0 .. w - 1
      PROVE  /\ Mod(m, u[(2 * j) * w + n]) = Mod(m, x[j * (2 * w) + n] + z * x[j * (2 * w) + (n + w)])
             /\ Mod(m, u[(2 * j + 1) * w + n]) = Mod(m, x[j * (2 * w) + n] + zz * x[j * (2 * w) + (n + w)])
  <2>1. PICK i \in Int : i = j * (2 * w) + n
    BY <1>1
  <2>2. (2 * j) * w + n = i /\ (2 * j + 1) * w + n = i + w /\ j * (2 * w) + (n + w) = i + w
    BY ONLY <1>1, <2>1, j \in 0 .. c - 1, n \in 0 .. w - 1, i \in Int
  <2>3. SplitAt(m, z, w, x, u, i)
    BY <1>2, <1>3, <2>1 DEF Splits
  <2>4. x[i] \in Int /\ x[i + w] \in Int
    <3>1. Placed(w, i, 2 * j, n) /\ Placed(w, i + w, 2 * j + 1, n)
      BY <1>1, <2>1, Places
    <3> QED
      BY <3>1 DEF Placed
  <2>5. PICK b \in Int, d \in Int : b = x[i] /\ d = x[i + w]
    BY <2>4
  <2>6. Twin(m, z, zz, b, d)
    <3>1. m \in Nat \ {0} /\ Mod(m, zz) = Mod(m, -z)
      BY <1>1, <1>3
    <3> QED
      BY ONLY <3>1, z \in Int, zz \in Int, b \in Int, d \in Int, Twins
  <2> QED
    BY <2>1, <2>2, <2>3, <2>5, <2>6 DEF SplitAt, Twin
<1>5. ASSUME NEW n \in 0 .. w - 1
      PROVE  /\ Slice(x, j * (2 * w), 2 * w)[n] = x[j * (2 * w) + n]
             /\ Slice(x, j * (2 * w), 2 * w)[n + w] = x[j * (2 * w) + (n + w)]
             /\ Slice(u, (2 * j) * w, w)[n] = u[(2 * j) * w + n]
             /\ Slice(u, (2 * j + 1) * w, w)[n] = u[(2 * j + 1) * w + n]
  <2>1. n \in 0 .. 2 * w - 1 /\ n + w \in 0 .. 2 * w - 1
    BY <1>1
  <2> QED
    BY <2>1 DEF Slice
<1> QED
  BY <1>3, <1>4, <1>5 DEF Halved

LEMMA ProductSplits ==
  ASSUME NEW m, NEW g, NEW h, Ring(m, g, h), NEW w, NEW c, Layer(h, c, w),
         NEW x \in [Coeffs -> Int], NEW u \in [Coeffs -> Int], Splits(m, g, h, c, w, x, u),
         NEW y \in [Coeffs -> Int], NEW v \in [Coeffs -> Int], Splits(m, g, h, c, w, y, v)
  PROVE  Splits(m, g, h, c, w, Blocks(m, g, h, 2 * w, x, y), Blocks(m, g, h, w, u, v))
<1>1. /\ m \in Nat \ {0} /\ g \in Int /\ h \in Orders /\ h \in Nat
      /\ w \in Nat \ {0} /\ c \in Nat \ {0} /\ Size = c * (2 * w) /\ 2 * c <= h
  BY RingTypes DEF Layer
<1>2. /\ Size = (2 * c) * w /\ 2 * c \in Nat \ {0} /\ 2 * w \in Nat \ {0}
      /\ Size \div w = 2 * c /\ Size \div (2 * w) = c
  BY <1>1, LayerParts
<1> SUFFICES ASSUME NEW j \in 0 .. c - 1, NEW n \in 0 .. w - 1
             PROVE  SplitAt(m, Twiddle(m, g, h, c + j), w, Blocks(m, g, h, 2 * w, x, y),
                            Blocks(m, g, h, w, u, v), j * (2 * w) + n)
  BY DEF Splits
<1>3. PICK node \in 1 .. h - 1 : node = c + j
  BY <1>1
<1>4. PICK z \in Int, zz \in Int, r \in Int :
        /\ z = Twiddle(m, g, h, node) /\ z = RootOf(m, g, h, 2 * c + 2 * j)
        /\ zz = RootOf(m, g, h, 2 * c + (2 * j + 1))
        /\ r = RootOf(m, g, h, node)
        /\ Mod(m, zz) = Mod(m, -z) /\ Mod(m, r) = Mod(m, z * z) /\ Mod(m, r) = Mod(m, zz * zz)
  <2>1. 2 * c + 2 * j = 2 * node /\ 2 * c + (2 * j + 1) = 2 * node + 1
    BY <1>1, <1>3
  <2> QED
    BY <2>1, NodeRoots
<1>5. PICK o \in Nat \ {0} : o = 2 * w
  BY <1>2
<1>6. PICK cc \in Nat \ {0} : cc = 2 * c
  BY <1>2
<1>7. PICK jj \in 0 .. cc - 1 : jj = 2 * j
  BY <1>1, <1>6
<1>8. PICK kk \in 0 .. cc - 1 : kk = 2 * j + 1
  BY <1>1, <1>6
<1> DEFINE i == j * (2 * w) + n
           X == Slice(x, j * o, o)  Y == Slice(y, j * o, o)
           U == Slice(u, jj * w, w)  V == Slice(v, jj * w, w)
           UU == Slice(u, kk * w, w)  VV == Slice(v, kk * w, w)
<1>9. /\ Placed(w, i, jj, n) /\ Placed(w, i + w, kk, n)
      /\ Placed(o, i, j, n) /\ Placed(o, i + w, j, n + w)
  <2>1. /\ Placed(w, i, 2 * j, n) /\ Placed(w, i + w, 2 * j + 1, n)
        /\ Placed(2 * w, i, j, n) /\ Placed(2 * w, i + w, j, n + w)
    BY <1>1, Places
  <2> HIDE DEF i
  <2> QED
    BY <1>5, <1>7, <1>8, <2>1
<1>10. /\ X \in [0 .. 2 * w - 1 -> Int] /\ Y \in [0 .. 2 * w - 1 -> Int]
       /\ U \in [0 .. w - 1 -> Int] /\ V \in [0 .. w - 1 -> Int]
       /\ UU \in [0 .. w - 1 -> Int] /\ VV \in [0 .. w - 1 -> Int]
  <2>1. Size = c * o /\ Size = cc * w
    BY <1>1, <1>2, <1>5, <1>6
  <2>2. X \in [0 .. o - 1 -> Int] /\ Y \in [0 .. o - 1 -> Int]
    BY <1>1, <2>1, SliceType
  <2>3. /\ U \in [0 .. w - 1 -> Int] /\ V \in [0 .. w - 1 -> Int]
        /\ UU \in [0 .. w - 1 -> Int] /\ VV \in [0 .. w - 1 -> Int]
    BY <1>1, <2>1, SliceType
  <2> HIDE DEF X, Y
  <2> QED
    BY <1>5, <2>2, <2>3
<1>11. /\ Halved(m, z, w, X, U) /\ Halved(m, zz, w, X, UU)
       /\ Halved(m, z, w, Y, V) /\ Halved(m, zz, w, Y, VV)
  <2>1. /\ Halved(m, z, w, Slice(x, j * (2 * w), 2 * w), Slice(u, (2 * j) * w, w))
        /\ Halved(m, zz, w, Slice(x, j * (2 * w), 2 * w), Slice(u, (2 * j + 1) * w, w))
    BY <1>4, SplitsHalve
  <2>2. /\ Halved(m, z, w, Slice(y, j * (2 * w), 2 * w), Slice(v, (2 * j) * w, w))
        /\ Halved(m, zz, w, Slice(y, j * (2 * w), 2 * w), Slice(v, (2 * j + 1) * w, w))
    BY <1>4, SplitsHalve
  <2> QED
    BY <1>5, <1>7, <1>8, <2>1, <2>2
<1>12. /\ Blocks(m, g, h, 2 * w, x, y)[i] = BlockAt(r, 2 * w, X, Y, n)
       /\ Blocks(m, g, h, 2 * w, x, y)[i + w] = BlockAt(r, 2 * w, X, Y, n + w)
       /\ Blocks(m, g, h, w, u, v)[i] = BlockAt(z, w, U, V, n)
       /\ Blocks(m, g, h, w, u, v)[i + w] = BlockAt(zz, w, UU, VV, n)
  <2> HIDE DEF i
  <2>1. Size \div w = cc /\ Size \div o = c
    BY <1>2, <1>5, <1>6
  <2>2. /\ RootOf(m, g, h, cc + jj) = z /\ RootOf(m, g, h, cc + kk) = zz /\ RootOf(m, g, h, c + j) = r
    BY <1>3, <1>4, <1>6, <1>7, <1>8
  <2>3. /\ Blocks(m, g, h, o, x, y)[i] = BlockAt(r, o, X, Y, n)
        /\ Blocks(m, g, h, o, x, y)[i + w] = BlockAt(r, o, X, Y, n + w)
    BY <1>9, <2>1, <2>2 DEF Blocks, BlockOf, Placed
  <2>4. /\ Blocks(m, g, h, w, u, v)[i] = BlockAt(z, w, U, V, n)
        /\ Blocks(m, g, h, w, u, v)[i + w] = BlockAt(zz, w, UU, VV, n)
    BY <1>9, <2>1, <2>2 DEF Blocks, BlockOf, Placed
  <2> QED
    BY <1>5, <2>3, <2>4
<1> HIDE DEF X, Y, U, V, UU, VV
<1>13. HalfBlock(m, z, r, w, X, Y, U, V, n) /\ HalfBlock(m, zz, r, w, X, Y, UU, VV, n)
  <2>1. Mod(m, r) = Mod(m, z * z) /\ Mod(m, r) = Mod(m, zz * zz) /\ m \in Nat \ {0} /\ w \in Nat \ {0}
    BY <1>1, <1>4
  <2>2. HalfBlock(m, z, r, w, X, Y, U, V, n)
    BY ONLY <1>10, <1>11, <2>1, z \in Int, r \in Int, n \in 0 .. w - 1, HalfProduct
  <2>3. HalfBlock(m, zz, r, w, X, Y, UU, VV, n)
    BY ONLY <1>10, <1>11, <2>1, zz \in Int, r \in Int, n \in 0 .. w - 1, HalfProduct
  <2> QED
    BY <2>2, <2>3
<1>14. PICK p \in Int, s \in Int : p = BlockAt(r, 2 * w, X, Y, n) /\ s = BlockAt(r, 2 * w, X, Y, n + w)
  <2>1. PICK nw \in 0 .. o - 1 : nw = n + w
    BY <1>1, <1>5
  <2>2. n \in 0 .. o - 1 /\ X \in [0 .. o - 1 -> Int] /\ Y \in [0 .. o - 1 -> Int]
    <3>1. n \in 0 .. o - 1
      BY <1>1, <1>5
    <3>2. X \in [0 .. o - 1 -> Int] /\ Y \in [0 .. o - 1 -> Int]
      BY ONLY <1>5, <1>10
    <3> QED
      BY <3>1, <3>2
  <2>3. BlockTermsRight(r, o, X, Y, n) /\ BlockTermsRight(r, o, X, Y, nw)
    BY ONLY <2>2, r \in Int, o \in Nat \ {0}, nw \in 0 .. o - 1, BlockTermsType
  <2> QED
    BY <1>5, <2>1, <2>3 DEF BlockTermsRight
<1>15. Twin(m, z, zz, p, s)
  <2>1. m \in Nat \ {0} /\ Mod(m, zz) = Mod(m, -z)
    BY <1>1, <1>4
  <2> QED
    BY ONLY <2>1, z \in Int, zz \in Int, p \in Int, s \in Int, Twins
<1> HIDE DEF i
<1> QED
  BY <1>3, <1>4, <1>12, <1>13, <1>14, <1>15 DEF SplitAt, HalfBlock, Twin, i

LEMMA PlaceAt ==
  ASSUME NEW w \in Nat \ {0}, NEW c \in Nat \ {0}, Size = c * w, NEW i \in Coeffs
  PROVE  i \div w \in 0 .. c - 1 /\ i % w \in 0 .. w - 1
<1> DEFINE d == i \div w  r == i % w
<1>1. i \in Int /\ 0 <= i /\ i < Size
  BY DEF Coeffs
<1>2. d \in Int /\ r \in 0 .. w - 1 /\ i = w * d + r
  BY <1>1, Division
<1> HIDE DEF d, r
<1>3. 0 <= d
  <2> SUFFICES ASSUME d <= -1
               PROVE  FALSE
    BY <1>2
  <2>1. w * d <= -w
    BY ONLY <1>2, d <= -1, w \in Nat \ {0}
  <2> QED
    BY <1>1, <1>2, <2>1
<1>4. d <= c - 1
  <2> SUFFICES ASSUME c <= d
               PROVE  FALSE
    BY <1>2
  <2>1. w * c <= w * d
    BY ONLY <1>2, c <= d, w \in Nat \ {0}, c \in Nat \ {0}
  <2>2. w * c = Size
    OBVIOUS
  <2> QED
    BY <1>1, <1>2, <2>1, <2>2
<1> QED
  BY <1>2, <1>3, <1>4 DEF d, r

LEMMA RootType ==
  ASSUME NEW m, NEW g, NEW h, Ring(m, g, h), NEW c \in 1 .. 2 * h - 1
  PROVE  Exponent(h, c) \in Nat /\ RootOf(m, g, h, c) \in Int
<1>1. m \in Nat \ {0} /\ g \in Int /\ h \in Nat \ {0}
  BY RingTypes
<1>2. Exponent(h, c) \in Nat
  <2>1. CASE c = 1
    BY <1>1, <2>1 DEF Exponent
  <2>2. CASE c # 1
    <3>1. PICK d \in Int, b \in Int : d = c \div 2 /\ b = c % 2
      OBVIOUS
    <3>2. d \in 0 .. h - 1 /\ b \in {0, 1}
      BY <1>1, <3>1
    <3>3. Reversed(h, d) \in Nat
      BY <1>1, <3>2, ReversedSteps
    <3>4. b * h \in Nat
      BY <1>1, <3>2
    <3>5. Exponent(h, c) = Reversed(h, d) + b * h
      BY <2>2, <3>1 DEF Exponent
    <3> QED
      BY <3>3, <3>4, <3>5
  <2> QED
    BY <2>1, <2>2
<1> QED
  BY <1>1, <1>2, PowerSteps DEF RootOf

(* Both families of arrays, for any size of the blocks.                    *)
LEMMA FlatTypes ==
  ASSUME NEW m, NEW g, NEW h, Ring(m, g, h), NEW w \in Nat \ {0}, NEW c \in Nat \ {0},
         Size = c * w, c <= h, NEW x \in [Coeffs -> Int], NEW y \in [Coeffs -> Int]
  PROVE  /\ Folded(m, g, h, w, x) \in [Coeffs -> Int]
         /\ Blocks(m, g, h, w, x, y) \in [Coeffs -> Int]
<1>1. m \in Nat \ {0} /\ g \in Int /\ h \in Nat \ {0}
  BY RingTypes
<1>2. Size \div w = c
  BY Parts
<1>3. ASSUME NEW i \in Coeffs
      PROVE  /\ Folded(m, g, h, w, x)[i] \in Int
             /\ Blocks(m, g, h, w, x, y)[i] \in Int
  <2>1. PICK j \in 0 .. c - 1, n \in 0 .. w - 1 : j = i \div w /\ n = i % w
    BY PlaceAt
  <2>2. PICK node \in 1 .. 2 * h - 1 : node = c + j
    BY <1>1
  <2>3. Exponent(h, node) \in Nat /\ RootOf(m, g, h, node) \in Int
    BY RootType
  <2>4. FoldedTermsRight(m, g, Exponent(h, node), w, c, x, n)
    <3>1. PICK e \in Nat : e = Exponent(h, node)
      BY <2>3
    <3>2. FoldedTermsRight(m, g, e, w, c, x, n)
      BY <1>1, FoldedTermsType
    <3> QED
      BY <3>1, <3>2
  <2>5. BlockOf(m, g, h, w, x, y, c, j, n) \in Int
    BY <2>2, <2>3, BlocksType
  <2> QED
    BY <1>2, <2>1, <2>2, <2>4, <2>5 DEF FoldedTermsRight, Folded, Blocks
<1> QED
  BY <1>3 DEF Folded, Blocks

-----------------------------------------------------------------------------
(* With one block                                                          *)

LEMMA OneBlock ==
  ASSUME Size \in Nat \ {0}, NEW i \in Coeffs
  PROVE  Size \div Size = 1 /\ i \div Size = 0 /\ i % Size = i
<1>1. Size \div Size = 1
  BY Parts, Size = 1 * Size
<1>2. 0 \in 0 .. 1 - 1 /\ i \in 0 .. Size - 1 /\ Size = 1 * Size
  BY DEF Coeffs
<1>3. PICK o \in Nat \ {0} : o = 1
  OBVIOUS
<1>4. PICK z \in 0 .. o - 1 : z = 0
  BY <1>3
<1>5. Placed(Size, z * Size + i, z, i)
  BY <1>2, <1>3, PlaceOf
<1>6. z * Size + i = i
  BY <1>2, <1>4
<1> QED
  BY <1>1, <1>4, <1>5, <1>6 DEF Placed

LEMMA FoldedWhole ==
  ASSUME NEW m, NEW g, NEW h, Ring(m, g, h), Size \in Nat \ {0}, NEW p \in [Coeffs -> Int]
  PROVE  Folded(m, g, h, Size, p) = p
<1>1. m \in Nat \ {0} /\ g \in Int /\ h \in Nat \ {0}
  BY RingTypes
<1> SUFFICES ASSUME NEW i \in Coeffs
             PROVE  Folded(m, g, h, Size, p)[i] = p[i]
  BY DEF Folded
<1>2. Size \div Size = 1 /\ i \div Size = 0 /\ i % Size = i
  BY OneBlock
<1> DEFINE f == FoldedTerms(m, g, Exponent(h, 1), Size, 1, p, i)
<1>3. Folded(m, g, h, Size, p)[i] = SumBelow(f, 1)
  BY <1>2 DEF Folded, FoldedAt
<1>4. f \in [0 .. 0 -> Int] /\ f[0] = p[i]
  <2>1. f[0] = p[i + 0 * Size] * PowerMod(g, Exponent(h, 1) * 0, m)
    BY DEF FoldedTerms
  <2>2. i + 0 * Size = i /\ p[i] \in Int
    BY DEF Coeffs
  <2>3. Exponent(h, 1) * 0 = 0
    BY <1>1 DEF Exponent
  <2>4. PowerMod(g, 0, m) = 1
    BY <1>1, PowerSteps
  <2>5. f[0] = p[i]
    BY <2>1, <2>2, <2>3, <2>4
  <2>6. DOMAIN f = 0 .. 0 /\ f = [v \in 0 .. 0 |-> f[v]]
    BY DEF FoldedTerms
  <2> HIDE DEF f
  <2>7. \A v \in 0 .. 0 : f[v] \in Int
    BY <2>2, <2>5
  <2> QED
    BY <2>5, <2>6, <2>7
<1> HIDE DEF f
<1>5. SumBelow(f, 1) = f[0]
  <2>1. PICK o \in Nat : o = 1
    OBVIOUS
  <2>2. f \in [0 .. o - 1 -> Int]
    BY <1>4, <2>1
  <2>3. /\ SumBelow(f, o) = Partials(f, o)[o]
        /\ Partials(f, o)[0] = 0
        /\ \A n \in 0 .. o - 1 : Partials(f, o)[n + 1] = Partials(f, o)[n] + f[n]
    BY <2>2, PartialSums
  <2> QED
    BY <1>4, <2>1, <2>3
<1> QED
  BY <1>3, <1>4, <1>5

ProductTerms(x, y, n) ==
  [i \in Coeffs |-> x[i] * (IF i <= n THEN y[n - i] ELSE -y[n - i + Size])]

LEMMA ProductTermsType ==
  ASSUME Size \in Nat \ {0}, NEW x \in [Coeffs -> Int], NEW y \in [Coeffs -> Int], NEW n \in Coeffs
  PROVE  /\ ProductTerms(x, y, n) \in [Coeffs -> Int]
         /\ Product(x, y)[n] = SumBelow(ProductTerms(x, y, n), Size)
         /\ Product(x, y)[n] \in Int
<1>1. \A i \in Coeffs : x[i] * (IF i <= n THEN y[n - i] ELSE -y[n - i + Size]) \in Int
  <2> SUFFICES ASSUME NEW i \in Coeffs
               PROVE  x[i] * (IF i <= n THEN y[n - i] ELSE -y[n - i + Size]) \in Int
    OBVIOUS
  <2> DEFINE v == IF i <= n THEN y[n - i] ELSE -y[n - i + Size]
  <2>1. x[i] \in Int
    OBVIOUS
  <2>2. v \in Int
    <3>1. CASE i <= n
      <4>1. n - i \in Coeffs
        BY <3>1 DEF Coeffs
      <4> QED
        BY <3>1, <4>1
    <3>2. CASE ~(i <= n)
      <4>1. n - i + Size \in Coeffs
        BY <3>2 DEF Coeffs
      <4>2. y[n - i + Size] \in Int
        BY <4>1
      <4> QED
        BY <3>2, <4>2
    <3> QED
      BY <3>1, <3>2
  <2> HIDE DEF v
  <2>3. x[i] * v \in Int
    BY <2>1, <2>2
  <2> QED
    BY <2>3 DEF v
<1>2. ProductTerms(x, y, n) \in [Coeffs -> Int]
  BY <1>1 DEF ProductTerms
<1>3. Product(x, y)[n] = SumBelow(ProductTerms(x, y, n), Size)
  BY DEF Product, ProductTerms
<1> DEFINE f == ProductTerms(x, y, n)
<1>4. f \in [0 .. Size - 1 -> Int]
  BY <1>2 DEF Coeffs
<1> HIDE DEF f
<1>5. SumBelow(f, Size) \in Int
  BY <1>4, PartialSums
<1> QED
  BY <1>2, <1>3, <1>5 DEF f

LEMMA BlocksWhole ==
  ASSUME NEW m, NEW g, NEW h, Ring(m, g, h), Size \in Nat \ {0},
         NEW x \in [Coeffs -> Int], NEW y \in [Coeffs -> Int], NEW i \in Coeffs
  PROVE  Mod(m, Blocks(m, g, h, Size, x, y)[i]) = Mod(m, Product(x, y)[i])
<1>1. m \in Nat \ {0} /\ g \in Int /\ h \in Nat \ {0}
  BY RingTypes
<1>2. Size \div Size = 1 /\ i \div Size = 0 /\ i % Size = i
  BY OneBlock
<1>3. PICK r \in Int : r = RootOf(m, g, h, 1) /\ Mod(m, r) = Mod(m, -1)
  <2>1. RootOf(m, g, h, 1) = PowerMod(g, h, m)
    BY DEF RootOf, Exponent
  <2>2. PowerMod(g, h, m) \in Int
    BY <1>1, PowerSteps
  <2> QED
    BY <2>1, <2>2 DEF Ring
<1> DEFINE X == Slice(x, 0 * Size, Size)  Y == Slice(y, 0 * Size, Size)
           f == BlockTerms(r, Size, X, Y, i)  p == ProductTerms(x, y, i)
<1>4. X = x /\ Y = y
  <2>1. \A n \in 0 .. Size - 1 : 0 * Size + n = n
    OBVIOUS
  <2> QED
    BY <2>1 DEF Slice, Coeffs
<1>5. Blocks(m, g, h, Size, x, y)[i] = SumBelow(f, Size)
  <2>1. 1 + 0 = 1
    OBVIOUS
  <2> QED
    BY <1>2, <1>3, <2>1 DEF Blocks, BlockOf, BlockAt
<1>6. f \in [0 .. Size - 1 -> Int] /\ p \in [0 .. Size - 1 -> Int]
  <2>1. x \in [0 .. Size - 1 -> Int] /\ y \in [0 .. Size - 1 -> Int] /\ i \in 0 .. Size - 1
    BY DEF Coeffs
  <2>2. BlockTermsRight(r, Size, x, y, i)
    BY <2>1, BlockTermsType
  <2>3. p \in [Coeffs -> Int]
    BY ProductTermsType
  <2> QED
    BY <1>4, <2>2, <2>3 DEF BlockTermsRight, Coeffs
<1>7. ASSUME NEW u \in 0 .. Size - 1
      PROVE  Mod(m, f[u]) = Mod(m, p[u])
  <2>1. /\ f[u] = x[u] * (IF u <= i THEN y[i - u] ELSE r * y[i - u + Size])
        /\ p[u] = x[u] * (IF u <= i THEN y[i - u] ELSE -y[i - u + Size])
    <3>1. u \in Coeffs
      BY DEF Coeffs
    <3> QED
      BY <1>4, <3>1 DEF BlockTerms, ProductTerms
  <2> HIDE DEF f, p
  <2>2. CASE u <= i
    BY <2>1, <2>2
  <2>3. CASE ~(u <= i)
    <3>1. i - u + Size \in Coeffs /\ u \in Coeffs
      BY <2>3 DEF Coeffs
    <3>2. PICK b \in Int, d \in Int : b = x[u] /\ d = y[i - u + Size]
      BY <3>1
    <3>3. PICK e \in Int : e = b * d
      BY ONLY b \in Int, d \in Int
    <3>4. PICK o \in Int : o = -1
      OBVIOUS
    <3>5. PICK z \in Int : z = 0
      OBVIOUS
    <3>6. SameLines(m, z, r, o, e)
      <4>1. Mod(m, r) = Mod(m, o)
        BY <1>3, <3>4
      <4> QED
        BY ONLY <1>1, <4>1, z \in Int, r \in Int, o \in Int, e \in Int, ModSlope
    <3>7. f[u] = z + r * e
      <4>1. f[u] = b * (r * d)
        BY <2>1, <2>3, <3>2
      <4>2. b * (r * d) = z + r * e
        BY ONLY <3>3, <3>5, b \in Int, d \in Int, r \in Int
      <4> QED
        BY <4>1, <4>2
    <3>8. p[u] = z + o * e
      <4>1. p[u] = b * (-d)
        BY <2>1, <2>3, <3>2
      <4>2. b * (-d) = z + o * e
        BY ONLY <3>3, <3>4, <3>5, b \in Int, d \in Int
      <4> QED
        BY <4>1, <4>2
    <3> QED
      BY <3>6, <3>7, <3>8 DEF SameLines
  <2> QED
    BY <2>2, <2>3
<1> HIDE DEF f, p, X, Y
<1>8. TermsCongruent(m, Size, f, p)
  BY <1>7 DEF TermsCongruent
<1>9. Mod(m, SumBelow(f, Size)) = Mod(m, SumBelow(p, Size))
  BY ONLY <1>1, <1>6, <1>8, Size \in Nat \ {0}, SumOfCongruent
<1> QED
  BY <1>5, <1>9, ProductTermsType DEF p

(* The sum of the columns of a row, minus one more array.                  *)
RowOf(x, b) == [i \in Coeffs |-> SumBelow([j \in Column |-> x[j][i]], RowLen) - b[i]]

LEMMA RowOfType ==
  ASSUME NEW x \in [Column -> [Coeffs -> Int]], NEW i \in Coeffs
  PROVE  /\ [j \in Column |-> x[j][i]] \in [0 .. RowLen - 1 -> Int]
         /\ SumBelow([j \in Column |-> x[j][i]], RowLen) \in Int
<1> DEFINE f == [j \in Column |-> x[j][i]]
<1>1. f \in [0 .. RowLen - 1 -> Int]
  BY DEF Column
<1>2. RowLen \in Nat
  BY RowProductAssumption DEF RowProductAssumption
<1> HIDE DEF f
<1>3. SumBelow(f, RowLen) \in Int
  BY <1>1, <1>2, PartialSums
<1> QED
  BY <1>1, <1>3 DEF f

LEMMA RowIsPoly ==
  ASSUME NEW x \in [Column -> [Coeffs -> Int]], NEW b \in [Coeffs -> Int]
  PROVE  RowOf(x, b) \in [Coeffs -> Int] /\ \A i \in Coeffs : RowOf(x, b)[i] \in Int
<1>1. \A i \in Coeffs : SumBelow([j \in Column |-> x[j][i]], RowLen) - b[i] \in Int
  <2> TAKE i \in Coeffs
  <2>1. SumBelow([j \in Column |-> x[j][i]], RowLen) \in Int
    BY RowOfType
  <2> QED
    BY <2>1
<1> QED
  BY <1>1 DEF RowOf

(* The coefficient at l of one layer, from those at i and o of the other.  *)
RowLine(m, z, x, b, u, d, l, i, o) ==
  Mod(m, RowOf(u, d)[l]) = Mod(m, RowOf(x, b)[i] + z * RowOf(x, b)[o])

LEMMA RowOfLine ==
  ASSUME NEW m \in Nat \ {0}, NEW z \in Int, NEW l \in Coeffs, NEW i \in Coeffs, NEW o \in Coeffs,
         NEW x \in [Column -> [Coeffs -> Int]], NEW u \in [Column -> [Coeffs -> Int]],
         NEW b \in [Coeffs -> Int], NEW d \in [Coeffs -> Int],
         \A j \in Column : Mod(m, u[j][l]) = Mod(m, x[j][i] + z * x[j][o]),
         Mod(m, d[l]) = Mod(m, b[i] + z * b[o])
  PROVE  RowLine(m, z, x, b, u, d, l, i, o)
<1> DEFINE F == [j \in Column |-> u[j][l]]  X == [j \in Column |-> x[j][i]]
           Y == [j \in Column |-> x[j][o]]
<1>1. RowLen \in Nat
  BY RowProductAssumption DEF RowProductAssumption
<1>2. /\ F \in [0 .. RowLen - 1 -> Int] /\ X \in [0 .. RowLen - 1 -> Int]
      /\ Y \in [0 .. RowLen - 1 -> Int]
      /\ SumBelow(F, RowLen) \in Int /\ SumBelow(X, RowLen) \in Int /\ SumBelow(Y, RowLen) \in Int
  BY RowOfType
<1>3. TermLines(m, RowLen, z, F, X, Y)
  BY DEF TermLines, Column
<1>4. /\ RowOf(u, d)[l] = SumBelow(F, RowLen) - d[l]
      /\ RowOf(x, b)[i] = SumBelow(X, RowLen) - b[i]
      /\ RowOf(x, b)[o] = SumBelow(Y, RowLen) - b[o]
  BY DEF RowOf
<1> HIDE DEF F, X, Y
<1>5. CombinedSums(m, RowLen, z, F, X, Y)
  BY ONLY <1>1, <1>2, <1>3, m \in Nat \ {0}, z \in Int, SumOfCombination
<1>6. PICK f \in Int, p \in Int, s \in Int, dl \in Int, bi \in Int, bo \in Int :
        /\ f = SumBelow(F, RowLen) /\ p = SumBelow(X, RowLen) /\ s = SumBelow(Y, RowLen)
        /\ dl = d[l] /\ bi = b[i] /\ bo = b[o]
  BY <1>2
<1>7. PICK v \in Int, t \in Int : v = p + z * s /\ t = bi + z * bo
  OBVIOUS
<1>8. Mod(m, f) = Mod(m, v) /\ Mod(m, dl) = Mod(m, t)
  BY <1>5, <1>6, <1>7 DEF CombinedSums
<1>9. Mod(m, f - dl) = Mod(m, v - t)
  BY ONLY <1>8, m \in Nat \ {0}, f \in Int, dl \in Int, v \in Int, t \in Int, ModSub
<1>10. v - t = (p - bi) + z * (s - bo)
  BY ONLY <1>7, p \in Int, z \in Int, s \in Int, bi \in Int, bo \in Int
<1> QED
  BY <1>4, <1>6, <1>9, <1>10 DEF RowLine

LEMMA RowSplits ==
  ASSUME NEW m, NEW g, NEW h, Ring(m, g, h), NEW w, NEW c, Layer(h, c, w),
         NEW x \in [Column -> [Coeffs -> Int]], NEW u \in [Column -> [Coeffs -> Int]],
         NEW b \in [Coeffs -> Int], NEW d \in [Coeffs -> Int],
         \A j \in Column : Splits(m, g, h, c, w, x[j], u[j]),
         Splits(m, g, h, c, w, b, d)
  PROVE  Splits(m, g, h, c, w, RowOf(x, b), RowOf(u, d))
<1>1. /\ m \in Nat \ {0} /\ g \in Int /\ h \in Orders /\ h \in Nat
      /\ w \in Nat \ {0} /\ c \in Nat \ {0} /\ Size = c * (2 * w) /\ 2 * c <= h
  BY RingTypes DEF Layer
<1> SUFFICES ASSUME NEW p \in 0 .. c - 1, NEW n \in 0 .. w - 1
             PROVE  SplitAt(m, Twiddle(m, g, h, c + p), w, RowOf(x, b), RowOf(u, d), p * (2 * w) + n)
  BY DEF Splits
<1>2. PICK z \in Int, zz \in Int : z = Twiddle(m, g, h, c + p) /\ zz = -z
  <2>1. c + p \in 1 .. h - 1
    BY <1>1
  <2>2. Twiddle(m, g, h, c + p) \in Int
    BY <2>1, NodeRoots
  <2> QED
    BY <2>2
<1>3. PICK i \in Coeffs, o \in Coeffs : i = p * (2 * w) + n /\ o = i + w
  <2>1. Placed(w, p * (2 * w) + n, 2 * p, n) /\ Placed(w, p * (2 * w) + n + w, 2 * p + 1, n)
    BY <1>1, Places
  <2> QED
    BY <2>1 DEF Placed
<1>4. ASSUME NEW y \in [Coeffs -> Int], NEW v \in [Coeffs -> Int], Splits(m, g, h, c, w, y, v)
      PROVE  Mod(m, v[i]) = Mod(m, y[i] + z * y[o]) /\ Mod(m, v[o]) = Mod(m, y[i] + zz * y[o])
  <2>1. SplitAt(m, z, w, y, v, i)
    BY <1>2, <1>3, <1>4 DEF Splits
  <2>2. PICK yi \in Int, yo \in Int : yi = y[i] /\ yo = y[o]
    OBVIOUS
  <2>3. yi - z * yo = yi + zz * yo
    BY ONLY <1>2, yi \in Int, yo \in Int, z \in Int, zz \in Int
  <2> QED
    BY <1>3, <2>1, <2>2, <2>3 DEF SplitAt
<1>5. \A j \in Column : /\ Mod(m, u[j][i]) = Mod(m, x[j][i] + z * x[j][o])
                        /\ Mod(m, u[j][o]) = Mod(m, x[j][i] + zz * x[j][o])
  <2> TAKE j \in Column
  <2>1. x[j] \in [Coeffs -> Int] /\ u[j] \in [Coeffs -> Int] /\ Splits(m, g, h, c, w, x[j], u[j])
    OBVIOUS
  <2> QED
    BY <1>4, <2>1
<1>6. Mod(m, d[i]) = Mod(m, b[i] + z * b[o]) /\ Mod(m, d[o]) = Mod(m, b[i] + zz * b[o])
  BY <1>4
<1>7. RowLine(m, z, x, b, u, d, i, i, o) /\ RowLine(m, zz, x, b, u, d, o, i, o)
  <2>1. m \in Nat \ {0}
    BY <1>1
  <2>2. \A j \in Column : Mod(m, u[j][i]) = Mod(m, x[j][i] + z * x[j][o])
    BY <1>5
  <2>3. \A j \in Column : Mod(m, u[j][o]) = Mod(m, x[j][i] + zz * x[j][o])
    BY <1>5
  <2>4. RowLine(m, z, x, b, u, d, i, i, o)
    BY <1>6, <2>1, <2>2, RowOfLine
  <2>5. RowLine(m, zz, x, b, u, d, o, i, o)
    BY <1>6, <2>1, <2>3, RowOfLine
  <2> QED
    BY <2>4, <2>5
<1>8. PICK yi \in Int, yo \in Int : yi = RowOf(x, b)[i] /\ yo = RowOf(x, b)[o]
  BY RowIsPoly
<1>9. yi - z * yo = yi + zz * yo
  BY ONLY <1>2, yi \in Int, yo \in Int, z \in Int, zz \in Int
<1> QED
  BY <1>2, <1>3, <1>7, <1>8, <1>9 DEF SplitAt, RowLine

-----------------------------------------------------------------------------
(* The product of two operands, and a row, as the blocks of size w.        *)

PairTree(m, g, h, w, x, y) == Blocks(m, g, h, w, Folded(m, g, h, w, x), Folded(m, g, h, w, y))

RowTree(m, g, h, w, x, y, b, d) ==
  RowOf([j \in Column |-> PairTree(m, g, h, w, x[j], y[j])], PairTree(m, g, h, w, b, d))

LEMMA PairTreeType ==
  ASSUME NEW m, NEW g, NEW h, Ring(m, g, h), NEW w \in Nat \ {0}, NEW c \in Nat \ {0},
         Size = c * w, c <= h, NEW x \in [Coeffs -> Int], NEW y \in [Coeffs -> Int]
  PROVE  PairTree(m, g, h, w, x, y) \in [Coeffs -> Int]
<1> DEFINE X == Folded(m, g, h, w, x)  Y == Folded(m, g, h, w, y)
<1>1. X \in [Coeffs -> Int] /\ Y \in [Coeffs -> Int]
  BY FlatTypes
<1> HIDE DEF X, Y
<1>2. Blocks(m, g, h, w, X, Y) \in [Coeffs -> Int]
  BY <1>1, FlatTypes
<1> QED
  BY <1>2 DEF PairTree, X, Y

LEMMA PairTreeSplits ==
  ASSUME NEW m, NEW g, NEW h, Ring(m, g, h), NEW w, NEW c, Layer(h, c, w),
         NEW x \in [Coeffs -> Int], NEW y \in [Coeffs -> Int]
  PROVE  /\ PairTree(m, g, h, w, x, y) \in [Coeffs -> Int]
         /\ PairTree(m, g, h, 2 * w, x, y) \in [Coeffs -> Int]
         /\ Splits(m, g, h, c, w, PairTree(m, g, h, 2 * w, x, y), PairTree(m, g, h, w, x, y))
<1>1. /\ w \in Nat \ {0} /\ c \in Nat \ {0} /\ 2 * w \in Nat \ {0} /\ 2 * c \in Nat \ {0}
      /\ Size = c * (2 * w) /\ Size = (2 * c) * w /\ 2 * c <= h /\ c <= h /\ h \in Int
  <2>1. h \in Int /\ 2 * c <= h
    BY RingTypes DEF Layer
  <2> QED
    BY <2>1, LayerParts
<1> DEFINE X == Folded(m, g, h, 2 * w, x)  Y == Folded(m, g, h, 2 * w, y)
           U == Folded(m, g, h, w, x)  V == Folded(m, g, h, w, y)
<1>2. PICK o \in Nat \ {0} : o = 2 * w
  BY <1>1
<1>3. PICK cc \in Nat \ {0} : cc = 2 * c
  BY <1>1
<1>4. Size = c * o /\ Size = cc * w /\ cc <= h /\ c <= h
  BY <1>1, <1>2, <1>3
<1>5. X \in [Coeffs -> Int] /\ Y \in [Coeffs -> Int]
  <2>1. Folded(m, g, h, o, x) \in [Coeffs -> Int] /\ Folded(m, g, h, o, y) \in [Coeffs -> Int]
    BY <1>1, <1>4, FlatTypes
  <2> QED
    BY <1>2, <2>1
<1>6. U \in [Coeffs -> Int] /\ V \in [Coeffs -> Int]
  BY <1>1, <1>4, FlatTypes
<1>7. Splits(m, g, h, c, w, X, U) /\ Splits(m, g, h, c, w, Y, V)
  BY FoldedSplits
<1>8. PairTree(m, g, h, w, x, y) \in [Coeffs -> Int]
  BY <1>1, <1>4, PairTreeType
<1>9. PairTree(m, g, h, 2 * w, x, y) \in [Coeffs -> Int]
  <2>1. PairTree(m, g, h, o, x, y) \in [Coeffs -> Int]
    BY <1>1, <1>4, PairTreeType
  <2> QED
    BY <1>2, <2>1
<1> HIDE DEF X, Y, U, V
<1>10. Splits(m, g, h, c, w, Blocks(m, g, h, 2 * w, X, Y), Blocks(m, g, h, w, U, V))
  BY <1>5, <1>6, <1>7, ProductSplits
<1> QED
  BY <1>8, <1>9, <1>10 DEF PairTree, X, Y, U, V

LEMMA RowTreeSplits ==
  ASSUME NEW m, NEW g, NEW h, Ring(m, g, h), NEW w, NEW c, Layer(h, c, w),
         NEW x \in [Column -> [Coeffs -> Int]], NEW y \in [Column -> [Coeffs -> Int]],
         NEW b \in [Coeffs -> Int], NEW d \in [Coeffs -> Int]
  PROVE  Splits(m, g, h, c, w, RowTree(m, g, h, 2 * w, x, y, b, d), RowTree(m, g, h, w, x, y, b, d))
<1> DEFINE X == [j \in Column |-> PairTree(m, g, h, 2 * w, x[j], y[j])]
           U == [j \in Column |-> PairTree(m, g, h, w, x[j], y[j])]
           B == PairTree(m, g, h, 2 * w, b, d)  D == PairTree(m, g, h, w, b, d)
<1>1. \A j \in Column : /\ PairTree(m, g, h, w, x[j], y[j]) \in [Coeffs -> Int]
                        /\ PairTree(m, g, h, 2 * w, x[j], y[j]) \in [Coeffs -> Int]
                        /\ Splits(m, g, h, c, w, PairTree(m, g, h, 2 * w, x[j], y[j]),
                                  PairTree(m, g, h, w, x[j], y[j]))
  BY PairTreeSplits
<1>2. X \in [Column -> [Coeffs -> Int]] /\ U \in [Column -> [Coeffs -> Int]]
      /\ \A j \in Column : Splits(m, g, h, c, w, X[j], U[j])
  BY <1>1
<1>3. B \in [Coeffs -> Int] /\ D \in [Coeffs -> Int] /\ Splits(m, g, h, c, w, B, D)
  BY PairTreeSplits
<1> HIDE DEF X, U, B, D
<1>4. Splits(m, g, h, c, w, RowOf(X, B), RowOf(U, D))
  BY <1>2, <1>3, RowSplits
<1> QED
  BY <1>4 DEF RowTree, X, U, B, D

-----------------------------------------------------------------------------
(* One block of butterflies                                                *)

(* Up to s, the array is modulo m that of the next layer.                  *)
Halfway(m, x, u, v, s) == \A i \in Coeffs : Mod(m, x[i]) = Mod(m, IF i < s THEN u[i] ELSE v[i])

ForwardStep(m, x, term, s, w) ==
  [i \in Coeffs |->
     CASE i \in s .. (s + w - 1) -> (x[i] + term[i + w]) % m
       [] i \in (s + w) .. (s + 2 * w - 1) -> (x[i - w] - term[i]) % m
       [] OTHER -> x[i]]

InverseStep(m, x, factor, s, w) ==
  [i \in Coeffs |->
     CASE i \in s .. (s + w - 1) -> (x[i] + x[i + w]) % m
       [] i \in (s + w) .. (s + 2 * w - 1) -> (factor * (x[i - w] - x[i])) % m
       [] OTHER -> x[i]]

Scaled(s, x) == [i \in Coeffs |-> s * x[i]]

(* The bounds of block j.                                                  *)
LEMMA BlockBounds ==
  ASSUME NEW h \in Int, NEW w, NEW c, Layer(h, c, w), NEW j \in 0 .. c - 1, NEW s, s = j * (2 * w)
  PROVE  /\ s \in Nat /\ s + 2 * w <= Size /\ w \in Nat \ {0} /\ Size \in Nat
         /\ (s + 2 * w < Size <=> j + 1 < c)
         /\ s + 2 * w = (j + 1) * (2 * w)
         /\ \A i \in s .. s + w - 1 : i - s \in 0 .. w - 1 /\ j * (2 * w) + (i - s) = i
<1>1. w \in Nat \ {0} /\ c \in Nat \ {0} /\ Size = c * (2 * w)
  BY DEF Layer
<1>2. PICK o \in Nat \ {0} : o = 2 * w
  BY <1>1
<1>3. s = j * o /\ Size = c * o
  BY <1>1, <1>2
<1>4. s \in Nat
  BY ONLY <1>1, <1>2, <1>3, j \in 0 .. c - 1
<1>5. (j + 1) * o = s + o
  BY ONLY <1>1, <1>2, <1>3, j \in 0 .. c - 1
<1>6. (j + 1) * o <= c * o
  <2>1. j + 1 <= c /\ j + 1 \in Nat /\ c \in Nat
    BY <1>1
  <2> QED
    BY ONLY <2>1, o \in Nat \ {0}
<1>7. ASSUME j + 1 < c
      PROVE  (j + 1) * o < c * o
  <2>1. j + 1 < c /\ j + 1 \in Nat /\ c \in Nat
    BY <1>1, <1>7
  <2> QED
    BY ONLY <2>1, o \in Nat \ {0}
<1>8. ASSUME ~(j + 1 < c)
      PROVE  (j + 1) * o = c * o
  <2>1. j + 1 = c
    BY <1>1, <1>8
  <2> QED
    BY <2>1
<1>9. Size \in Nat
  BY ONLY <1>1, <1>2, <1>3
<1>10. s + o \in Nat /\ (s + o < Size <=> j + 1 < c) /\ s + o <= Size
  <2>1. s + o \in Nat
    BY <1>4
  <2> QED
    BY <1>3, <1>5, <1>6, <1>7, <1>8, <1>9, <2>1
<1>11. \A i \in s .. s + w - 1 : i - s \in 0 .. w - 1 /\ s + (i - s) = i
  BY <1>1, <1>4
<1> QED
  BY <1>1, <1>2, <1>4, <1>5, <1>9, <1>10, <1>11

(* What a block of the forward transform computes.                         *)
LEMMA ForwardHalfway ==
  ASSUME NEW m, NEW g, NEW h, Ring(m, g, h), NEW w, NEW c, Layer(h, c, w), NEW j \in 0 .. c - 1,
         NEW s, s = j * (2 * w),
         NEW x \in [Coeffs -> Int], NEW u \in [Coeffs -> Int], NEW v \in [Coeffs -> Int],
         Splits(m, g, h, c, w, v, u), Halfway(m, x, u, v, s),
         NEW term, \A i \in Coeffs : term[i] \in Int /\ Mod(m, term[i]) = Mod(m, Twiddle(m, g, h, c + j) * x[i])
  PROVE  /\ ForwardStep(m, x, term, s, w) \in [Coeffs -> Int]
         /\ Halfway(m, ForwardStep(m, x, term, s, w), u, v, s + 2 * w)
<1>1. m \in Nat \ {0} /\ h \in Int /\ h \in Nat /\ c \in Nat \ {0} /\ 2 * c <= h
  BY RingTypes DEF Layer
<1>2. s \in Nat /\ s + 2 * w <= Size /\ w \in Nat \ {0} /\ Size \in Nat
  BY <1>1, BlockBounds
<1>0. \A i \in s .. s + w - 1 : i - s \in 0 .. w - 1 /\ j * (2 * w) + (i - s) = i
  BY <1>1, BlockBounds
<1>3. PICK z \in Int : z = Twiddle(m, g, h, c + j)
  <2>1. c + j \in 1 .. h - 1
    BY <1>1
  <2> QED
    BY <2>1, NodeRoots
<1> DEFINE b == ForwardStep(m, x, term, s, w)
<1>4. ASSUME NEW i \in s .. s + w - 1
      PROVE  /\ i \in Coeffs /\ i + w \in Coeffs
             /\ b[i] \in Int /\ Mod(m, b[i]) = Mod(m, u[i])
             /\ b[i + w] \in Int /\ Mod(m, b[i + w]) = Mod(m, u[i + w])
  <2>1. i \in Coeffs /\ i + w \in Coeffs /\ ~(i < s) /\ ~(i + w < s)
    BY ONLY <1>2, i \in s .. s + w - 1 DEF Coeffs
  <2>2. PICK y \in Int, t \in Int, yy \in Int, tt \in Int, f \in Int :
          y = x[i] /\ t = v[i] /\ yy = x[i + w] /\ tt = v[i + w] /\ f = term[i + w]
    BY <2>1
  <2>3. Mod(m, y) = Mod(m, t) /\ Mod(m, yy) = Mod(m, tt) /\ Mod(m, f) = Mod(m, z * yy)
    BY <1>3, <2>1, <2>2 DEF Halfway
  <2>4. PICK e \in Int, d \in Int : e = z * tt /\ d = z * yy
    OBVIOUS
  <2>5. Mod(m, f) = Mod(m, e)
    <3>1. PICK zz \in Int : zz = z
      OBVIOUS
    <3>2. Mod(m, z) = Mod(m, zz) /\ Mod(m, yy) = Mod(m, tt)
      BY <2>3, <3>1
    <3>3. Mod(m, z * yy) = Mod(m, zz * tt)
      BY ONLY <1>1, <3>2, z \in Int, zz \in Int, yy \in Int, tt \in Int, ModMul
    <3> QED
      BY <2>3, <2>4, <3>1, <3>3
  <2>6. Mod(m, y + f) = Mod(m, t + e)
    BY ONLY <1>1, <2>3, <2>5, y \in Int, f \in Int, t \in Int, e \in Int, ModAdd
  <2>7. Mod(m, y - f) = Mod(m, t - e)
    BY ONLY <1>1, <2>3, <2>5, y \in Int, f \in Int, t \in Int, e \in Int, ModSub
  <2>8. Mod(m, u[i]) = Mod(m, t + e) /\ Mod(m, u[i + w]) = Mod(m, t - e)
    <3>1. SplitAt(m, z, w, v, u, i)
      <4>1. i - s \in 0 .. w - 1 /\ j * (2 * w) + (i - s) = i
        BY <1>0
      <4>2. SplitAt(m, z, w, v, u, j * (2 * w) + (i - s))
        BY <1>3, <4>1 DEF Splits
      <4> QED
        BY <4>1, <4>2
    <3> QED
      BY <2>2, <2>4, <3>1 DEF SplitAt
  <2>9. b[i] = (y + f) % m
    <3>1. b[i] = (x[i] + term[i + w]) % m
      <4>1. i \in s .. (s + w - 1) /\ ~(i \in (s + w) .. (s + 2 * w - 1))
        BY <1>2
      <4> QED
        BY <2>1, <4>1 DEF ForwardStep
    <3> QED
      BY <2>2, <3>1
  <2>10. b[i + w] = (y - f) % m
    <3>1. ~(i + w \in s .. (s + w - 1)) /\ i + w \in (s + w) .. (s + 2 * w - 1) /\ (i + w) - w = i
      BY <1>2
    <3> QED
      BY <2>1, <2>2, <3>1 DEF ForwardStep
  <2> HIDE DEF b
  <2>11. PICK p \in Int, o \in Int : p = y + f /\ o = y - f
    OBVIOUS
  <2>12. Mod(m, p % m) = Mod(m, p) /\ Mod(m, o % m) = Mod(m, o) /\ p % m \in Int /\ o % m \in Int
    BY <1>1, ModOfRemainder, ModType DEF Mod
  <2> QED
    BY <2>1, <2>6, <2>7, <2>8, <2>9, <2>10, <2>11, <2>12
<1>5. ASSUME NEW i \in Coeffs, ~(i \in s .. s + 2 * w - 1)
      PROVE  b[i] = x[i]
  <2>1. ~(i \in s .. (s + w - 1)) /\ ~(i \in (s + w) .. (s + 2 * w - 1))
    BY <1>2, <1>5 DEF Coeffs
  <2> QED
    BY <2>1 DEF ForwardStep
<1> HIDE DEF b
<1>6. ASSUME NEW i \in Coeffs
      PROVE  b[i] \in Int /\ Mod(m, b[i]) = Mod(m, IF i < s + 2 * w THEN u[i] ELSE v[i])
  <2>1. i \in Nat
    BY <1>2 DEF Coeffs
  <2>2. CASE i \in s .. s + w - 1
    <3>1. i < s + 2 * w
      BY <1>2, <2>2
    <3> QED
      BY <1>4, <2>2, <3>1
  <2>3. CASE i \in s + w .. s + 2 * w - 1
    <3>1. i - w \in s .. s + w - 1 /\ (i - w) + w = i /\ i < s + 2 * w
      BY <1>2, <2>3
    <3> QED
      BY <1>4, <3>1
  <2>4. CASE ~(i \in s .. s + w - 1) /\ ~(i \in s + w .. s + 2 * w - 1)
    <3>1. ~(i \in s .. s + 2 * w - 1) /\ (i < s <=> i < s + 2 * w)
      BY <1>2, <2>1, <2>4
    <3>2. b[i] = x[i] /\ x[i] \in Int
      BY <1>5, <3>1
    <3> QED
      BY <3>1, <3>2 DEF Halfway
  <2> QED
    BY <2>2, <2>3, <2>4
<1>7. b \in [Coeffs -> Int]
  <2>1. b = [i \in Coeffs |-> b[i]]
    BY DEF b, ForwardStep
  <2> QED
    BY <1>6, <2>1
<1>8. Halfway(m, b, u, v, s + 2 * w)
  BY <1>6 DEF Halfway
<1> QED
  BY <1>7, <1>8 DEF b

(* And of the inverse transform: each layer doubles.                       *)
LEMMA InverseHalfway ==
  ASSUME NEW m, NEW g, NEW h, Ring(m, g, h), NEW w, NEW c, Layer(h, c, w), NEW j \in 0 .. c - 1,
         NEW s, s = j * (2 * w), NEW e \in Int,
         NEW x \in [Coeffs -> Int], NEW u \in [Coeffs -> Int], NEW v \in [Coeffs -> Int],
         Splits(m, g, h, c, w, v, u), Halfway(m, x, Scaled(2 * e, v), Scaled(e, u), s),
         NEW factor \in Int, Mod(m, factor * Twiddle(m, g, h, c + j)) = Mod(m, 1)
  PROVE  /\ InverseStep(m, x, factor, s, w) \in [Coeffs -> Int]
         /\ Halfway(m, InverseStep(m, x, factor, s, w), Scaled(2 * e, v), Scaled(e, u), s + 2 * w)
<1>1. m \in Nat \ {0} /\ h \in Int /\ h \in Nat /\ c \in Nat \ {0} /\ 2 * c <= h
  BY RingTypes DEF Layer
<1>2. s \in Nat /\ s + 2 * w <= Size /\ w \in Nat \ {0} /\ Size \in Nat
  BY <1>1, BlockBounds
<1>0. \A i \in s .. s + w - 1 : i - s \in 0 .. w - 1 /\ j * (2 * w) + (i - s) = i
  BY <1>1, BlockBounds
<1>3. PICK z \in Int : z = Twiddle(m, g, h, c + j)
  <2>1. c + j \in 1 .. h - 1
    BY <1>1
  <2> QED
    BY <2>1, NodeRoots
<1> DEFINE b == InverseStep(m, x, factor, s, w)
           V == Scaled(2 * e, v)  U == Scaled(e, u)
<1>4. ASSUME NEW i \in s .. s + w - 1
      PROVE  /\ i \in Coeffs /\ i + w \in Coeffs
             /\ b[i] \in Int /\ Mod(m, b[i]) = Mod(m, V[i])
             /\ b[i + w] \in Int /\ Mod(m, b[i + w]) = Mod(m, V[i + w])
  <2>1. i \in Coeffs /\ i + w \in Coeffs /\ ~(i < s) /\ ~(i + w < s)
    BY ONLY <1>2, i \in s .. s + w - 1 DEF Coeffs
  <2>2. PICK y \in Int, t \in Int, yy \in Int, tt \in Int, p \in Int, pp \in Int :
          y = x[i] /\ t = v[i] /\ yy = x[i + w] /\ tt = v[i + w] /\ p = u[i] /\ pp = u[i + w]
    BY <2>1
  <2>3. Mod(m, y) = Mod(m, e * p) /\ Mod(m, yy) = Mod(m, e * pp)
        /\ V[i] = (2 * e) * t /\ V[i + w] = (2 * e) * tt
    BY <2>1, <2>2 DEF Halfway, Scaled
  <2>4. Mod(m, p) = Mod(m, t + z * tt) /\ Mod(m, pp) = Mod(m, t - z * tt)
    <3>1. SplitAt(m, z, w, v, u, i)
      <4>1. i - s \in 0 .. w - 1 /\ j * (2 * w) + (i - s) = i
        BY <1>0
      <4>2. SplitAt(m, z, w, v, u, j * (2 * w) + (i - s))
        BY <1>3, <4>1 DEF Splits
      <4> QED
        BY <4>1, <4>2
    <3> QED
      BY <2>2, <3>1 DEF SplitAt
  <2>5. PICK l \in Int, d \in Int, ll \in Int, dd \in Int :
          l = t + z * tt /\ d = t - z * tt /\ ll = e * p /\ dd = e * pp
    OBVIOUS
  <2>6. Mod(m, e * p) = Mod(m, e * l) /\ Mod(m, e * pp) = Mod(m, e * d)
    <3>1. PICK f \in Int : f = e
      OBVIOUS
    <3>2. Mod(m, e) = Mod(m, f) /\ Mod(m, p) = Mod(m, l) /\ Mod(m, pp) = Mod(m, d)
      BY <2>4, <2>5, <3>1
    <3>3. Mod(m, e * p) = Mod(m, f * l)
      BY ONLY <1>1, <3>2, e \in Int, f \in Int, p \in Int, l \in Int, ModMul
    <3>4. Mod(m, e * pp) = Mod(m, f * d)
      BY ONLY <1>1, <3>2, e \in Int, f \in Int, pp \in Int, d \in Int, ModMul
    <3> QED
      BY <3>1, <3>3, <3>4
  <2>7. PICK el \in Int, ed \in Int : el = e * l /\ ed = e * d
    OBVIOUS
  <2>8. Mod(m, y) = Mod(m, el) /\ Mod(m, yy) = Mod(m, ed)
    BY <2>3, <2>6, <2>7
  <2>9. Mod(m, y + yy) = Mod(m, el + ed)
    BY ONLY <1>1, <2>8, y \in Int, yy \in Int, el \in Int, ed \in Int, ModAdd
  <2>10. Mod(m, y - yy) = Mod(m, el - ed)
    BY ONLY <1>1, <2>8, y \in Int, yy \in Int, el \in Int, ed \in Int, ModSub
  <2>11. el + ed = (2 * e) * t
    BY ONLY <2>5, <2>7, z \in Int, t \in Int, tt \in Int, e \in Int, l \in Int, d \in Int
  <2>12. PICK a0 \in Int, b0 \in Int : a0 = y - yy /\ b0 = el - ed
    OBVIOUS
  <2>13. b0 = z * ((2 * e) * tt)
    BY ONLY <2>5, <2>7, <2>12, z \in Int, t \in Int, tt \in Int, e \in Int, l \in Int, d \in Int
  <2>14. Mod(m, factor * (y - yy)) = Mod(m, (2 * e) * tt)
    <3>1. PICK f \in Int : f = factor
      OBVIOUS
    <3>2. Mod(m, factor) = Mod(m, f) /\ Mod(m, a0) = Mod(m, b0)
      BY <2>10, <2>12, <3>1
    <3>3. Mod(m, factor * a0) = Mod(m, f * b0)
      BY ONLY <1>1, <3>2, factor \in Int, f \in Int, a0 \in Int, b0 \in Int, ModMul
    <3>4. PICK fz \in Int, o \in Int, r \in Int, n \in Int :
            fz = factor * z /\ o = 1 /\ r = (2 * e) * tt /\ n = r
      OBVIOUS
    <3>5. Mod(m, fz) = Mod(m, o) /\ Mod(m, r) = Mod(m, n)
      BY <1>3, <3>4
    <3>6. Mod(m, fz * r) = Mod(m, o * n)
      BY ONLY <1>1, <3>5, fz \in Int, o \in Int, r \in Int, n \in Int, ModMul
    <3>7. f * b0 = fz * r
      <4>1. factor * (z * r) = (factor * z) * r
        BY ONLY factor \in Int, z \in Int, r \in Int
      <4> QED
        BY <2>13, <3>1, <3>4, <4>1
    <3>8. o * n = (2 * e) * tt
      BY <3>4
    <3> QED
      BY <2>12, <3>3, <3>6, <3>7, <3>8
  <2>15. b[i] = (y + yy) % m
    <3>1. b[i] = (x[i] + x[i + w]) % m
      <4>1. i \in s .. (s + w - 1) /\ ~(i \in (s + w) .. (s + 2 * w - 1))
        BY <1>2
      <4> QED
        BY <2>1, <4>1 DEF InverseStep
    <3> QED
      BY <2>2, <3>1
  <2>16. b[i + w] = (factor * (y - yy)) % m
    <3>1. ~(i + w \in s .. (s + w - 1)) /\ i + w \in (s + w) .. (s + 2 * w - 1) /\ (i + w) - w = i
      BY <1>2
    <3> QED
      BY <2>1, <2>2, <3>1 DEF InverseStep
  <2> HIDE DEF b, V, U
  <2>17. PICK o \in Int, n \in Int : o = y + yy /\ n = factor * (y - yy)
    OBVIOUS
  <2>18. Mod(m, o % m) = Mod(m, o) /\ Mod(m, n % m) = Mod(m, n) /\ o % m \in Int /\ n % m \in Int
    BY <1>1, ModOfRemainder, ModType DEF Mod
  <2>19. b[i] \in Int /\ Mod(m, b[i]) = Mod(m, V[i])
    BY <2>3, <2>9, <2>11, <2>15, <2>17, <2>18
  <2>20. b[i + w] \in Int /\ Mod(m, b[i + w]) = Mod(m, V[i + w])
    BY <2>3, <2>14, <2>16, <2>17, <2>18
  <2> QED
    BY <2>1, <2>19, <2>20
<1>5. ASSUME NEW i \in Coeffs, ~(i \in s .. s + 2 * w - 1)
      PROVE  b[i] = x[i]
  <2>1. ~(i \in s .. (s + w - 1)) /\ ~(i \in (s + w) .. (s + 2 * w - 1))
    BY <1>2, <1>5 DEF Coeffs
  <2> QED
    BY <2>1 DEF InverseStep
<1> HIDE DEF b, U, V
<1>6. ASSUME NEW i \in Coeffs
      PROVE  b[i] \in Int /\ Mod(m, b[i]) = Mod(m, IF i < s + 2 * w THEN V[i] ELSE U[i])
  <2>1. i \in Nat
    BY <1>2 DEF Coeffs
  <2>2. CASE i \in s .. s + w - 1
    <3>1. i < s + 2 * w
      BY <1>2, <2>2
    <3> QED
      BY <1>4, <2>2, <3>1
  <2>3. CASE i \in s + w .. s + 2 * w - 1
    <3>1. i - w \in s .. s + w - 1 /\ (i - w) + w = i /\ i < s + 2 * w
      BY <1>2, <2>3
    <3> QED
      BY <1>4, <3>1
  <2>4. CASE ~(i \in s .. s + w - 1) /\ ~(i \in s + w .. s + 2 * w - 1)
    <3>1. ~(i \in s .. s + 2 * w - 1) /\ (i < s <=> i < s + 2 * w)
      BY <1>2, <2>1, <2>4
    <3>2. b[i] = x[i] /\ x[i] \in Int
      BY <1>5, <3>1
    <3>3. Mod(m, x[i]) = Mod(m, IF i < s THEN V[i] ELSE U[i])
      BY DEF Halfway, U, V
    <3> QED
      BY <3>1, <3>2, <3>3
  <2> QED
    BY <2>2, <2>3, <2>4
<1>7. b \in [Coeffs -> Int]
  <2>1. b = [i \in Coeffs |-> b[i]]
    BY DEF b, InverseStep
  <2> QED
    BY <1>6, <2>1
<1>8. Halfway(m, b, V, U, s + 2 * w)
  BY <1>6 DEF Halfway
<1> QED
  BY <1>7, <1>8 DEF b, U, V

-----------------------------------------------------------------------------
(* The field of an implementation, and what a transform is of              *)

Gen == IF Lowram THEN SmallRoot ELSE Root
Order == IF Lowram THEN Size \div 2 ELSE Size

SizeFacts == Size \in Nat \ {0} /\ Size \in {4, 8, 16, 32, 64, 128, 256}

LEMMA Fields ==
  /\ SizeFacts /\ Ring(q, Gen, Order)
  /\ q \in Nat \ {0} /\ q > 1
  /\ Gen \in Nat /\ Order \in Nat \ {0} /\ RowLen \in Nat
  /\ (~Lowram => Order = Size) /\ (Lowram => Size = 2 * Order)
<1> USE RowProductAssumption DEF RowProductAssumption
<1>1. SizeFacts /\ RowLen \in Nat
  BY DEF SizeFacts
<1>2. q \in Nat \ {0} /\ q > 1 /\ Gen \in Nat
  BY DEF q, Gen
<1>3. Order \in Orders /\ (~Lowram => Order = Size) /\ (Lowram => Size = 2 * Order)
  BY DEF Order, Orders
<1>4. PowerMod(Gen, Order, q) = q - 1
  BY DEF Gen, Order, q
<1>5. Mod(q, q - 1) = Mod(q, -1)
  <2>1. PICK m \in Nat \ {0} : m = q
    BY <1>2
  <2>2. PICK x \in Int, y \in Int, d \in Int : x = m - 1 /\ y = -1 /\ d = 1
    OBVIOUS
  <2>3. x = y + m * d
    BY <2>2
  <2>4. Mod(m, x) = Mod(m, y)
    BY ONLY <2>3, m \in Nat \ {0}, x \in Int, y \in Int, d \in Int, ModShift
  <2> QED
    BY <2>1, <2>2, <2>4
<1>6. Order \in Nat \ {0}
  BY <1>3 DEF Orders
<1> QED
  BY <1>1, <1>2, <1>3, <1>4, <1>5, <1>6 DEF Ring

Inverts(x) == ModInverse(x) \in Nat /\ (x * ModInverse(x)) % q = 1

Invertible(n, x) == \E y \in 1 .. (n - 1) : (x * y) % n = 1

LEMMA Inverses ==
  /\ ~Lowram => Mont \in Nat /\ Size \in Nat /\ Inverts(Mont) /\ Inverts(Size)
  /\ Lowram => SmallMont \in Nat /\ Size \div 2 \in Nat /\ Inverts(SmallMont) /\ Inverts(Size \div 2)
<1>1. ASSUME NEW x, Invertible(q, x)
      PROVE  Inverts(x)
  <2>1. ModInverse(x) \in 1 .. (q - 1) /\ (x * ModInverse(x)) % q = 1
    BY <1>1 DEF ModInverse, Invertible
  <2>2. \A y \in 1 .. (q - 1) : y \in Nat
    BY Fields
  <2> QED
    BY <2>1, <2>2 DEF Inverts
<1>2. /\ \A x \in {Mont, Size} : Invertible(Modulus, x)
      /\ \A x \in {SmallMont, Size \div 2} : Invertible(SmallModulus, x)
  BY RowProductAssumption DEF RowProductAssumption, Invertible
<1>3. Mont \in Nat /\ SmallMont \in Nat
  BY RowProductAssumption DEF RowProductAssumption
<1>4. Size \in Nat /\ Size \div 2 \in Nat
  BY Fields DEF SizeFacts
<1>5. (~Lowram => q = Modulus) /\ (Lowram => q = SmallModulus)
  BY DEF q
<1> QED
  BY <1>1, <1>2, <1>3, <1>4, <1>5

(* The polynomials that the operands are.                                  *)
Names ==
  IF Lowram THEN {<<"c", 1>>, <<"s", 1>>}
  ELSE ({<<"A", j>> : j \in Column} \cup {<<"z", j>> : j \in Column}) \cup {<<"c", 1>>, <<"t1", 1>>}

Source(name) ==
  IF name[1] = "A" THEN input.A[name[2]]
  ELSE IF name[1] = "z" THEN input.z[name[2]]
  ELSE IF name[1] = "c" THEN input.c
  ELSE IF name[1] = "s" THEN input.s
  ELSE ScaledT1

InputRight ==
  \/ impl \in {"c-ref", "ZKNOX_dilithium", "ZKNOX_ethdilithium"} /\ input \in Row
  \/ impl = "c-lowram" /\ input \in Secret

LEMMA Inputs ==
  ASSUME InputRight
  PROVE  /\ ~Lowram => /\ input.A \in [Column -> [Coeffs -> Int]]
                       /\ input.z \in [Column -> [Coeffs -> Int]]
                       /\ input.c \in [Coeffs -> Int] /\ input.t1 \in [Coeffs -> Int]
                       /\ ScaledT1 \in [Coeffs -> Int]
                       /\ \A i \in Coeffs : Mod(q, ScaledT1[i]) = Mod(q, TwoToD * input.t1[i])
         /\ Lowram => input.c \in [Coeffs -> Int] /\ input.s \in [Coeffs -> Int] /\ input \in Secret
<1> USE RowProductAssumption DEF RowProductAssumption
<1>1. ASSUME ~Lowram
      PROVE  /\ input.A \in [Column -> [Coeffs -> Int]] /\ input.z \in [Column -> [Coeffs -> Int]]
             /\ input.c \in [Coeffs -> Int] /\ input.t1 \in [Coeffs -> Int]
  <2>1. input \in Row
    BY <1>1 DEF InputRight, Lowram
  <2> QED
    BY <2>1
<1>2. ASSUME Lowram
      PROVE  input.c \in [Coeffs -> Int] /\ input.s \in [Coeffs -> Int] /\ input \in Secret
  <2>1. input \in Secret
    BY <1>2 DEF InputRight, Lowram
  <2> QED
    BY <2>1
<1>3. ASSUME ~Lowram, NEW i \in Coeffs
      PROVE  ScaledT1[i] \in Int /\ Mod(q, ScaledT1[i]) = Mod(q, TwoToD * input.t1[i])
  <2>1. PICK x \in Int : x = input.t1[i]
    BY <1>1, <1>3
  <2>2. PICK y \in Int : y = x * TwoToD
    OBVIOUS
  <2>3. y = TwoToD * x /\ ScaledT1[i] = y % q
    BY <2>1, <2>2 DEF ScaledT1
  <2>4. Mod(q, y % q) = Mod(q, y) /\ y % q \in Int
    BY Fields, ModOfRemainder, ModType DEF Mod
  <2> QED
    BY <2>1, <2>3, <2>4
<1>4. ASSUME ~Lowram
      PROVE  ScaledT1 \in [Coeffs -> Int]
  <2>1. ScaledT1 = [i \in Coeffs |-> ScaledT1[i]]
    BY DEF ScaledT1
  <2> QED
    BY <1>3, <1>4, <2>1
<1> QED
  BY <1>1, <1>2, <1>3, <1>4

LEMMA SourceType ==
  ASSUME InputRight, NEW name \in Names
  PROVE  Source(name) \in [Coeffs -> Int]
BY Inputs DEF Source, Names

(* Words of lanes and back.                                                *)
LEMMA Expanded ==
  ASSUME NEW p \in [Coeffs -> Int]
  PROVE  expand(compact(p)) = p
<1> USE RowProductAssumption DEF RowProductAssumption
<1>1. Lanes \in Nat \ {0} /\ Size \in Nat \ {0} /\ Size % Lanes = 0
  OBVIOUS
<1> DEFINE c == Size \div Lanes  r == Size % Lanes
<1>2. c \in Int /\ Size = Lanes * c + r
  BY <1>1, Division
<1>3. r = 0
  BY <1>1
<1> HIDE DEF c, r
<1>4. c \in Nat \ {0} /\ Size = c * Lanes
  <2>1. Size = Lanes * c
    BY <1>2, <1>3
  <2>2. c > 0
    <3> SUFFICES ASSUME c <= 0
                 PROVE  FALSE
      BY <1>2
    <3>1. Lanes * c <= 0
      BY ONLY <1>1, <1>2, c <= 0
    <3> QED
      BY <1>1, <2>1, <3>1
  <2> QED
    BY <1>2, <2>1, <2>2
<1>5. ASSUME NEW i \in Coeffs
      PROVE  expand(compact(p))[i] = p[i]
  <2>1. PICK j \in 0 .. c - 1, n \in 0 .. Lanes - 1 : j = i \div Lanes /\ n = i % Lanes
    BY <1>1, <1>4, PlaceAt
  <2>2. i = j * Lanes + n
    <3>1. i \in Int
      BY DEF Coeffs
    <3>2. i = Lanes * j + n
      BY <1>1, <2>1, <3>1, Division
    <3> QED
      BY ONLY <1>1, <3>1, <3>2, j \in 0 .. c - 1, <1>4, n \in 0 .. Lanes - 1
  <2>3. expand(compact(p))[i] = compact(p)[j][n]
    BY <2>1 DEF expand
  <2>4. compact(p)[j][n] = p[j * Lanes + n]
    BY DEF compact, c
  <2> QED
    BY <2>2, <2>3, <2>4
<1> QED
  BY <1>5 DEF expand

LEMMA OperandRight ==
  ASSUME InputRight, NEW name \in Names, name[1] # "A"
  PROVE  /\ Operand(name) \in [Coeffs -> Int]
         /\ \A i \in Coeffs : Mod(q, Operand(name)[i]) = Mod(q, Source(name)[i])
<1>1. q \in Nat \ {0}
  BY Fields
<1>2. ASSUME NEW p \in [Coeffs -> Int]
      PROVE  Residues(p) \in [Coeffs -> Int] /\ \A i \in Coeffs : Mod(q, Residues(p)[i]) = Mod(q, p[i])
  <2>1. \A i \in Coeffs : p[i] % q \in Int /\ Mod(q, p[i] % q) = Mod(q, p[i])
    <3> TAKE i \in Coeffs
    <3>1. PICK x \in Int : x = p[i]
      OBVIOUS
    <3>2. Mod(q, x % q) = Mod(q, x) /\ x % q \in Int
      BY <1>1, ModOfRemainder, ModType DEF Mod
    <3> QED
      BY <3>1, <3>2
  <2> QED
    BY <2>1 DEF Residues
<1>3. CASE name[1] = "z"
  <2>1. Operand(name) = Residues(input.z[name[2]]) /\ Source(name) = input.z[name[2]]
    BY <1>3 DEF Operand, Source
  <2> QED
    BY <1>2, <2>1, SourceType
<1>4. CASE name[1] = "c"
  <2>1. Operand(name) = Residues(input.c) /\ Source(name) = input.c
    BY <1>4 DEF Operand, Source
  <2> QED
    BY <1>2, <2>1, SourceType
<1>5. CASE name[1] = "s"
  <2>1. Operand(name) = Residues(input.s) /\ Source(name) = input.s
    BY <1>5 DEF Operand, Source
  <2> QED
    BY <1>2, <2>1, SourceType
<1>6. CASE name[1] = "t1"
  <2>1. Source(name) = ScaledT1 /\ Source(name) \in [Coeffs -> Int]
    BY <1>6, SourceType DEF Source
  <2>2. Operand(name) = IF Contract THEN expand(compact(ScaledT1)) ELSE ScaledT1
    BY <1>6 DEF Operand
  <2>3. Operand(name) = ScaledT1
    BY <2>1, <2>2, Expanded
  <2> QED
    BY <2>1, <2>3
<1> QED
  BY <1>3, <1>4, <1>5, <1>6 DEF Names

-----------------------------------------------------------------------------
(* The values at the odd powers of the root are the last layer.            *)

ValuesFold(p) ==
  /\ Values(p) \in [Coeffs -> Int]
  /\ \A i \in Coeffs : Mod(q, Values(p)[i]) = Mod(q, Folded(q, Gen, Order, 1, p)[i])

LEMMA ValuesRight ==
  ASSUME ~Lowram, NEW p \in [Coeffs -> Int]
  PROVE  ValuesFold(p)
<1>1. PICK m \in Nat \ {0}, g \in Nat : m = q /\ g = Root /\ Ring(m, g, Size)
  BY Fields DEF Gen
<1>2. Size \in Nat \ {0} /\ Size \in Orders /\ Size # 2
  BY Fields DEF SizeFacts, Orders
<1>3. ASSUME NEW i \in Coeffs
      PROVE  /\ Values(p)[i] \in Int
             /\ Mod(m, Values(p)[i]) = Mod(m, Folded(m, g, Size, 1, p)[i])
  <2>1. PICK e \in Nat : e = 2 * Reversed(Size, i) + 1 /\ Exponent(Size, Size + i) = e
    <3>1. Reversed(Size, i) \in Nat
      BY <1>2, ReversedSteps DEF Coeffs
    <3>2. Exponent(Size, Size + i) = 2 * Reversed(Size, i) + 1
      BY <1>2, ExponentOfLeaf DEF Coeffs
    <3> QED
      BY <3>1, <3>2
  <2>2. PICK o \in Nat \ {0} : o = 1
    OBVIOUS
  <2>3. Size \div 1 = Size /\ i \div 1 = i /\ i % 1 = 0
    BY <1>2 DEF Coeffs
  <2> DEFINE f == [n \in Coeffs |-> (p[n] * Power(Root, (2 * Reversed(Size, i) + 1) * n)) % q]
             d == FoldedTerms(m, g, e, 1, Size, p, 0)
  <2>4. Values(p)[i] = SumBelow(f, Size) % m
    BY <1>1 DEF Values
  <2>5. Folded(m, g, Size, 1, p)[i] = SumBelow(d, Size)
    BY <2>1, <2>3 DEF Folded, FoldedAt
  <2>6. FoldedTermsRight(m, g, e, 1, Size, p, 0)
    <3>1. PICK z \in 0 .. o - 1 : z = 0
      BY <2>2
    <3>2. Size = Size * o
      BY <1>2, <2>2
    <3>3. FoldedTermsRight(m, g, e, o, Size, p, z)
      BY <1>2, <3>2, FoldedTermsType
    <3> QED
      BY <2>2, <3>1, <3>3
  <2>7. ASSUME NEW n \in 0 .. Size - 1
        PROVE  f[n] \in Int /\ Mod(m, f[n]) = Mod(m, d[n])
    <3>1. n \in Coeffs /\ 0 + n * 1 = n
      BY DEF Coeffs
    <3>2. d[n] = p[n] * PowerMod(g, e * n, m) /\ p[n] \in Int /\ PowerMod(g, e * n, m) \in Int
      BY <2>6, <3>1 DEF FoldedTermsRight
    <3>3. f[n] = (p[n] * PowerMod(g, e * n, m)) % m
      BY <1>1, <2>1, <3>1 DEF Power
    <3>4. PICK x \in Int : x = p[n] * PowerMod(g, e * n, m)
      BY <3>2
    <3>5. Mod(m, x % m) = Mod(m, x) /\ x % m \in Int
      BY ModOfRemainder, ModType DEF Mod
    <3> QED
      BY <3>2, <3>3, <3>4, <3>5
  <2>8. f \in [0 .. Size - 1 -> Int] /\ d \in [0 .. Size - 1 -> Int]
    <3>1. f \in [0 .. Size - 1 -> Int]
      BY <2>7 DEF Coeffs
    <3> QED
      BY <2>6, <3>1 DEF FoldedTermsRight
  <2>9. TermsCongruent(m, Size, f, d)
    BY <2>7 DEF TermsCongruent
  <2> HIDE DEF f, d
  <2>10. Mod(m, SumBelow(f, Size)) = Mod(m, SumBelow(d, Size))
    BY ONLY <1>2, <2>8, <2>9, m \in Nat \ {0}, SumOfCongruent
  <2>11. SumBelow(f, Size) \in Int
    BY <1>2, <2>8, PartialSums
  <2>12. Mod(m, SumBelow(f, Size) % m) = Mod(m, SumBelow(f, Size)) /\ SumBelow(f, Size) % m \in Int
    BY <2>11, ModOfRemainder, ModType DEF Mod
  <2> QED
    BY <2>4, <2>5, <2>10, <2>12
<1>4. Values(p) \in [Coeffs -> Int]
  <2>1. Values(p) = [i \in Coeffs |-> Values(p)[i]]
    BY DEF Values
  <2> QED
    BY <1>3, <2>1
<1>5. Gen = g /\ Order = Size
  BY <1>1, Fields DEF Gen
<1> QED
  BY <1>1, <1>3, <1>4, <1>5 DEF ValuesFold

LEMMA InKeyRight ==
  ASSUME InputRight, NEW name \in Given
  PROVE  /\ name \in Names /\ ~Lowram
         /\ InKey(name) \in [Coeffs -> Int]
         /\ \A i \in Coeffs : Mod(q, InKey(name)[i]) = Mod(q, Folded(q, Gen, Order, 1, Source(name))[i])
<1>1. ~Lowram /\ name \in Names /\ name[1] \in {"A", "t1"}
  BY DEF Given, Names
<1>2. PICK p \in [Coeffs -> Int] : p = Source(name)
  BY <1>1, SourceType
<1>3. InKey(name) = IF Contract THEN expand(compact(Values(p))) ELSE Values(p)
  <2>1. p = IF name[1] = "A" THEN input.A[name[2]] ELSE ScaledT1
    BY <1>1, <1>2 DEF Source
  <2>2. CASE name[1] = "A"
    <3>1. p = input.A[name[2]]
      BY <2>1, <2>2
    <3> QED
      BY <2>2, <3>1 DEF InKey
  <2>3. CASE name[1] # "A"
    <3>1. p = ScaledT1
      BY <2>1, <2>3
    <3> QED
      BY <2>3, <3>1 DEF InKey
  <2> QED
    BY <2>2, <2>3
<1>4. ValuesFold(p)
  BY <1>1, ValuesRight
<1>5. InKey(name) = Values(p)
  BY <1>3, <1>4, Expanded DEF ValuesFold
<1> QED
  BY <1>1, <1>2, <1>4, <1>5 DEF ValuesFold

-----------------------------------------------------------------------------
(* The tables                                                              *)

(* A Montgomery form comes back from its reduction.                        *)
Cancels(m, f, i, t, x) ==
  /\ Mod(m, (((f * t) % m) * x) * i) = Mod(m, t * x)
  /\ (((f * t) % m) * x) * i \in Int

UnitPair(m, f, i) == Mod(m, f * i) = Mod(m, 1)

LEMMA MontgomeryCancels ==
  ASSUME NEW m \in Nat \ {0}, NEW f \in Int, NEW i \in Int, UnitPair(m, f, i),
         NEW t \in Int, NEW x \in Int
  PROVE  Cancels(m, f, i, t, x)
<1>1. PICK ft \in Int, y \in Int : ft = f * t /\ y = ft % m
  <2>1. \A z \in Int : z % m \in Int
    BY ModType DEF Mod
  <2>2. f * t \in Int
    OBVIOUS
  <2> QED
    BY <2>1, <2>2
<1>2. Mod(m, y) = Mod(m, ft)
  BY <1>1, ModOfRemainder
<1>3. PICK xi \in Int, xj \in Int : xi = x * i /\ xj = xi
  OBVIOUS
<1>4. Mod(m, xi) = Mod(m, xj)
  BY <1>3
<1>5. Mod(m, y * xi) = Mod(m, ft * xj)
  BY ONLY <1>2, <1>4, m \in Nat \ {0}, y \in Int, ft \in Int, xi \in Int, xj \in Int, ModMul
<1>6. PICK fi \in Int, o \in Int, tx \in Int, ty \in Int : fi = f * i /\ o = 1 /\ tx = t * x /\ ty = tx
  OBVIOUS
<1>7. Mod(m, fi) = Mod(m, o) /\ Mod(m, tx) = Mod(m, ty)
  BY <1>6 DEF UnitPair
<1>8. Mod(m, fi * tx) = Mod(m, o * ty)
  BY ONLY <1>7, m \in Nat \ {0}, fi \in Int, o \in Int, tx \in Int, ty \in Int, ModMul
<1>9. ft * xj = fi * tx
  BY ONLY <1>1, <1>3, <1>6, f \in Int, t \in Int, x \in Int, i \in Int
<1>10. o * ty = t * x
  BY <1>6
<1>11. (y * x) * i = y * xi
  BY ONLY <1>3, y \in Int, x \in Int, i \in Int
<1>12. (y * x) * i \in Int
  BY <1>11
<1> QED
  BY <1>1, <1>5, <1>8, <1>9, <1>10, <1>11, <1>12 DEF Cancels

(* Where the loops are: block j of c, each of 2 * w coefficients.          *)
At(c, w, j, l, s) ==
  /\ c \in Powers /\ w \in Powers /\ Size = c * (2 * w) /\ SmallestLen <= w
  /\ j \in 0 .. c - 1 /\ l = w /\ s = j * (2 * w)

LEMMA AtLayer ==
  ASSUME NEW c, NEW w, NEW j, NEW l, NEW s, At(c, w, j, l, s)
  PROVE  /\ c \in Nat \ {0} /\ w \in Nat \ {0} /\ j \in 0 .. c - 1
         /\ Layer(Order, c, w)
         /\ c + j \in 1 .. Order - 1 /\ 2 * c - 1 - j \in 1 .. Order - 1 /\ 2 * c <= Order
         /\ Size \div (2 * l) = c /\ s \div (2 * l) = j
         /\ l < Size /\ SmallestLen <= l
<1>1. /\ c \in Nat \ {0} /\ w \in Nat \ {0} /\ j \in 0 .. c - 1 /\ Size = c * (2 * w)
      /\ SmallestLen <= w /\ l = w /\ s = j * (2 * w)
  BY DEF At, Powers
<1>2. PICK o \in Nat \ {0} : o = 2 * w
  BY <1>1
<1>3. Size = c * o
  BY <1>1, <1>2
<1>4. 2 * c <= Order
  <2>1. Size \in Nat /\ Order \in Nat /\ (~Lowram => Order = Size) /\ (Lowram => Size = 2 * Order)
    BY Fields DEF SizeFacts
  <2>2. CASE Lowram
    <3>1. 2 <= w
      BY <1>1, <2>2 DEF SmallestLen
    <3>2. 4 * c <= c * (2 * w)
      BY ONLY <1>1, <3>1
    <3> QED
      BY <1>1, <2>1, <2>2, <3>2
  <2>3. CASE ~Lowram
    <3>1. 2 * c <= c * (2 * w)
      BY ONLY <1>1
    <3> QED
      BY <1>1, <2>1, <2>3, <3>1
  <2> QED
    BY <2>2, <2>3
<1>5. Layer(Order, c, w)
  BY <1>1, <1>4 DEF Layer
<1>6. Order \in Nat
  BY Fields
<1>7. c + j \in 1 .. Order - 1 /\ 2 * c - 1 - j \in 1 .. Order - 1
  BY <1>1, <1>4, <1>6
<1>8. Size \div o = c
  BY <1>1, <1>3, Parts
<1>9. s \div o = j
  <2>1. PICK z \in 0 .. o - 1 : z = 0
    BY <1>2
  <2>2. Placed(o, j * o + z, j, z)
    BY <1>1, <1>3, PlaceOf
  <2>3. j * o + z = s
    <3>1. j * o \in Int /\ s = j * o
      BY <1>1, <1>2
    <3> QED
      BY <2>1, <3>1
  <2> QED
    BY <2>2, <2>3 DEF Placed
<1>10. w < c * (2 * w)
  BY ONLY <1>1
<1> QED
  BY <1>1, <1>2, <1>4, <1>5, <1>7, <1>8, <1>9, <1>10

(* The entry of a node in the table of each implementation.                *)
LEMMA TableEntries ==
  ASSUME NEW node \in 1 .. Order - 1
  PROVE  /\ Twiddle(q, Gen, Order, node) \in Int
         /\ ~Lowram => /\ zetas[node] = (Mont * Twiddle(q, Gen, Order, node)) % q
                       /\ psirev[node] = Twiddle(q, Gen, Order, node)
                       /\ psirevInverse[node] = PowerMod(Gen, 2 * Order - Reversed(Order, node), q)
         /\ Lowram => small_zetas[node] = (SmallMont * Twiddle(q, Gen, Order, node)) % q
<1>1. Twiddle(q, Gen, Order, node) \in Int
  BY Fields, NodeRoots
<1>2. ASSUME ~Lowram
      PROVE  /\ zetas[node] = (Mont * Twiddle(q, Gen, Order, node)) % q
             /\ psirev[node] = Twiddle(q, Gen, Order, node)
             /\ psirevInverse[node] = PowerMod(Gen, 2 * Order - Reversed(Order, node), q)
  <2>1. Gen = Root /\ Order = Size /\ node \in Coeffs /\ node # 0
    BY <1>2, Fields DEF Gen, Order, Coeffs
  <2> QED
    BY <2>1 DEF zetas, psirev, psirevInverse, Power, Twiddle
<1>3. ASSUME Lowram
      PROVE  small_zetas[node] = (SmallMont * Twiddle(q, Gen, Order, node)) % q
  <2>1. Gen = SmallRoot /\ Order = Size \div 2 /\ node \in 0 .. (Size \div 2 - 1)
    BY <1>3, Fields DEF Gen, Order
  <2> QED
    BY <2>1 DEF small_zetas, Power, Twiddle
<1> QED
  BY <1>1, <1>2, <1>3

(* What a butterfly adds and subtracts, in each.                           *)
LEMMA TermsRight ==
  ASSUME NEW node \in 1 .. Order - 1, NEW x \in Int
  PROVE  /\ ~Lowram => /\ montgomery_reduce(zetas[node] * x) \in Int
                       /\ Mod(q, montgomery_reduce(zetas[node] * x)) = Mod(q, Twiddle(q, Gen, Order, node) * x)
                       /\ (psirev[node] * x) % q \in Int
                       /\ Mod(q, (psirev[node] * x) % q) = Mod(q, Twiddle(q, Gen, Order, node) * x)
         /\ Lowram => /\ fqmul(small_zetas[node], x) \in Int
                      /\ Mod(q, fqmul(small_zetas[node], x)) = Mod(q, Twiddle(q, Gen, Order, node) * x)
<1>1. PICK m \in Nat \ {0}, t \in Int : m = q /\ m > 1 /\ t = Twiddle(q, Gen, Order, node)
  BY Fields, TableEntries
<1>2. ASSUME NEW f \in Nat, Inverts(f)
      PROVE  /\ ((((f * t) % m) * x) * ModInverse(f)) % m \in Int
             /\ Mod(m, ((((f * t) % m) * x) * ModInverse(f)) % m) = Mod(m, t * x)
  <2>1. PICK i \in Int, ff \in Int : i = ModInverse(f) /\ ff = f
    BY <1>2 DEF Inverts
  <2>2. UnitPair(m, ff, i)
    <3>1. PICK o \in 0 .. m - 1 : o = 1
      BY <1>1
    <3>2. Mod(m, o) = o
      BY ModOfSmall
    <3>3. (f * i) % m = 1
      BY <1>1, <1>2, <2>1 DEF Inverts
    <3> QED
      BY <2>1, <3>1, <3>2, <3>3 DEF Mod, UnitPair
  <2>3. Cancels(m, ff, i, t, x)
    BY ONLY <2>2, m \in Nat \ {0}, ff \in Int, i \in Int, t \in Int, x \in Int, MontgomeryCancels
  <2>4. PICK y \in Int : y = (((f * t) % m) * x) * i
    BY <2>1, <2>3 DEF Cancels
  <2>5. y % m \in Int /\ Mod(m, y % m) = Mod(m, y)
    BY ModOfRemainder, ModType DEF Mod
  <2> QED
    BY <2>1, <2>3, <2>4, <2>5 DEF Cancels
<1>3. ASSUME ~Lowram
      PROVE  /\ montgomery_reduce(zetas[node] * x) \in Int
             /\ Mod(q, montgomery_reduce(zetas[node] * x)) = Mod(q, t * x)
             /\ (psirev[node] * x) % q \in Int
             /\ Mod(q, (psirev[node] * x) % q) = Mod(q, t * x)
  <2>1. zetas[node] = (Mont * t) % m /\ psirev[node] = t
    BY <1>1, <1>3, TableEntries
  <2>2. Mont \in Nat /\ Inverts(Mont)
    BY <1>3, Inverses
  <2>3. montgomery_reduce(zetas[node] * x) = ((((Mont * t) % m) * x) * ModInverse(Mont)) % m
    BY <1>1, <2>1 DEF montgomery_reduce
  <2>4. PICK y \in Int : y = t * x
    OBVIOUS
  <2>5. y % m \in Int /\ Mod(m, y % m) = Mod(m, y)
    BY ModOfRemainder, ModType DEF Mod
  <2> QED
    BY <1>1, <1>2, <2>1, <2>2, <2>3, <2>4, <2>5
<1>4. ASSUME Lowram
      PROVE  /\ fqmul(small_zetas[node], x) \in Int
             /\ Mod(q, fqmul(small_zetas[node], x)) = Mod(q, t * x)
  <2>1. small_zetas[node] = (SmallMont * t) % m
    BY <1>1, <1>4, TableEntries
  <2>2. SmallMont \in Nat /\ Inverts(SmallMont)
    BY <1>4, Inverses
  <2>3. fqmul(small_zetas[node], x) = ((((SmallMont * t) % m) * x) * ModInverse(SmallMont)) % m
    BY <1>1, <2>1 DEF fqmul
  <2> QED
    BY <1>1, <1>2, <2>2, <2>3
<1> QED
  BY <1>1, <1>3, <1>4

(* A factor that is minus the entry of an opposite node.                   *)
LEMMA NegativeInverse ==
  ASSUME NEW m \in Nat \ {0}, NEW t \in Int, NEW y \in Int, NEW f \in Int,
         Mod(m, t * y) = Mod(m, -1), Mod(m, f) = Mod(m, -y)
  PROVE  UnitPair(m, f, t)
<1>1. PICK n \in Int, tt \in Int : n = -y /\ tt = t
  OBVIOUS
<1>2. Mod(m, f) = Mod(m, n) /\ Mod(m, t) = Mod(m, tt)
  BY <1>1
<1>3. Mod(m, f * t) = Mod(m, n * tt)
  BY ONLY <1>2, m \in Nat \ {0}, f \in Int, t \in Int, n \in Int, tt \in Int, ModMul
<1>4. PICK p \in Int, o \in Int, z \in Int, u \in Int : p = t * y /\ o = -1 /\ z = 0 /\ u = z
  OBVIOUS
<1>5. Mod(m, p) = Mod(m, o) /\ Mod(m, z) = Mod(m, u)
  BY <1>4
<1>6. Mod(m, z - p) = Mod(m, u - o)
  BY ONLY <1>5, m \in Nat \ {0}, z \in Int, p \in Int, u \in Int, o \in Int, ModSub
<1>7. n * tt = z - p /\ u - o = 1
  <2>1. (-y) * t = 0 - t * y
    BY ONLY y \in Int, t \in Int
  <2> QED
    BY <1>1, <1>4, <2>1
<1> QED
  BY <1>3, <1>6, <1>7 DEF UnitPair

LEMMA OppositeNodes ==
  ASSUME NEW c, NEW w, NEW j, NEW l, NEW s, At(c, w, j, l, s)
  PROVE  /\ Twiddle(q, Gen, Order, c + j) \in Int
         /\ Twiddle(q, Gen, Order, 2 * c - 1 - j) \in Int
         /\ Mod(q, Twiddle(q, Gen, Order, c + j) * Twiddle(q, Gen, Order, 2 * c - 1 - j)) = Mod(q, -1)
         /\ UnitPair(q, PowerMod(Gen, 2 * Order - Reversed(Order, c + j), q), Twiddle(q, Gen, Order, c + j))
         /\ PowerMod(Gen, 2 * Order - Reversed(Order, c + j), q) \in Int
<1>1. /\ c \in Nat \ {0} /\ j \in 0 .. c - 1 /\ 2 * c <= Order
      /\ c + j \in 1 .. Order - 1 /\ 2 * c - 1 - j \in 1 .. Order - 1 /\ c \in Powers
  <2>1. c \in Powers
    BY DEF At
  <2> QED
    BY <2>1, AtLayer
<1>2. PICK m \in Nat \ {0}, g \in Int, h \in Nat \ {0} :
        m = q /\ g = Gen /\ h = Order /\ Ring(m, g, h) /\ h \in Orders
  BY Fields, RingTypes
<1>3. PICK e \in Nat, f \in Nat : e = Reversed(h, c + j) /\ f = Reversed(h, 2 * c - 1 - j)
  BY <1>1, <1>2, ExponentOfChildren
<1>4. e + f = h
  BY <1>1, <1>2, <1>3, ReversedComplement
<1>5. Mod(m, PowerMod(g, e, m) * PowerMod(g, f, m)) = Mod(m, -1)
  BY <1>2, <1>4, Opposite
<1>6. PICK d \in Nat : d = 2 * h - e
  <2>1. h + f \in Nat /\ h + f = 2 * h - e
    BY ONLY <1>4, h \in Nat \ {0}, e \in Nat, f \in Nat
  <2> QED
    BY <2>1
<1>7. Mod(m, PowerMod(g, d + e, m)) = Mod(m, PowerMod(g, d, m) * PowerMod(g, e, m))
  BY <1>2, PowerOfSum
<1>8. Mod(m, PowerMod(g, d + e, m)) = Mod(m, 1)
  <2>1. PICK z \in Nat, o \in Nat : z = 0 /\ o = 1
    OBVIOUS
  <2>2. Mod(m, PowerMod(g, z + 2 * (h * o), m)) = Mod(m, PowerMod(g, z, m))
    <3>1. Ring(m, g, h)
      BY <1>2
    <3> QED
      BY ONLY <3>1, z \in Nat, o \in Nat, Turns
  <2>3. z + 2 * (h * o) = d + e
    BY <1>6, <2>1
  <2>4. PowerMod(g, z, m) = 1
    BY <2>1, PowerSteps
  <2> QED
    BY <2>2, <2>3, <2>4
<1>9. PowerMod(g, d, m) \in Int /\ PowerMod(g, e, m) \in Int /\ PowerMod(g, f, m) \in Int
  BY PowerSteps
<1> QED
  BY <1>2, <1>3, <1>5, <1>6, <1>7, <1>8, <1>9 DEF Twiddle, UnitPair

LEMMA FactorsRight ==
  ASSUME NEW c, NEW w, NEW j, NEW l, NEW s, At(c, w, j, l, s)
  PROVE  /\ ~Lowram => /\ montgomery_reduce(-zetas[2 * c - 1 - j]) \in Int
                       /\ UnitPair(q, montgomery_reduce(-zetas[2 * c - 1 - j]), Twiddle(q, Gen, Order, c + j))
                       /\ psirevInverse[c + j] \in Int
                       /\ UnitPair(q, psirevInverse[c + j], Twiddle(q, Gen, Order, c + j))
         /\ Lowram => /\ -fqmul(small_zetas[2 * c - 1 - j], 1) \in Int
                      /\ UnitPair(q, -fqmul(small_zetas[2 * c - 1 - j], 1), Twiddle(q, Gen, Order, c + j))
<1>1. PICK node \in 1 .. Order - 1, other \in 1 .. Order - 1 : node = c + j /\ other = 2 * c - 1 - j
  BY AtLayer
<1>2. PICK m \in Nat \ {0}, t \in Int, y \in Int :
        m = q /\ t = Twiddle(q, Gen, Order, node) /\ y = Twiddle(q, Gen, Order, other)
  BY <1>1, Fields, TableEntries
<1>3. Mod(m, t * y) = Mod(m, -1)
  BY <1>1, <1>2, OppositeNodes
<1>4. ASSUME ~Lowram
      PROVE  /\ montgomery_reduce(-zetas[other]) \in Int
             /\ UnitPair(m, montgomery_reduce(-zetas[other]), t)
             /\ psirevInverse[node] \in Int
             /\ UnitPair(m, psirevInverse[node], t)
  <2>1. PICK o \in Int : o = -1
    OBVIOUS
  <2>2. zetas[other] \in Int
    <3>1. zetas[other] = (Mont * y) % m
      BY <1>2, <1>4, TableEntries
    <3>2. Mont \in Nat
      BY <1>4, Inverses
    <3>3. PICK z \in Int : z = Mont * y
      BY <3>2
    <3>4. z % m \in Int
      BY ModType DEF Mod
    <3> QED
      BY <3>1, <3>3, <3>4
  <2>3. zetas[other] * o = -zetas[other]
    BY <2>1, <2>2
  <2>4. PICK f \in Int : f = montgomery_reduce(-zetas[other]) /\ Mod(m, f) = Mod(m, y * o)
    <3>1. montgomery_reduce(zetas[other] * o) \in Int
          /\ Mod(q, montgomery_reduce(zetas[other] * o)) = Mod(q, y * o)
      BY <1>2, <1>4, TermsRight
    <3> QED
      BY <1>2, <2>3, <3>1
  <2>5. y * o = -y
    BY <2>1
  <2>6. UnitPair(m, f, t)
    <3>1. Mod(m, f) = Mod(m, -y)
      BY <2>4, <2>5
    <3> QED
      BY ONLY <1>3, <3>1, m \in Nat \ {0}, t \in Int, y \in Int, f \in Int, NegativeInverse
  <2>7. psirevInverse[node] = PowerMod(Gen, 2 * Order - Reversed(Order, node), q)
    BY <1>4, TableEntries
  <2>8. psirevInverse[node] \in Int /\ UnitPair(m, psirevInverse[node], t)
    BY <1>1, <1>2, <2>7, OppositeNodes
  <2> QED
    BY <2>4, <2>6, <2>8
<1>5. ASSUME Lowram
      PROVE  /\ -fqmul(small_zetas[other], 1) \in Int
             /\ UnitPair(m, -fqmul(small_zetas[other], 1), t)
  <2>1. PICK o \in Int : o = 1
    OBVIOUS
  <2>2. fqmul(small_zetas[other], o) \in Int /\ Mod(q, fqmul(small_zetas[other], o)) = Mod(q, y * o)
    BY <1>2, <1>5, TermsRight
  <2>3. PICK f \in Int, n \in Int : f = fqmul(small_zetas[other], 1) /\ n = -f /\ Mod(m, f) = Mod(m, y)
    <3>1. y * o = y
      BY <2>1
    <3> QED
      BY <1>2, <2>1, <2>2, <3>1
  <2>4. Mod(m, n) = Mod(m, -y)
    <3>1. PICK z \in Int, u \in Int : z = 0 /\ u = z
      OBVIOUS
    <3>2. Mod(m, z) = Mod(m, u)
      BY <3>1
    <3>3. Mod(m, z - f) = Mod(m, u - y)
      BY ONLY <2>3, <3>2, m \in Nat \ {0}, z \in Int, u \in Int, f \in Int, y \in Int, ModSub
    <3>4. z - f = n /\ u - y = -y
      BY <2>3, <3>1
    <3> QED
      BY <3>3, <3>4
  <2>5. UnitPair(m, n, t)
    BY ONLY <1>3, <2>4, m \in Nat \ {0}, t \in Int, y \in Int, n \in Int, NegativeInverse
  <2> QED
    BY <2>3, <2>5
<1> QED
  BY <1>1, <1>2, <1>4, <1>5

-----------------------------------------------------------------------------
(* The products of the smallest blocks                                     *)

(* A product of factors that are congruent to x and y, and its reduction   *)
(* from Montgomery form.                                                   *)
ReducedProduct(m, f, i, x, y) == f \in Int /\ Mod(m, f) = Mod(m, i * (x * y))

LEMMA ReducedProducts ==
  ASSUME NEW m \in Nat \ {0}, NEW u \in Int, NEW v \in Int, NEW x \in Int, NEW y \in Int,
         Mod(m, u) = Mod(m, x), Mod(m, v) = Mod(m, y), NEW i \in Int
  PROVE  ReducedProduct(m, (u * v * i) % m, i, x, y)
<1>1. PICK uv \in Int, xy \in Int, d \in Int : uv = u * v /\ xy = x * y /\ d = i
  OBVIOUS
<1>2. Mod(m, uv) = Mod(m, xy) /\ Mod(m, i) = Mod(m, d)
  <2>1. Mod(m, u * v) = Mod(m, x * y)
    BY ModMul
  <2> QED
    BY <1>1, <2>1
<1>3. Mod(m, uv * i) = Mod(m, xy * d)
  BY ONLY <1>2, m \in Nat \ {0}, uv \in Int, xy \in Int, i \in Int, d \in Int, ModMul
<1>4. xy * d = i * (x * y)
  BY <1>1
<1>5. PICK p \in Int : p = uv * i
  OBVIOUS
<1>6. Mod(m, p % m) = Mod(m, p) /\ p % m \in Int
  BY ModOfRemainder, ModType DEF Mod
<1>7. u * v * i = p
  BY <1>1, <1>5
<1> QED
  BY <1>3, <1>4, <1>5, <1>6, <1>7 DEF ReducedProduct

LEMMA CodeProducts ==
  ASSUME NEW u \in Int, NEW v \in Int, NEW x \in Int, NEW y \in Int,
         Mod(q, u) = Mod(q, x), Mod(q, v) = Mod(q, y)
  PROVE  /\ ~Lowram => /\ ReducedProduct(q, montgomery_reduce(u * v), ModInverse(Mont), x, y)
                       /\ ReducedProduct(q, (u * v) % q, 1, x, y)
         /\ Lowram => ReducedProduct(q, fqmul(u, v), ModInverse(SmallMont), x, y)
<1>1. PICK m \in Nat \ {0} : m = q
  BY Fields
<1>2. Mod(m, u) = Mod(m, x) /\ Mod(m, v) = Mod(m, y)
  BY <1>1
<1>3. ASSUME NEW i \in Int
      PROVE  ReducedProduct(m, (u * v * i) % m, i, x, y)
  BY ONLY <1>2, m \in Nat \ {0}, u \in Int, v \in Int, x \in Int, y \in Int, i \in Int, ReducedProducts
<1>4. ASSUME ~Lowram
      PROVE  /\ ReducedProduct(m, montgomery_reduce(u * v), ModInverse(Mont), x, y)
             /\ ReducedProduct(m, (u * v) % m, 1, x, y)
  <2>1. ModInverse(Mont) \in Int
    BY <1>4, Inverses DEF Inverts
  <2>2. ReducedProduct(m, (u * v * ModInverse(Mont)) % m, ModInverse(Mont), x, y)
    BY <1>3, <2>1
  <2>3. ReducedProduct(m, (u * v * 1) % m, 1, x, y)
    BY <1>3
  <2>4. u * v * 1 = u * v
    OBVIOUS
  <2> QED
    BY <1>1, <2>2, <2>3, <2>4 DEF montgomery_reduce
<1>5. ASSUME Lowram
      PROVE  ReducedProduct(m, fqmul(u, v), ModInverse(SmallMont), x, y)
  <2>1. ModInverse(SmallMont) \in Int
    BY <1>5, Inverses DEF Inverts
  <2>2. ReducedProduct(m, (u * v * ModInverse(SmallMont)) % m, ModInverse(SmallMont), x, y)
    BY <1>3, <2>1
  <2> QED
    BY <1>1, <2>2 DEF fqmul
<1> QED
  BY <1>1, <1>4, <1>5

(* Blocks of one coefficient.                                              *)
LEMMA SmallestBlock ==
  ASSUME NEW m, NEW g, NEW h, Ring(m, g, h), NEW x \in [Coeffs -> Int], NEW y \in [Coeffs -> Int],
         NEW i \in Coeffs, Size \in Nat \ {0}
  PROVE  Blocks(m, g, h, 1, x, y)[i] = x[i] * y[i]
<1>1. Size \div 1 = Size /\ i \div 1 = i /\ i % 1 = 0 /\ i * 1 = i
  BY DEF Coeffs
<1> DEFINE r == RootOf(m, g, h, Size + i)
           f == BlockTerms(r, 1, Slice(x, i, 1), Slice(y, i, 1), 0)
<1>2. Blocks(m, g, h, 1, x, y)[i] = SumBelow(f, 1)
  BY <1>1 DEF Blocks, BlockOf, BlockAt
<1>3. f[0] = x[i] * y[i]
  <2>1. f[0] = Slice(x, i, 1)[0] * Slice(y, i, 1)[0]
    BY DEF BlockTerms
  <2>2. Slice(x, i, 1)[0] = x[i] /\ Slice(y, i, 1)[0] = y[i]
    BY DEF Slice, Coeffs
  <2> QED
    BY <2>1, <2>2
<1>4. f \in [0 .. 0 -> Int]
  <2>1. x[i] * y[i] \in Int
    <3>1. x[i] \in Int /\ y[i] \in Int
      OBVIOUS
    <3> QED
      BY <3>1
  <2>2. f = [v \in 0 .. 0 |-> f[v]]
    BY DEF BlockTerms
  <2> HIDE DEF f
  <2>3. \A v \in 0 .. 0 : f[v] \in Int
    BY <1>3, <2>1
  <2> QED
    BY <2>2, <2>3
<1> HIDE DEF f
<1>5. SumBelow(f, 1) = f[0]
  <2>1. PICK o \in Nat : o = 1
    OBVIOUS
  <2>2. f \in [0 .. o - 1 -> Int]
    BY <1>4, <2>1
  <2>3. /\ SumBelow(f, o) = Partials(f, o)[o]
        /\ Partials(f, o)[0] = 0
        /\ \A n \in 0 .. o - 1 : Partials(f, o)[n + 1] = Partials(f, o)[n] + f[n]
    BY <2>2, PartialSums
  <2> QED
    BY <1>4, <2>1, <2>3
<1> QED
  BY <1>2, <1>3, <1>5

(* Blocks of two.                                                          *)
PairProducts(m, g, h, x, y, c, j, r) ==
  /\ Placed(2, j * 2, j, 0) /\ Placed(2, j * 2 + 1, j, 1)
  /\ Blocks(m, g, h, 2, x, y)[j * 2] = x[j * 2] * y[j * 2] + x[j * 2 + 1] * (r * y[j * 2 + 1])
  /\ Blocks(m, g, h, 2, x, y)[j * 2 + 1] = x[j * 2] * y[j * 2 + 1] + x[j * 2 + 1] * y[j * 2]

LEMMA PairBlock ==
  ASSUME NEW m, NEW g, NEW h, Ring(m, g, h), NEW x \in [Coeffs -> Int], NEW y \in [Coeffs -> Int],
         NEW c \in Nat \ {0}, Size = c * 2, NEW j \in 0 .. c - 1, NEW r \in Int,
         r = RootOf(m, g, h, c + j)
  PROVE  PairProducts(m, g, h, x, y, c, j, r)
<1>1. PICK w \in Nat \ {0} : w = 2
  OBVIOUS
<1>2. Size = c * w
  BY <1>1
<1>3. Placed(2, j * 2, j, 0) /\ Placed(2, j * 2 + 1, j, 1)
  <2>1. PICK z \in 0 .. w - 1, o \in 0 .. w - 1 : z = 0 /\ o = 1
    BY <1>1
  <2>2. Placed(w, j * w + z, j, z) /\ Placed(w, j * w + o, j, o)
    BY <1>2, PlaceOf
  <2>3. j * w + z = j * 2 /\ j * w + o = j * 2 + 1
    BY <1>1, <2>1
  <2> QED
    BY <1>1, <2>1, <2>2, <2>3
<1>4. Size \div 2 = c
  BY <1>1, <1>2, Parts
<1> DEFINE b == j * 2  X == Slice(x, b, 2)  Y == Slice(y, b, 2)
           f(n) == BlockTerms(r, 2, X, Y, n)
<1>5. b \in Nat /\ b \in Coeffs /\ b + 1 \in Coeffs
  BY <1>3 DEF Placed
<1>6. /\ Blocks(m, g, h, 2, x, y)[b] = SumBelow(f(0), 2)
      /\ Blocks(m, g, h, 2, x, y)[b + 1] = SumBelow(f(1), 2)
  <2>1. /\ b \div 2 = j /\ b % 2 = 0 /\ (b + 1) \div 2 = j /\ (b + 1) % 2 = 1
    BY <1>3 DEF Placed
  <2> QED
    BY <1>4, <1>5, <2>1 DEF Blocks, BlockOf, BlockAt
<1>7. X[0] = x[b] /\ X[1] = x[b + 1] /\ Y[0] = y[b] /\ Y[1] = y[b + 1]
      /\ X \in [0 .. 1 -> Int] /\ Y \in [0 .. 1 -> Int]
  <2>1. \A n \in 0 .. 1 : b + n \in Coeffs
    BY <1>5
  <2>2. b + 0 = b
    BY <1>5
  <2> HIDE DEF b
  <2> QED
    BY <2>1, <2>2 DEF Slice
<1>8. /\ f(0)[0] = X[0] * Y[0] /\ f(0)[1] = X[1] * (r * Y[1])
      /\ f(1)[0] = X[0] * Y[1] /\ f(1)[1] = X[1] * Y[0]
  BY DEF BlockTerms
<1> HIDE DEF X, Y, b
<1>9. ASSUME NEW n \in 0 .. 1
      PROVE  SumBelow(f(n), 2) = f(n)[0] + f(n)[1] /\ f(n)[0] \in Int /\ f(n)[1] \in Int
  <2>1. X \in [0 .. w - 1 -> Int] /\ Y \in [0 .. w - 1 -> Int] /\ n \in 0 .. w - 1
    BY <1>1, <1>7
  <2>2. BlockTermsRight(r, w, X, Y, n)
    BY ONLY <2>1, r \in Int, w \in Nat \ {0}, BlockTermsType
  <2> DEFINE d == f(n)
  <2>3. d \in [0 .. w - 1 -> Int]
    BY <1>1, <2>2 DEF BlockTermsRight
  <2> HIDE DEF d
  <2>4. /\ SumBelow(d, w) = Partials(d, w)[w]
        /\ Partials(d, w)[0] = 0
        /\ \A v \in 0 .. w - 1 : Partials(d, w)[v + 1] = Partials(d, w)[v] + d[v]
    BY <2>3, PartialSums
  <2>5. Partials(d, w)[0 + 1] = 0 + d[0] /\ Partials(d, w)[1 + 1] = Partials(d, w)[1] + d[1]
    <3>1. 0 \in 0 .. w - 1 /\ 1 \in 0 .. w - 1
      BY <1>1
    <3> QED
      BY <2>4, <3>1
  <2>6. d[0] \in Int /\ d[1] \in Int
    BY <1>1, <2>3
  <2>7. SumBelow(d, 2) = d[0] + d[1]
    BY <1>1, <2>4, <2>5, <2>6
  <2> QED
    BY <2>6, <2>7 DEF d
<1> HIDE DEF f
<1>10. /\ Blocks(m, g, h, 2, x, y)[b] = x[b] * y[b] + x[b + 1] * (r * y[b + 1])
       /\ Blocks(m, g, h, 2, x, y)[b + 1] = x[b] * y[b + 1] + x[b + 1] * y[b]
  BY <1>6, <1>7, <1>8, <1>9
<1> QED
  BY <1>3, <1>10 DEF b, PairProducts

-----------------------------------------------------------------------------
(* From the transforms of the operands to the one of the result            *)

SmallFold(name) == Folded(q, Gen, Order, SmallestLen, Source(name))

HatRight(hats) ==
  /\ DOMAIN hats \subseteq Names
  /\ \A name \in DOMAIN hats :
       /\ hats[name] \in [Coeffs -> Int]
       /\ \A i \in Coeffs : Mod(q, hats[name][i]) = Mod(q, SmallFold(name)[i])

Tree(w) ==
  IF Lowram THEN PairTree(q, Gen, Order, w, input.c, input.s)
  ELSE RowTree(q, Gen, Order, w, input.A, input.z, input.c, ScaledT1)

Unit ==
  IF impl = "c-ref" THEN ModInverse(Mont)
  ELSE IF Lowram THEN ModInverse(SmallMont) ELSE 1

StartRight(m, e, f, p, t, b) ==
  Mod(m, SumBelow(f, RowLen) - t) = Mod(m, e * (SumBelow(p, RowLen) - b))

LEMMA RowBegins ==
  ASSUME NEW m \in Nat \ {0}, NEW e \in Int, NEW f, f \in [0 .. RowLen - 1 -> Int],
         NEW p, p \in [0 .. RowLen - 1 -> Int], TermMultiples(m, RowLen, e, f, p),
         NEW t \in Int, NEW b \in Int, Mod(m, t) = Mod(m, e * b)
  PROVE  StartRight(m, e, f, p, t, b) /\ SumBelow(f, RowLen) \in Int
<1>1. RowLen \in Nat
  BY Fields
<1>2. PICK x \in Int, y \in Int : x = SumBelow(f, RowLen) /\ y = SumBelow(p, RowLen)
  BY <1>1, PartialSums
<1>3. MultipleSums(m, RowLen, e, f, p)
  BY ONLY <1>1, m \in Nat \ {0}, e \in Int, f \in [0 .. RowLen - 1 -> Int],
          p \in [0 .. RowLen - 1 -> Int], TermMultiples(m, RowLen, e, f, p), SumOfMultiples
<1>4. PICK ey \in Int, eb \in Int : ey = e * y /\ eb = e * b
  OBVIOUS
<1>5. Mod(m, x) = Mod(m, ey) /\ Mod(m, t) = Mod(m, eb)
  BY <1>2, <1>3, <1>4 DEF MultipleSums
<1>6. Mod(m, x - t) = Mod(m, ey - eb)
  BY ONLY <1>5, m \in Nat \ {0}, x \in Int, t \in Int, ey \in Int, eb \in Int, ModSub
<1>7. ey - eb = e * (y - b)
  BY ONLY <1>4, e \in Int, y \in Int, b \in Int
<1> QED
  BY <1>2, <1>6, <1>7 DEF StartRight

HatProductRight(i, x, y, t) ==
  /\ t \in Int
  /\ montgomery_reduce(x[i] * y[i]) \in Int
  /\ Mod(q, montgomery_reduce(x[i] * y[i])) = Mod(q, ModInverse(Mont) * t)
  /\ (x[i] * y[i]) % q \in Int
  /\ Mod(q, (x[i] * y[i]) % q) = Mod(q, 1 * t)
  /\ x[i] * y[i] = y[i] * x[i]

(* A product of two transforms is a coefficient of the last layer of the   *)
(* product, or its reduction.                                              *)
LEMMA HatProducts ==
  ASSUME InputRight, ~Lowram, HatRight(hat), NEW n \in DOMAIN hat, NEW o \in DOMAIN hat, NEW i \in Coeffs
  PROVE  HatProductRight(i, hat[n], hat[o], PairTree(q, Gen, Order, 1, Source(n), Source(o))[i])
<1>1. n \in Names /\ o \in Names /\ Ring(q, Gen, Order) /\ Size \in Nat \ {0}
  BY Fields DEF HatRight, SizeFacts
<1>2. SmallestLen = 1
  BY DEF SmallestLen
<1> DEFINE X == SmallFold(n)  Y == SmallFold(o)
<1>3. X \in [Coeffs -> Int] /\ Y \in [Coeffs -> Int]
  <2>1. Source(n) \in [Coeffs -> Int] /\ Source(o) \in [Coeffs -> Int]
    BY <1>1, SourceType
  <2>2. PICK w \in Nat \ {0} : w = 1
    OBVIOUS
  <2>3. Size = Size * w /\ Size <= Order
    BY <1>1, <2>2, Fields
  <2>4. Folded(q, Gen, Order, w, Source(n)) \in [Coeffs -> Int]
        /\ Folded(q, Gen, Order, w, Source(o)) \in [Coeffs -> Int]
    BY <1>1, <2>1, <2>3, FlatTypes
  <2> QED
    BY <1>2, <2>2, <2>4 DEF SmallFold
<1>4. PairTree(q, Gen, Order, 1, Source(n), Source(o))[i] = X[i] * Y[i]
  <2>1. PairTree(q, Gen, Order, 1, Source(n), Source(o)) = Blocks(q, Gen, Order, 1, X, Y)
    BY <1>2 DEF PairTree, SmallFold
  <2> HIDE DEF X, Y
  <2> QED
    BY <1>1, <1>3, <2>1, SmallestBlock
<1>5. PICK u \in Int, v \in Int, x \in Int, y \in Int :
        u = hat[n][i] /\ v = hat[o][i] /\ x = X[i] /\ y = Y[i]
  BY <1>3 DEF HatRight
<1>6. Mod(q, u) = Mod(q, x) /\ Mod(q, v) = Mod(q, y)
  BY <1>5 DEF HatRight
<1> HIDE DEF X, Y
<1>7. /\ ReducedProduct(q, montgomery_reduce(u * v), ModInverse(Mont), x, y)
      /\ ReducedProduct(q, (u * v) % q, 1, x, y)
  BY <1>6, CodeProducts
<1>8. x * y \in Int /\ u * v = v * u
  OBVIOUS
<1> QED
  BY <1>4, <1>5, <1>7, <1>8 DEF ReducedProduct, HatProductRight

AllTransformed == \A name \in Names : name \in DOMAIN hat

Started(x) ==
  /\ x \in [Coeffs -> Int]
  /\ \A i \in Coeffs : Mod(q, x[i]) = Mod(q, Unit * Tree(SmallestLen)[i])

RowStartOf(F, P, t, b, e, i) ==
  /\ F \in [0 .. RowLen - 1 -> Int] /\ P \in [0 .. RowLen - 1 -> Int]
  /\ TermMultiples(q, RowLen, e, F, P)
  /\ t \in Int /\ b \in Int /\ Mod(q, t) = Mod(q, e * b)
  /\ Tree(SmallestLen)[i] = SumBelow(P, RowLen) - b

LEMMA RowTreeAt ==
  ASSUME InputRight, ~Lowram, HatRight(hat), AllTransformed, NEW i \in Coeffs
  PROVE  \E P, b :
           /\ RowStartOf([j \in Column |-> montgomery_reduce(hat[<<"A", j>>][i] * hat[<<"z", j>>][i])], P,
                         montgomery_reduce(hat[<<"c", 1>>][i] * hat[<<"t1", 1>>][i]), b, ModInverse(Mont), i)
           /\ RowStartOf([j \in Column |-> (hat[<<"A", j>>][i] * hat[<<"z", j>>][i]) % q], P,
                         (hat[<<"t1", 1>>][i] * hat[<<"c", 1>>][i]) % q, b, 1, i)
<1> DEFINE T(j) == PairTree(q, Gen, Order, 1, input.A[j], input.z[j])
           P == [j \in Column |-> T(j)[i]]
           b == PairTree(q, Gen, Order, 1, input.c, ScaledT1)[i]
           F == [j \in Column |-> montgomery_reduce(hat[<<"A", j>>][i] * hat[<<"z", j>>][i])]
           E == [j \in Column |-> (hat[<<"A", j>>][i] * hat[<<"z", j>>][i]) % q]
           t == montgomery_reduce(hat[<<"c", 1>>][i] * hat[<<"t1", 1>>][i])
           u == (hat[<<"t1", 1>>][i] * hat[<<"c", 1>>][i]) % q
<1>1. SmallestLen = 1 /\ Column = 0 .. RowLen - 1
  BY DEF SmallestLen, Column
<1>2. ASSUME NEW j \in Column
      PROVE  HatProductRight(i, hat[<<"A", j>>], hat[<<"z", j>>], T(j)[i])
  <2>1. <<"A", j>> \in DOMAIN hat /\ <<"z", j>> \in DOMAIN hat
    BY DEF AllTransformed, Names
  <2>2. Source(<<"A", j>>) = input.A[j] /\ Source(<<"z", j>>) = input.z[j]
    BY DEF Source
  <2>3. HatProductRight(i, hat[<<"A", j>>], hat[<<"z", j>>],
                        PairTree(q, Gen, Order, 1, Source(<<"A", j>>), Source(<<"z", j>>))[i])
    BY <2>1, HatProducts
  <2> QED
    BY <2>2, <2>3
<1>3. HatProductRight(i, hat[<<"c", 1>>], hat[<<"t1", 1>>], b)
  <2>1. <<"c", 1>> \in DOMAIN hat /\ <<"t1", 1>> \in DOMAIN hat
    BY DEF AllTransformed, Names
  <2>2. Source(<<"c", 1>>) = input.c /\ Source(<<"t1", 1>>) = ScaledT1
    BY DEF Source
  <2>3. HatProductRight(i, hat[<<"c", 1>>], hat[<<"t1", 1>>],
                        PairTree(q, Gen, Order, 1, Source(<<"c", 1>>), Source(<<"t1", 1>>))[i])
    BY <2>1, HatProducts
  <2> QED
    BY <2>2, <2>3
<1>4. Tree(SmallestLen)[i] = SumBelow(P, RowLen) - b
  <2> DEFINE X == [j \in Column |-> PairTree(q, Gen, Order, 1, input.A[j], input.z[j])]
  <2>1. Tree(SmallestLen)[i] = SumBelow([j \in Column |-> X[j][i]], RowLen) - b
    BY <1>1 DEF Tree, RowTree, RowOf
  <2>2. [j \in Column |-> X[j][i]] = P
    OBVIOUS
  <2> QED
    BY <2>1, <2>2
<1> HIDE DEF T, b
<1>5. \A j \in Column : /\ F[j] \in Int /\ E[j] \in Int /\ P[j] \in Int
                        /\ Mod(q, F[j]) = Mod(q, ModInverse(Mont) * P[j])
                        /\ Mod(q, E[j]) = Mod(q, 1 * P[j])
  <2> TAKE j \in Column
  <2>1. HatProductRight(i, hat[<<"A", j>>], hat[<<"z", j>>], T(j)[i])
    BY <1>2
  <2>2. /\ F[j] = montgomery_reduce(hat[<<"A", j>>][i] * hat[<<"z", j>>][i])
        /\ E[j] = (hat[<<"A", j>>][i] * hat[<<"z", j>>][i]) % q
        /\ P[j] = T(j)[i]
    OBVIOUS
  <2> HIDE DEF F, E, P
  <2> QED
    BY <2>1, <2>2 DEF HatProductRight
<1>6. /\ F \in [Column -> Int] /\ E \in [Column -> Int] /\ P \in [Column -> Int]
  <2>1. F = [j \in Column |-> F[j]] /\ E = [j \in Column |-> E[j]] /\ P = [j \in Column |-> P[j]]
    OBVIOUS
  <2> HIDE DEF F, E, P
  <2> QED
    BY <1>5, <2>1
<1> HIDE DEF F, E, P
<1>7. RowStartOf(F, P, t, b, ModInverse(Mont), i)
  <2>1. TermMultiples(q, RowLen, ModInverse(Mont), F, P)
    BY <1>1, <1>5 DEF TermMultiples
  <2>2. t \in Int /\ b \in Int /\ Mod(q, t) = Mod(q, ModInverse(Mont) * b)
    BY <1>3 DEF HatProductRight
  <2> HIDE DEF t
  <2> QED
    BY <1>1, <1>4, <1>6, <2>1, <2>2 DEF RowStartOf
<1>8. RowStartOf(E, P, u, b, 1, i)
  <2>1. TermMultiples(q, RowLen, 1, E, P)
    BY <1>1, <1>5 DEF TermMultiples
  <2>2. u \in Int /\ b \in Int /\ Mod(q, u) = Mod(q, 1 * b)
    BY <1>3 DEF HatProductRight
  <2> HIDE DEF u
  <2> QED
    BY <1>1, <1>4, <1>6, <2>1, <2>2 DEF RowStartOf
<1> QED
  BY <1>7, <1>8 DEF F, E, t, u

PointwiseArray ==
  [i \in Coeffs |->
    (SumBelow([j \in Column |-> montgomery_reduce(hat[<<"A", j>>][i] * hat[<<"z", j>>][i])], RowLen)
       - montgomery_reduce(hat[<<"c", 1>>][i] * hat[<<"t1", 1>>][i])) % q]

CoreArray == vecSubMod(matVecProduct, vecMulMod(hat[<<"t1", 1>>], hat[<<"c", 1>>]))

(* A sum of the terms of a row, minus one more, is congruent to e times    *)
(* the row.                                                                *)
LEMMA StartOfRow ==
  ASSUME NEW F, NEW P, NEW t, NEW b, NEW e \in Int, NEW i \in Coeffs, RowStartOf(F, P, t, b, e, i)
  PROVE  /\ SumBelow(F, RowLen) \in Int /\ t \in Int
         /\ Mod(q, SumBelow(F, RowLen) - t) = Mod(q, e * Tree(SmallestLen)[i])
<1>1. PICK m \in Nat \ {0} : m = q
  BY Fields
<1>2. /\ F \in [0 .. RowLen - 1 -> Int] /\ P \in [0 .. RowLen - 1 -> Int]
      /\ TermMultiples(m, RowLen, e, F, P) /\ Mod(m, t) = Mod(m, e * b)
      /\ Tree(SmallestLen)[i] = SumBelow(P, RowLen) - b
  BY <1>1 DEF RowStartOf
<1>3. PICK tt \in Int, bb \in Int : tt = t /\ bb = b
  BY DEF RowStartOf
<1>4. Mod(m, tt) = Mod(m, e * bb)
  BY <1>2, <1>3
<1>5. StartRight(m, e, F, P, tt, bb) /\ SumBelow(F, RowLen) \in Int
  BY ONLY <1>2, <1>4, m \in Nat \ {0}, e \in Int, tt \in Int, bb \in Int, RowBegins
<1> QED
  BY <1>1, <1>2, <1>3, <1>5 DEF StartRight

LEMMA PointwiseStarted ==
  ASSUME InputRight, impl = "c-ref", HatRight(hat), AllTransformed
  PROVE  Started(PointwiseArray)
<1>1. ~Lowram /\ Unit = ModInverse(Mont) /\ Unit \in Int /\ q \in Nat \ {0}
  BY Inverses, Fields DEF Lowram, Unit, Inverts
<1>2. ASSUME NEW i \in Coeffs
      PROVE  PointwiseArray[i] \in Int /\ Mod(q, PointwiseArray[i]) = Mod(q, Unit * Tree(SmallestLen)[i])
  <2> DEFINE F == [j \in Column |-> montgomery_reduce(hat[<<"A", j>>][i] * hat[<<"z", j>>][i])]
             t == montgomery_reduce(hat[<<"c", 1>>][i] * hat[<<"t1", 1>>][i])
  <2>1. PICK P, b : RowStartOf(F, P, t, b, Unit, i)
    BY <1>1, RowTreeAt
  <2>2. PointwiseArray[i] = (SumBelow(F, RowLen) - t) % q
    BY DEF PointwiseArray
  <2> HIDE DEF F, t
  <2>3. /\ SumBelow(F, RowLen) \in Int /\ t \in Int
        /\ Mod(q, SumBelow(F, RowLen) - t) = Mod(q, Unit * Tree(SmallestLen)[i])
    BY <1>1, <2>1, StartOfRow
  <2>4. PICK x \in Int : x = SumBelow(F, RowLen) - t
    BY <2>3
  <2>5. Mod(q, x % q) = Mod(q, x) /\ x % q \in Int
    BY <1>1, ModOfRemainder, ModType DEF Mod
  <2> QED
    BY <2>2, <2>3, <2>4, <2>5
<1>3. PointwiseArray \in [Coeffs -> Int]
  <2>1. PointwiseArray = [i \in Coeffs |-> PointwiseArray[i]]
    BY DEF PointwiseArray
  <2> QED
    BY <1>2, <2>1
<1> QED
  BY <1>2, <1>3 DEF Started

LEMMA CoreStarted ==
  ASSUME InputRight, Contract, HatRight(hat), AllTransformed
  PROVE  Started(CoreArray)
<1>1. ~Lowram /\ Unit = 1 /\ 1 \in Int /\ q \in Nat \ {0}
  BY Fields DEF Lowram, Contract, Unit
<1>2. ASSUME NEW i \in Coeffs
      PROVE  CoreArray[i] \in Int /\ Mod(q, CoreArray[i]) = Mod(q, Unit * Tree(SmallestLen)[i])
  <2> DEFINE F == [j \in Column |-> (hat[<<"A", j>>][i] * hat[<<"z", j>>][i]) % q]
             t == (hat[<<"t1", 1>>][i] * hat[<<"c", 1>>][i]) % q
  <2>1. PICK P, b : RowStartOf(F, P, t, b, 1, i)
    BY <1>1, RowTreeAt
  <2>2. CoreArray[i] = ((SumBelow(F, RowLen) % q) + (q - t)) % q
    BY DEF CoreArray, vecSubMod, matVecProduct, vecMulMod
  <2> HIDE DEF F, t
  <2>3. /\ SumBelow(F, RowLen) \in Int /\ t \in Int
        /\ Mod(q, SumBelow(F, RowLen) - t) = Mod(q, 1 * Tree(SmallestLen)[i])
    BY <1>1, <2>1, StartOfRow
  <2>4. PICK m \in Nat \ {0}, x \in Int, y \in Int, tt \in Int :
          m = q /\ x = SumBelow(F, RowLen) /\ y = x % m /\ tt = t
    <3>1. \A x \in Int : x % q \in Int
      BY <1>1, ModType DEF Mod
    <3> QED
      BY <1>1, <2>3, <3>1
  <2>5. Mod(m, y) = Mod(m, x)
    BY <2>4, ModOfRemainder
  <2>6. PICK d \in Int, s \in Int, r \in Int, o \in Int :
          d = m - tt /\ s = -tt /\ r = y + d /\ o = 1
    OBVIOUS
  <2>7. Mod(m, d) = Mod(m, s)
    <3>1. d = s + m * o
      BY <2>6
    <3> QED
      BY ONLY <3>1, m \in Nat \ {0}, d \in Int, s \in Int, o \in Int, ModShift
  <2>8. Mod(m, y + d) = Mod(m, x + s)
    BY ONLY <2>5, <2>7, m \in Nat \ {0}, y \in Int, d \in Int, x \in Int, s \in Int, ModAdd
  <2>9. Mod(m, r % m) = Mod(m, r) /\ r % m \in Int
    BY ModOfRemainder, ModType DEF Mod
  <2>10. x + s = x - tt
    BY <2>6
  <2>11. CoreArray[i] = r % m
    BY <2>2, <2>4, <2>6
  <2> QED
    BY <1>1, <2>3, <2>4, <2>6, <2>8, <2>9, <2>10, <2>11
<1>3. CoreArray \in [Coeffs -> Int]
  <2>1. CoreArray = [i \in Coeffs |-> CoreArray[i]]
    BY DEF CoreArray, vecSubMod
  <2> QED
    BY <1>2, <2>1
<1> QED
  BY <1>2, <1>3 DEF Started

ZetaRight(i, u, r) ==
  /\ r \in Int /\ fqmul(u, PairZeta(i)) \in Int
  /\ Mod(q, fqmul(u, PairZeta(i))) = Mod(q, r * u)

(* The root of a pair, as the code finds it.                               *)
LEMMA PairRoots ==
  ASSUME Lowram, NEW i \in Coeffs, NEW u \in Int
  PROVE  ZetaRight(i, u, RootOf(q, Gen, Order, Order + i \div 2))
<1>1. PICK m \in Nat \ {0}, g \in Int, h \in Nat \ {0} :
        m = q /\ g = Gen /\ h = Order /\ Ring(m, g, h) /\ Size = 2 * h
  BY Fields, RingTypes
<1>2. PICK b \in Nat \ {0}, l \in Nat :
        /\ h = 2 * b /\ Size \div 4 = b /\ i \div 4 = l /\ l \in 0 .. b - 1
        /\ i % 4 < 2 => i \div 2 = 2 * l
        /\ ~(i % 4 < 2) => i \div 2 = 2 * l + 1
  <2>1. Size \in {4, 8, 16, 32, 64, 128, 256}
    BY Fields DEF SizeFacts
  <2>2. Size \div 4 \in Nat \ {0} /\ Size = 4 * (Size \div 4)
    BY <2>1
  <2>3. i \div 4 \in 0 .. (Size \div 4) - 1
    BY <2>1, <2>2 DEF Coeffs
  <2>4. i \in Nat /\ i \div 2 \in Nat
    BY <2>2 DEF Coeffs
  <2>5. /\ i % 4 < 2 => i \div 2 = 2 * (i \div 4)
        /\ ~(i % 4 < 2) => i \div 2 = 2 * (i \div 4) + 1
    BY ONLY <2>4
  <2> QED
    BY <1>1, <2>2, <2>3, <2>5
<1>3. PICK node \in 1 .. h - 1 : node = b + l /\ node = Size \div 4 + i \div 4
  BY <1>2
<1>4. PICK t \in Int, r \in Int, rr \in Int :
        /\ t = Twiddle(m, g, h, node)
        /\ r = RootOf(m, g, h, 2 * node) /\ r = t
        /\ rr = RootOf(m, g, h, 2 * node + 1) /\ Mod(m, rr) = Mod(m, -t)
  BY <1>1, NodeRoots
<1>5. /\ i % 4 < 2 => Order + i \div 2 = 2 * node
      /\ ~(i % 4 < 2) => Order + i \div 2 = 2 * node + 1
  BY <1>1, <1>2, <1>3
<1>6. PICK z \in Int, d \in Int : z = small_zetas[node] /\ d = ModInverse(SmallMont)
  <2>1. SmallMont \in Nat /\ ModInverse(SmallMont) \in Nat
    BY Inverses DEF Inverts
  <2>2. small_zetas[node] = (SmallMont * t) % m
    BY <1>1, <1>4, TableEntries
  <2>3. PICK y \in Int : y = SmallMont * t
    BY <2>1
  <2>4. y % m \in Int
    BY ModType DEF Mod
  <2> QED
    BY <2>1, <2>2, <2>3, <2>4
<1>7. ASSUME NEW x \in Int
      PROVE  fqmul(z, x) \in Int /\ Mod(m, fqmul(z, x)) = Mod(m, t * x)
  BY <1>1, <1>4, <1>6, TermsRight
<1>8. CASE i % 4 < 2
  <2>1. PairZeta(i) = z
    BY <1>3, <1>6, <1>8 DEF PairZeta
  <2>2. fqmul(u, z) = fqmul(z, u)
    <3>1. u * z = z * u
      OBVIOUS
    <3> QED
      BY <3>1 DEF fqmul
  <2>3. RootOf(m, g, h, Order + i \div 2) = t
    BY <1>4, <1>5, <1>8
  <2> QED
    BY <1>1, <1>7, <2>1, <2>2, <2>3 DEF ZetaRight
<1>9. CASE ~(i % 4 < 2)
  <2>1. PairZeta(i) = -z
    BY <1>3, <1>6, <1>9 DEF PairZeta
  <2>2. PICK n \in Int : n = -u
    OBVIOUS
  <2>3. fqmul(u, -z) = fqmul(z, n)
    <3>1. u * (-z) = z * n
      BY <2>2
    <3> QED
      BY <3>1 DEF fqmul
  <2>4. RootOf(m, g, h, Order + i \div 2) = rr
    BY <1>4, <1>5, <1>9
  <2>5. Mod(m, rr * u) = Mod(m, t * n)
    <3>1. PICK s \in Int, v \in Int : s = -t /\ v = u
      OBVIOUS
    <3>2. Mod(m, rr) = Mod(m, s) /\ Mod(m, u) = Mod(m, v)
      BY <1>4, <3>1
    <3>3. Mod(m, rr * u) = Mod(m, s * v)
      BY ONLY <3>2, m \in Nat \ {0}, rr \in Int, u \in Int, s \in Int, v \in Int, ModMul
    <3>4. s * v = t * n
      BY ONLY <3>1, <2>2, t \in Int, u \in Int
    <3> QED
      BY <3>3, <3>4
  <2> QED
    BY <1>1, <1>7, <2>1, <2>2, <2>3, <2>4, <2>5 DEF ZetaRight
<1> QED
  BY <1>8, <1>9

SumReduced(m, e, u, v, x, y) == (u + v) % m \in Int /\ Mod(m, (u + v) % m) = Mod(m, e * (x + y))

(* A sum of two of these products.                                         *)
LEMMA ReducedSum ==
  ASSUME NEW m \in Nat \ {0}, NEW e \in Int, NEW u \in Int, NEW v \in Int, NEW x \in Int, NEW y \in Int,
         Mod(m, u) = Mod(m, e * x), Mod(m, v) = Mod(m, e * y)
  PROVE  SumReduced(m, e, u, v, x, y)
<1>1. PICK ex \in Int, ey \in Int, s \in Int : ex = e * x /\ ey = e * y /\ s = u + v
  OBVIOUS
<1>2. Mod(m, u) = Mod(m, ex) /\ Mod(m, v) = Mod(m, ey)
  BY <1>1
<1>3. Mod(m, u + v) = Mod(m, ex + ey)
  BY ONLY <1>2, m \in Nat \ {0}, u \in Int, v \in Int, ex \in Int, ey \in Int, ModAdd
<1>4. ex + ey = e * (x + y)
  BY ONLY <1>1, e \in Int, x \in Int, y \in Int
<1>5. Mod(m, s % m) = Mod(m, s) /\ s % m \in Int
  BY ModOfRemainder, ModType DEF Mod
<1> QED
  BY <1>1, <1>3, <1>4, <1>5 DEF SumReduced

BasemulAt(x, y, i) ==
  IF i % 2 = 0
  THEN (fqmul(fqmul(x[i + 1], y[i + 1]), PairZeta(i)) + fqmul(x[i], y[i])) % q
  ELSE (fqmul(x[i - 1], y[i]) + fqmul(x[i], y[i - 1])) % q

BasemulArray == [i \in Coeffs |-> BasemulAt(hat[<<"c", 1>>], hat[<<"s", 1>>], i)]

LEMMA BasemulBlock ==
  ASSUME Lowram, NEW x \in [Coeffs -> Int], NEW y \in [Coeffs -> Int],
         NEW u \in [Coeffs -> Int], NEW v \in [Coeffs -> Int],
         \A i \in Coeffs : Mod(q, x[i]) = Mod(q, u[i]) /\ Mod(q, y[i]) = Mod(q, v[i]),
         NEW i \in Coeffs
  PROVE  /\ BasemulAt(x, y, i) \in Int
         /\ Mod(q, BasemulAt(x, y, i)) = Mod(q, ModInverse(SmallMont) * Blocks(q, Gen, Order, 2, u, v)[i])
<1>1. PICK m \in Nat \ {0}, g \in Int, h \in Nat \ {0} :
        m = q /\ g = Gen /\ h = Order /\ Ring(m, g, h) /\ Size = h * 2
  BY Fields, RingTypes
<1>2. PICK j \in 0 .. h - 1 : j = i \div 2 /\ (i = j * 2 \/ i = j * 2 + 1)
  <2>1. i \in Nat /\ i < h * 2
    BY <1>1 DEF Coeffs
  <2>2. i \div 2 \in 0 .. h - 1 /\ (i = (i \div 2) * 2 \/ i = (i \div 2) * 2 + 1)
    BY ONLY <2>1, h \in Nat \ {0}
  <2> QED
    BY <2>2
<1>3. PICK r \in Int : r = RootOf(m, g, h, h + j)
  <2>1. ZetaRight(i, 0, RootOf(q, Gen, Order, Order + i \div 2))
    BY PairRoots
  <2> QED
    BY <1>1, <1>2, <2>1 DEF ZetaRight
<1>0. PairProducts(m, g, h, u, v, h, j, r)
  <2>1. Ring(m, g, h) /\ Size = h * 2
    BY <1>1
  <2> QED
    BY ONLY <2>1, <1>3, u \in [Coeffs -> Int], v \in [Coeffs -> Int], h \in Nat \ {0},
            j \in 0 .. h - 1, r \in Int, PairBlock
<1>4. PICK b \in Coeffs : b = j * 2 /\ b + 1 \in Coeffs /\ b \div 2 = j /\ b % 2 = 0 /\ (b + 1) % 2 = 1
  BY <1>0 DEF PairProducts, Placed
<1>5. PICK e \in Int : e = ModInverse(SmallMont)
  BY Inverses DEF Inverts
<1>6. PICK o \in Coeffs : o = b + 1
  BY <1>4
<1>7. PICK xb \in Int, xo \in Int, yb \in Int, yo \in Int, ub \in Int, uo \in Int, vb \in Int, vo \in Int :
        /\ xb = x[b] /\ xo = x[o] /\ yb = y[b] /\ yo = y[o]
        /\ ub = u[b] /\ uo = u[o] /\ vb = v[b] /\ vo = v[o]
  OBVIOUS
<1>8. /\ Mod(q, xb) = Mod(q, ub) /\ Mod(q, xo) = Mod(q, uo)
      /\ Mod(q, yb) = Mod(q, vb) /\ Mod(q, yo) = Mod(q, vo)
  BY <1>7
<1>9. /\ Blocks(m, g, h, 2, u, v)[b] = ub * vb + uo * (r * vo)
      /\ Blocks(m, g, h, 2, u, v)[o] = ub * vo + uo * vb
  BY <1>0, <1>4, <1>6, <1>7 DEF PairProducts
<1>10. /\ ReducedProduct(m, fqmul(xb, yb), e, ub, vb) /\ ReducedProduct(m, fqmul(xo, yo), e, uo, vo)
       /\ ReducedProduct(m, fqmul(xb, yo), e, ub, vo) /\ ReducedProduct(m, fqmul(xo, yb), e, uo, vb)
  BY <1>1, <1>5, <1>8, CodeProducts
<1>11. CASE i = b
  <2>1. BasemulAt(x, y, i) = (fqmul(fqmul(xo, yo), PairZeta(b)) + fqmul(xb, yb)) % q
    BY <1>4, <1>6, <1>7, <1>11 DEF BasemulAt
  <2>2. PICK f \in Int, p \in Int, t \in Int, w \in Int :
          f = fqmul(xo, yo) /\ p = fqmul(f, PairZeta(b)) /\ t = uo * vo /\ w = fqmul(xb, yb)
    <3>1. fqmul(xo, yo) \in Int /\ fqmul(xb, yb) \in Int
      BY <1>10 DEF ReducedProduct
    <3>2. fqmul(fqmul(xo, yo), PairZeta(b)) \in Int
      BY <3>1, PairRoots DEF ZetaRight
    <3> QED
      BY <3>1, <3>2
  <2>3. Mod(m, p) = Mod(m, r * f)
    BY <1>1, <1>3, <1>4, <2>2, PairRoots DEF ZetaRight
  <2>4. Mod(m, p) = Mod(m, e * (uo * (r * vo)))
    <3>1. PICK et \in Int, s \in Int : et = e * t /\ s = r
      OBVIOUS
    <3>2. Mod(m, f) = Mod(m, et) /\ Mod(m, r) = Mod(m, s)
      BY <1>10, <2>2, <3>1 DEF ReducedProduct
    <3>3. Mod(m, r * f) = Mod(m, s * et)
      BY ONLY <3>2, m \in Nat \ {0}, r \in Int, f \in Int, s \in Int, et \in Int, ModMul
    <3>4. s * et = e * (uo * (r * vo))
      <4>1. s * et = r * (e * t) /\ t = uo * vo
        BY <2>2, <3>1
      <4>2. r * (e * t) = e * (r * t)
        BY ONLY r \in Int, e \in Int, t \in Int
      <4>3. r * (uo * vo) = uo * (r * vo)
        BY ONLY r \in Int, uo \in Int, vo \in Int
      <4> QED
        BY <4>1, <4>2, <4>3
    <3> QED
      BY <2>3, <3>3, <3>4
  <2>5. Mod(m, w) = Mod(m, e * (ub * vb))
    BY <1>10, <2>2 DEF ReducedProduct
  <2>6. PICK y1 \in Int, y2 \in Int : y1 = uo * (r * vo) /\ y2 = ub * vb
    OBVIOUS
  <2>7. Mod(m, p) = Mod(m, e * y1) /\ Mod(m, w) = Mod(m, e * y2)
    BY <2>4, <2>5, <2>6
  <2>8. (p + w) % m \in Int /\ Mod(m, (p + w) % m) = Mod(m, e * (y1 + y2))
    <3>1. SumReduced(m, e, p, w, y1, y2)
      BY ONLY <2>7, m \in Nat \ {0}, e \in Int, p \in Int, w \in Int, y1 \in Int, y2 \in Int, ReducedSum
    <3> QED
      BY <3>1 DEF SumReduced
  <2>9. y1 + y2 = Blocks(m, g, h, 2, u, v)[b]
    BY <1>9, <2>6
  <2> QED
    BY <1>1, <1>5, <1>11, <2>1, <2>2, <2>8, <2>9
<1>12. CASE i = o
  <2>1. BasemulAt(x, y, i) = (fqmul(xb, yo) + fqmul(xo, yb)) % q
    <3>1. o - 1 = b /\ ~(o % 2 = 0)
      BY <1>4, <1>6 DEF Coeffs
    <3> QED
      BY <1>7, <1>12, <3>1 DEF BasemulAt
  <2>2. PICK p \in Int, w \in Int, y1 \in Int, y2 \in Int :
          p = fqmul(xb, yo) /\ w = fqmul(xo, yb) /\ y1 = ub * vo /\ y2 = uo * vb
    BY <1>10 DEF ReducedProduct
  <2>3. Mod(m, p) = Mod(m, e * y1) /\ Mod(m, w) = Mod(m, e * y2)
    BY <1>10, <2>2 DEF ReducedProduct
  <2>4. (p + w) % m \in Int /\ Mod(m, (p + w) % m) = Mod(m, e * (y1 + y2))
    <3>1. SumReduced(m, e, p, w, y1, y2)
      BY ONLY <2>3, m \in Nat \ {0}, e \in Int, p \in Int, w \in Int, y1 \in Int, y2 \in Int, ReducedSum
    <3> QED
      BY <3>1 DEF SumReduced
  <2>5. y1 + y2 = Blocks(m, g, h, 2, u, v)[o]
    BY <1>9, <2>2
  <2> QED
    BY <1>1, <1>5, <1>12, <2>1, <2>2, <2>4, <2>5
<1> QED
  BY <1>2, <1>4, <1>6, <1>11, <1>12

LEMMA BasemulStarted ==
  ASSUME InputRight, Lowram, HatRight(hat), AllTransformed
  PROVE  Started(BasemulArray)
<1>1. Unit = ModInverse(SmallMont) /\ SmallestLen = 2
  BY DEF Unit, Lowram, SmallestLen
<1>2. /\ <<"c", 1>> \in DOMAIN hat /\ <<"s", 1>> \in DOMAIN hat
      /\ <<"c", 1>> \in Names /\ <<"s", 1>> \in Names
  BY DEF AllTransformed, Names
<1> DEFINE x == hat[<<"c", 1>>]  y == hat[<<"s", 1>>]
           u == SmallFold(<<"c", 1>>)  v == SmallFold(<<"s", 1>>)
<1>3. /\ x \in [Coeffs -> Int] /\ y \in [Coeffs -> Int]
      /\ \A i \in Coeffs : Mod(q, x[i]) = Mod(q, u[i]) /\ Mod(q, y[i]) = Mod(q, v[i])
  BY <1>2 DEF HatRight
<1>4. u \in [Coeffs -> Int] /\ v \in [Coeffs -> Int]
  <2>1. Source(<<"c", 1>>) \in [Coeffs -> Int] /\ Source(<<"s", 1>>) \in [Coeffs -> Int]
    BY <1>2, SourceType
  <2>2. PICK w \in Nat \ {0} : w = 2
    OBVIOUS
  <2>3. Size = Order * w /\ Order <= Order /\ Order \in Nat \ {0} /\ Ring(q, Gen, Order)
    BY <2>2, Fields
  <2>4. Folded(q, Gen, Order, w, Source(<<"c", 1>>)) \in [Coeffs -> Int]
        /\ Folded(q, Gen, Order, w, Source(<<"s", 1>>)) \in [Coeffs -> Int]
    BY <2>1, <2>3, FlatTypes
  <2> QED
    BY <1>1, <2>2, <2>4 DEF SmallFold
<1>5. Tree(SmallestLen) = Blocks(q, Gen, Order, 2, u, v)
  BY <1>1 DEF Tree, PairTree, SmallFold, Source
<1> HIDE DEF u, v
<1>6. \A i \in Coeffs :
        /\ BasemulAt(x, y, i) \in Int
        /\ Mod(q, BasemulAt(x, y, i)) = Mod(q, ModInverse(SmallMont) * Blocks(q, Gen, Order, 2, u, v)[i])
  <2> HIDE DEF x, y
  <2> QED
    BY <1>3, <1>4, BasemulBlock
<1>7. BasemulArray = [i \in Coeffs |-> BasemulAt(x, y, i)]
  BY DEF BasemulArray
<1> QED
  BY <1>1, <1>5, <1>6, <1>7 DEF Started

-----------------------------------------------------------------------------
(* The layers of a source and of the result                                *)

LEMMA SourceSplits ==
  ASSUME InputRight, NEW name \in Names, NEW c, NEW w, Layer(Order, c, w)
  PROVE  /\ Folded(q, Gen, Order, w, Source(name)) \in [Coeffs -> Int]
         /\ Folded(q, Gen, Order, 2 * w, Source(name)) \in [Coeffs -> Int]
         /\ Splits(q, Gen, Order, c, w, Folded(q, Gen, Order, 2 * w, Source(name)),
                   Folded(q, Gen, Order, w, Source(name)))
<1>1. PICK m \in Nat \ {0}, g \in Int, h \in Nat \ {0} :
        m = q /\ g = Gen /\ h = Order /\ Ring(m, g, h)
  BY Fields, RingTypes
<1>2. PICK p \in [Coeffs -> Int] : p = Source(name)
  BY SourceType
<1>3. /\ w \in Nat \ {0} /\ c \in Nat \ {0} /\ Size = c * (2 * w) /\ Size = (2 * c) * w
      /\ 2 * c \in Nat \ {0} /\ 2 * w \in Nat \ {0} /\ 2 * c <= h /\ Layer(h, c, w)
  <2>1. Layer(h, c, w) /\ h \in Int
    BY <1>1
  <2>2. 2 * c <= h
    BY <2>1 DEF Layer
  <2> QED
    BY <2>1, <2>2, LayerParts
<1>4. PICK o \in Nat \ {0}, d \in Nat \ {0} : o = 2 * w /\ d = 2 * c
  BY <1>3
<1>5. Folded(m, g, h, w, p) \in [Coeffs -> Int]
  <2>1. Size = d * w /\ d <= h /\ Ring(m, g, h) /\ w \in Nat \ {0}
    BY <1>1, <1>3, <1>4
  <2> QED
    BY ONLY <2>1, d \in Nat \ {0}, p \in [Coeffs -> Int], FlatTypes
<1>6. Folded(m, g, h, o, p) \in [Coeffs -> Int]
  <2>1. Size = c * o /\ c <= h /\ Ring(m, g, h) /\ c \in Nat \ {0}
    BY <1>1, <1>3, <1>4
  <2> QED
    BY ONLY <2>1, o \in Nat \ {0}, p \in [Coeffs -> Int], FlatTypes
<1>7. Splits(m, g, h, c, w, Folded(m, g, h, 2 * w, p), Folded(m, g, h, w, p))
  BY <1>1, <1>3, FoldedSplits
<1> QED
  BY <1>1, <1>2, <1>4, <1>5, <1>6, <1>7

LEMMA TreeType ==
  ASSUME InputRight, NEW w \in Nat \ {0}, NEW c \in Nat \ {0}, Size = c * w, c <= Order
  PROVE  Tree(w) \in [Coeffs -> Int]
<1>1. PICK m \in Nat \ {0}, g \in Int, h \in Nat \ {0} :
        m = q /\ g = Gen /\ h = Order /\ Ring(m, g, h)
  BY Fields, RingTypes
<1>2. Ring(m, g, h) /\ c <= h /\ Size = c * w
  BY <1>1
<1>3. ASSUME NEW x \in [Coeffs -> Int], NEW y \in [Coeffs -> Int]
      PROVE  PairTree(m, g, h, w, x, y) \in [Coeffs -> Int]
  BY ONLY <1>2, w \in Nat \ {0}, c \in Nat \ {0}, x \in [Coeffs -> Int], y \in [Coeffs -> Int],
          PairTreeType
<1>4. CASE Lowram
  <2>1. Tree(w) = PairTree(m, g, h, w, input.c, input.s)
    BY <1>1, <1>4 DEF Tree
  <2> QED
    BY <1>3, <1>4, <2>1, Inputs
<1>5. CASE ~Lowram
  <2> DEFINE X == [j \in Column |-> PairTree(m, g, h, w, input.A[j], input.z[j])]
             B == PairTree(m, g, h, w, input.c, ScaledT1)
  <2>1. Tree(w) = RowOf(X, B)
    BY <1>1, <1>5 DEF Tree, RowTree
  <2>2. X \in [Column -> [Coeffs -> Int]] /\ B \in [Coeffs -> Int]
    <3>1. \A j \in Column : PairTree(m, g, h, w, input.A[j], input.z[j]) \in [Coeffs -> Int]
      <4> TAKE j \in Column
      <4>1. input.A[j] \in [Coeffs -> Int] /\ input.z[j] \in [Coeffs -> Int]
        BY <1>5, Inputs
      <4> QED
        BY <1>3, <4>1
    <3>2. B \in [Coeffs -> Int]
      BY <1>3, <1>5, Inputs
    <3> QED
      BY <3>1, <3>2
  <2> HIDE DEF X, B
  <2> QED
    BY <2>1, <2>2, RowIsPoly
<1> QED
  BY <1>4, <1>5

LEMMA TreeSplits ==
  ASSUME InputRight, NEW c, NEW w, Layer(Order, c, w)
  PROVE  /\ Tree(w) \in [Coeffs -> Int] /\ Tree(2 * w) \in [Coeffs -> Int]
         /\ Splits(q, Gen, Order, c, w, Tree(2 * w), Tree(w))
<1>1. PICK m \in Nat \ {0}, g \in Int, h \in Nat \ {0} :
        m = q /\ g = Gen /\ h = Order /\ Ring(m, g, h)
  BY Fields, RingTypes
<1>2. /\ w \in Nat \ {0} /\ c \in Nat \ {0} /\ Size = c * (2 * w) /\ Size = (2 * c) * w
      /\ 2 * c \in Nat \ {0} /\ 2 * w \in Nat \ {0} /\ 2 * c <= h /\ Layer(h, c, w)
  <2>1. Layer(h, c, w) /\ h \in Int
    BY <1>1
  <2>2. 2 * c <= h
    BY <2>1 DEF Layer
  <2> QED
    BY <2>1, <2>2, LayerParts
<1>3. PICK o \in Nat \ {0}, d \in Nat \ {0} : o = 2 * w /\ d = 2 * c
  BY <1>2
<1>4. Tree(w) \in [Coeffs -> Int]
  <2>1. Size = d * w /\ d <= Order /\ w \in Nat \ {0}
    BY <1>1, <1>2, <1>3
  <2> QED
    BY ONLY <2>1, d \in Nat \ {0}, InputRight, TreeType
<1>5. Tree(o) \in [Coeffs -> Int]
  <2>1. Size = c * o /\ c <= Order /\ c \in Nat \ {0}
    BY <1>1, <1>2, <1>3
  <2> QED
    BY ONLY <2>1, o \in Nat \ {0}, InputRight, TreeType
<1>6. Splits(m, g, h, c, w, Tree(2 * w), Tree(w))
  <2>1. CASE Lowram
    <3>1. input.c \in [Coeffs -> Int] /\ input.s \in [Coeffs -> Int]
      BY <2>1, Inputs
    <3>2. Splits(m, g, h, c, w, PairTree(m, g, h, 2 * w, input.c, input.s),
                 PairTree(m, g, h, w, input.c, input.s))
      BY <1>1, <1>2, <3>1, PairTreeSplits
    <3> QED
      BY <1>1, <2>1, <3>2 DEF Tree
  <2>2. CASE ~Lowram
    <3>1. /\ input.A \in [Column -> [Coeffs -> Int]] /\ input.z \in [Column -> [Coeffs -> Int]]
          /\ input.c \in [Coeffs -> Int] /\ ScaledT1 \in [Coeffs -> Int]
      BY <2>2, Inputs
    <3>2. Splits(m, g, h, c, w, RowTree(m, g, h, 2 * w, input.A, input.z, input.c, ScaledT1),
                 RowTree(m, g, h, w, input.A, input.z, input.c, ScaledT1))
      BY <1>1, <1>2, <3>1, RowTreeSplits
    <3> QED
      BY <1>1, <2>2, <3>2 DEF Tree
  <2> QED
    BY <2>1, <2>2
<1> QED
  BY <1>1, <1>3, <1>4, <1>5, <1>6

(* At the top, the products themselves.                                    *)
LEMMA PairTreeWhole ==
  ASSUME NEW x \in [Coeffs -> Int], NEW y \in [Coeffs -> Int], NEW i \in Coeffs
  PROVE  /\ Mod(q, PairTree(q, Gen, Order, Size, x, y)[i]) = Mod(q, Product(x, y)[i])
         /\ PairTree(q, Gen, Order, Size, x, y)[i] \in Int /\ Product(x, y)[i] \in Int
<1>1. Ring(q, Gen, Order) /\ Size \in Nat \ {0} /\ Order \in Nat \ {0}
  BY Fields DEF SizeFacts
<1>2. PairTree(q, Gen, Order, Size, x, y) = Blocks(q, Gen, Order, Size, x, y)
  BY <1>1, FoldedWhole DEF PairTree
<1>3. Mod(q, Blocks(q, Gen, Order, Size, x, y)[i]) = Mod(q, Product(x, y)[i])
  BY <1>1, BlocksWhole
<1>4. PairTree(q, Gen, Order, Size, x, y) \in [Coeffs -> Int]
  <2>1. PICK o \in Nat \ {0} : o = 1
    OBVIOUS
  <2>2. Size = o * Size /\ o <= Order
    BY <1>1, <2>1
  <2> QED
    BY ONLY <1>1, <2>2, o \in Nat \ {0}, x \in [Coeffs -> Int], y \in [Coeffs -> Int], PairTreeType
<1>5. Product(x, y)[i] \in Int
  BY <1>1, ProductTermsType
<1> QED
  BY <1>2, <1>3, <1>4, <1>5

MultipleTerm(m, e, u, v, w) == Mod(m, w * u) = Mod(m, e * (w * v))

LEMMA ScaledProduct ==
  ASSUME InputRight, ~Lowram, NEW i \in Coeffs
  PROVE  /\ Mod(q, Product(input.c, ScaledT1)[i]) = Mod(q, TwoToD * Product(input.c, input.t1)[i])
         /\ Product(input.c, input.t1)[i] \in Int /\ Product(input.c, ScaledT1)[i] \in Int
<1>1. PICK m \in Nat \ {0}, sz \in Nat \ {0}, e \in Int : m = q /\ sz = Size /\ e = TwoToD
  BY Fields, RowProductAssumption DEF SizeFacts, RowProductAssumption
<1>2. PICK x \in [Coeffs -> Int], y \in [Coeffs -> Int], z \in [Coeffs -> Int] :
        x = input.c /\ y = ScaledT1 /\ z = input.t1 /\ \A n \in Coeffs : Mod(m, y[n]) = Mod(m, e * z[n])
  BY <1>1, Inputs
<1> DEFINE F == ProductTerms(x, y, i)  P == ProductTerms(x, z, i)
<1>3. /\ F \in [Coeffs -> Int] /\ P \in [Coeffs -> Int]
      /\ Product(x, y)[i] = SumBelow(F, Size) /\ Product(x, z)[i] = SumBelow(P, Size)
      /\ Product(x, y)[i] \in Int /\ Product(x, z)[i] \in Int
  BY <1>1, ProductTermsType
<1>4. ASSUME NEW n \in Coeffs
      PROVE  Mod(m, F[n]) = Mod(m, e * P[n])
  <2>1. ASSUME NEW u \in Int, NEW v \in Int, NEW w \in Int, Mod(m, u) = Mod(m, e * v)
        PROVE  MultipleTerm(m, e, u, v, w)
    <3>1. PICK ev \in Int, t \in Int : ev = e * v /\ t = w
      OBVIOUS
    <3>2. Mod(m, u) = Mod(m, ev) /\ Mod(m, w) = Mod(m, t)
      BY <2>1, <3>1
    <3>3. Mod(m, w * u) = Mod(m, t * ev)
      BY ONLY <3>2, m \in Nat \ {0}, u \in Int, w \in Int, t \in Int, ev \in Int, ModMul
    <3>4. t * ev = e * (w * v)
      BY ONLY <3>1, e \in Int, v \in Int, w \in Int
    <3> QED
      BY <3>3, <3>4 DEF MultipleTerm
  <2>2. CASE n <= i
    <3>1. i - n \in Coeffs
      BY <1>1, <2>2 DEF Coeffs
    <3>2. PICK u \in Int, v \in Int, w \in Int :
            u = y[i - n] /\ v = z[i - n] /\ w = x[n] /\ Mod(m, u) = Mod(m, e * v)
      BY <1>2, <3>1
    <3>3. F[n] = w * u /\ P[n] = w * v
      BY <2>2, <3>2 DEF ProductTerms
    <3> QED
      <4>1. MultipleTerm(m, e, u, v, w)
        BY <2>1, <3>2
      <4> QED
        BY <3>3, <4>1 DEF MultipleTerm
  <2>3. CASE ~(n <= i)
    <3>1. i - n + Size \in Coeffs
      BY <1>1, <2>3 DEF Coeffs
    <3>2. PICK u \in Int, v \in Int, w \in Int :
            u = y[i - n + Size] /\ v = z[i - n + Size] /\ w = x[n] /\ Mod(m, u) = Mod(m, e * v)
      BY <1>2, <3>1
    <3>3. PICK nu \in Int, nv \in Int : nu = -u /\ nv = -v
      OBVIOUS
    <3>4. Mod(m, nu) = Mod(m, e * nv)
      <4>1. PICK o \in Int, oo \in Int, ev \in Int : o = -1 /\ oo = o /\ ev = e * v
        OBVIOUS
      <4>2. Mod(m, o) = Mod(m, oo) /\ Mod(m, u) = Mod(m, ev)
        BY <3>2, <4>1
      <4>3. Mod(m, o * u) = Mod(m, oo * ev)
        BY ONLY <4>2, m \in Nat \ {0}, o \in Int, u \in Int, oo \in Int, ev \in Int, ModMul
      <4>4. o * u = nu /\ oo * ev = -ev
        BY <3>3, <4>1
      <4>5. -ev = e * nv
        BY ONLY <3>3, <4>1, e \in Int, v \in Int
      <4> QED
        BY <4>3, <4>4, <4>5
    <3>5. F[n] = w * nu /\ P[n] = w * nv
      BY <2>3, <3>2, <3>3 DEF ProductTerms
    <3> QED
      <4>1. MultipleTerm(m, e, nu, nv, w)
        BY <2>1, <3>4
      <4> QED
        BY <3>5, <4>1 DEF MultipleTerm
  <2> QED
    BY <2>2, <2>3
<1> HIDE DEF F, P
<1>5. F \in [0 .. sz - 1 -> Int] /\ P \in [0 .. sz - 1 -> Int] /\ TermMultiples(m, sz, e, F, P)
  <2>1. Coeffs = 0 .. sz - 1
    BY <1>1 DEF Coeffs
  <2> QED
    BY <1>3, <1>4, <2>1 DEF TermMultiples
<1>6. MultipleSums(m, sz, e, F, P)
  <2>1. sz \in Nat
    BY <1>1
  <2> QED
    BY ONLY <1>5, <2>1, m \in Nat \ {0}, e \in Int, SumOfMultiples
<1> QED
  BY <1>1, <1>2, <1>3, <1>6 DEF MultipleSums

RowAt(i) ==
  SumBelow([j \in Column |-> Product(input.A[j], input.z[j])[i]], RowLen)
    - TwoToD * Product(input.c, input.t1)[i]

LEMMA TreeWhole ==
  ASSUME InputRight, NEW i \in Coeffs
  PROVE  /\ Tree(Size)[i] \in Int
         /\ ~Lowram => RowAt(i) \in Int /\ Mod(q, Tree(Size)[i]) = Mod(q, RowAt(i))
         /\ Lowram => /\ Product(input.c, input.s)[i] \in Int
                      /\ Mod(q, Tree(Size)[i]) = Mod(q, Product(input.c, input.s)[i])
<1>1. CASE Lowram
  BY <1>1, Inputs, PairTreeWhole DEF Tree
<1>2. CASE ~Lowram
  <2>1. PICK m \in Nat \ {0} : m = q
    BY Fields
  <2>2. RowLen \in Nat /\ TwoToD \in Int
    BY RowProductAssumption DEF RowProductAssumption
  <2> DEFINE X == [j \in Column |-> PairTree(q, Gen, Order, Size, input.A[j], input.z[j])]
             F == [j \in Column |-> X[j][i]]
             P == [j \in Column |-> Product(input.A[j], input.z[j])[i]]
  <2>3. PICK b \in Int, d \in Int, e \in Int :
          /\ b = PairTree(q, Gen, Order, Size, input.c, ScaledT1)[i]
          /\ d = Product(input.c, ScaledT1)[i] /\ Mod(m, b) = Mod(m, d)
          /\ e = Product(input.c, input.t1)[i] /\ Mod(m, d) = Mod(m, TwoToD * e)
    <3>1. input.c \in [Coeffs -> Int] /\ ScaledT1 \in [Coeffs -> Int]
      BY <1>2, Inputs
    <3> QED
      BY <1>2, <2>1, <3>1, PairTreeWhole, ScaledProduct
  <2>4. Tree(Size)[i] = SumBelow(F, RowLen) - b
    BY <1>2, <2>3 DEF Tree, RowTree, RowOf
  <2>5. RowAt(i) = SumBelow(P, RowLen) - TwoToD * e
    BY <2>3 DEF RowAt
  <2>6. \A j \in Column : F[j] \in Int /\ P[j] \in Int /\ Mod(m, F[j]) = Mod(m, P[j])
    <3> TAKE j \in Column
    <3>1. input.A[j] \in [Coeffs -> Int] /\ input.z[j] \in [Coeffs -> Int]
      BY <1>2, Inputs
    <3>2. F[j] = PairTree(q, Gen, Order, Size, input.A[j], input.z[j])[i]
          /\ P[j] = Product(input.A[j], input.z[j])[i]
      OBVIOUS
    <3> HIDE DEF F, P
    <3> QED
      BY <2>1, <3>1, <3>2, PairTreeWhole
  <2>7. F = [j \in Column |-> F[j]] /\ P = [j \in Column |-> P[j]] /\ Column = 0 .. RowLen - 1
    BY DEF Column
  <2> HIDE DEF F, P
  <2>8. /\ F \in [0 .. RowLen - 1 -> Int] /\ P \in [0 .. RowLen - 1 -> Int]
        /\ TermsCongruent(m, RowLen, F, P)
    BY <2>6, <2>7 DEF TermsCongruent
  <2>9. Mod(m, SumBelow(F, RowLen)) = Mod(m, SumBelow(P, RowLen))
    BY ONLY <2>2, <2>8, m \in Nat \ {0}, SumOfCongruent
  <2>10. PICK f \in Int, p \in Int, t \in Int :
           f = SumBelow(F, RowLen) /\ p = SumBelow(P, RowLen) /\ t = TwoToD * e
    <3>1. TwoToD * e \in Int
      BY ONLY <2>2, e \in Int
    <3>2. SumBelow(F, RowLen) \in Int /\ SumBelow(P, RowLen) \in Int
      BY <2>2, <2>8, PartialSums
    <3> QED
      BY <3>1, <3>2
  <2>11. Mod(m, f) = Mod(m, p) /\ Mod(m, b) = Mod(m, t)
    BY <2>3, <2>9, <2>10
  <2>12. Mod(m, f - b) = Mod(m, p - t)
    BY ONLY <2>11, m \in Nat \ {0}, f \in Int, b \in Int, p \in Int, t \in Int, ModSub
  <2> QED
    BY <1>2, <2>1, <2>4, <2>5, <2>10, <2>12
<1> QED
  BY <1>1, <1>2

-----------------------------------------------------------------------------
(* The way through the blocks and layers                                   *)

NextRight(c, w, j, l, s) ==
  /\ s \in Nat /\ l = w /\ s + 2 * w <= Size
  /\ s + 2 * w < Size => j + 1 < c /\ At(c, w, j + 1, l, s + 2 * w)
  /\ ~(s + 2 * w < Size) => j = c - 1 /\ s + 2 * w = Size

LEMMA NextBlock ==
  ASSUME NEW c, NEW w, NEW j, NEW l, NEW s, At(c, w, j, l, s)
  PROVE  NextRight(c, w, j, l, s)
<1>1. /\ c \in Powers /\ w \in Powers /\ Size = c * (2 * w) /\ SmallestLen <= w
      /\ j \in 0 .. c - 1 /\ l = w /\ s = j * (2 * w)
  BY DEF At
<1>2. Layer(Order, c, w) /\ Order \in Int /\ c \in Nat \ {0} /\ w \in Nat \ {0}
  BY AtLayer, Fields
<1>3. PICK h \in Int : h = Order
  BY <1>2
<1>4. /\ s \in Nat /\ s + 2 * w <= Size /\ Size \in Nat
      /\ (s + 2 * w < Size <=> j + 1 < c)
      /\ s + 2 * w = (j + 1) * (2 * w)
  <2>1. Layer(h, c, w)
    BY <1>2, <1>3
  <2> QED
    BY <1>1, <2>1, BlockBounds
<1>5. ASSUME s + 2 * w < Size
      PROVE  j + 1 < c /\ At(c, w, j + 1, l, s + 2 * w)
  <2>1. j + 1 < c /\ j + 1 \in 0 .. c - 1
    BY <1>1, <1>2, <1>4, <1>5
  <2> QED
    BY <1>1, <1>4, <2>1 DEF At
<1>6. ASSUME ~(s + 2 * w < Size)
      PROVE  j = c - 1 /\ s + 2 * w = Size
  <2>1. j = c - 1
    BY <1>1, <1>2, <1>4, <1>6
  <2>2. s + 2 * w = Size
    BY <1>1, <1>2, <1>4, <1>6
  <2> QED
    BY <2>1, <2>2
<1> QED
  BY <1>1, <1>4, <1>5, <1>6 DEF NextRight

LEMMA SmallestLens == SmallestLen \in {1, 2} /\ (Lowram <=> SmallestLen = 2)
BY DEF SmallestLen

LEMMA NarrowerLayer ==
  ASSUME NEW c, NEW w, NEW j, NEW l, NEW s, At(c, w, j, l, s)
  PROVE  /\ w \div 2 < SmallestLen => w = SmallestLen
         /\ ~(w \div 2 < SmallestLen) => /\ At(2 * c, w \div 2, 0, w \div 2, 0)
                                         /\ w = 2 * (w \div 2)
<1>1. /\ c \in Powers /\ w \in Powers /\ Size = c * (2 * w) /\ SmallestLen <= w
  BY DEF At
<1>2. SmallestLen \in {1, 2} /\ Size \in Nat /\ Size <= 256
  BY SmallestLens, Fields DEF SizeFacts
<1>3. ASSUME w \div 2 < SmallestLen
      PROVE  w = SmallestLen
  <2>1. w \in {1, 2, 4, 8, 16, 32, 64, 128}
    BY <1>1 DEF Powers
  <2> QED
    BY ONLY <1>1, <1>2, <1>3, <2>1
<1>4. ASSUME ~(w \div 2 < SmallestLen)
      PROVE  At(2 * c, w \div 2, 0, w \div 2, 0) /\ w = 2 * (w \div 2)
  <2>1. w \in {1, 2, 4, 8, 16, 32, 64, 128} /\ c \in {1, 2, 4, 8, 16, 32, 64, 128}
    BY <1>1 DEF Powers
  <2>2. PICK v \in {1, 2, 4, 8, 16, 32, 64} : w = 2 * v /\ v = w \div 2
    BY ONLY <1>2, <1>4, <2>1
  <2>3. c # 128
    <3>1. SUFFICES ASSUME c = 128
                   PROVE  FALSE
      OBVIOUS
    <3>2. Size = 128 * (2 * w)
      BY <1>1, <3>1
    <3> QED
      BY ONLY <1>2, <2>2, <3>2
  <2>4. 2 * c \in {1, 2, 4, 8, 16, 32, 64, 128} /\ 2 * c \in Nat \ {0}
    BY ONLY <2>1, <2>3
  <2>5. Size = (2 * c) * (2 * v)
    BY ONLY <1>1, <2>1, <2>2
  <2>6. 0 \in 0 .. 2 * c - 1 /\ 0 = 0 * (2 * v)
    BY ONLY <2>2, <2>4
  <2>7. SmallestLen <= v /\ v \in Powers /\ 2 * c \in Powers
    BY <1>2, <1>4, <2>2, <2>4 DEF Powers
  <2> QED
    BY <2>2, <2>5, <2>6, <2>7 DEF At
<1> QED
  BY <1>3, <1>4

LEMMA WiderLayer ==
  ASSUME NEW c, NEW w, NEW j, NEW l, NEW s, At(c, w, j, l, s)
  PROVE  /\ c = 1 => 2 * w = Size
         /\ c # 1 => /\ At(c \div 2, 2 * w, 0, 2 * w, 0)
                     /\ c = 2 * (c \div 2) /\ c \div 2 \in Nat \ {0} /\ 2 * w < Size
<1>1. /\ c \in Powers /\ w \in Powers /\ Size = c * (2 * w) /\ SmallestLen <= w
  BY DEF At
<1>2. SmallestLen \in {1, 2} /\ Size \in Nat /\ Size <= 256
  BY SmallestLens, Fields DEF SizeFacts
<1>3. w \in {1, 2, 4, 8, 16, 32, 64, 128} /\ c \in {1, 2, 4, 8, 16, 32, 64, 128}
  BY <1>1 DEF Powers
<1>4. ASSUME c = 1
      PROVE  2 * w = Size
  BY ONLY <1>1, <1>3, <1>4
<1>5. ASSUME c # 1
      PROVE  /\ At(c \div 2, 2 * w, 0, 2 * w, 0)
             /\ c = 2 * (c \div 2) /\ c \div 2 \in Nat \ {0} /\ 2 * w < Size
  <2>1. PICK d \in {1, 2, 4, 8, 16, 32, 64} : c = 2 * d /\ d = c \div 2
    BY ONLY <1>3, <1>5
  <2>2. w # 128
    <3>1. SUFFICES ASSUME w = 128
                   PROVE  FALSE
      OBVIOUS
    <3>2. Size = (2 * d) * (2 * 128)
      BY <1>1, <2>1, <3>1
    <3> QED
      BY ONLY <1>2, <2>1, <3>2
  <2>3. 2 * w \in {1, 2, 4, 8, 16, 32, 64, 128} /\ 2 * w \in Nat \ {0}
    BY ONLY <1>3, <2>2
  <2>4. Size = d * (2 * (2 * w))
    BY ONLY <1>1, <1>3, <2>1
  <2>5. 0 \in 0 .. d - 1 /\ 0 = 0 * (2 * (2 * w))
    BY ONLY <2>1, <2>3
  <2>6. SmallestLen <= 2 * w /\ d \in Powers /\ 2 * w \in Powers
    BY <1>1, <1>2, <1>3, <2>1, <2>3 DEF Powers
  <2>7. 2 * w < Size
    <3>1. PICK o \in Nat \ {0} : o = 2 * w
      BY <2>3
    <3>2. Size = d * (2 * o)
      BY <2>4, <3>1
    <3>3. o < d * (2 * o)
      BY ONLY <2>1, o \in Nat \ {0}
    <3> QED
      BY <3>1, <3>2, <3>3
  <2> QED
    BY <2>1, <2>4, <2>5, <2>6, <2>7 DEF At
<1> QED
  BY <1>4, <1>5

(* Where the two loops begin.                                              *)
LEMMA FirstLayers ==
  /\ At(1, Size \div 2, 0, Size \div 2, 0) /\ 2 * (Size \div 2) = Size
  /\ \E c : At(c, SmallestLen, 0, SmallestLen, 0) /\ 2 * c = Order
<1>1. SmallestLen \in {1, 2} /\ (Lowram <=> SmallestLen = 2)
      /\ Size \in {4, 8, 16, 32, 64, 128, 256}
  BY SmallestLens, Fields DEF SizeFacts
<1>2. At(1, Size \div 2, 0, Size \div 2, 0) /\ 2 * (Size \div 2) = Size
  <2>1. PICK v \in {2, 4, 8, 16, 32, 64, 128} : v = Size \div 2 /\ Size = 2 * v
    BY ONLY <1>1
  <2> QED
    BY <1>1, <2>1 DEF At, Powers
<1>3. CASE Lowram
  <2>1. PICK c \in {1, 2, 4, 8, 16, 32, 64} : Size = 4 * c
    BY ONLY <1>1
  <2>2. 2 * c = Order /\ SmallestLen = 2
    BY <1>1, <1>3, <2>1, Fields
  <2>3. At(c, 2, 0, 2, 0)
    BY <2>1, <2>2 DEF At, Powers
  <2> QED
    BY <1>2, <2>2, <2>3
<1>4. CASE ~Lowram
  <2>1. PICK c \in {2, 4, 8, 16, 32, 64, 128} : Size = 2 * c
    BY ONLY <1>1
  <2>2. 2 * c = Order /\ SmallestLen = 1
    BY <1>1, <1>4, <2>1, Fields
  <2>3. At(c, 1, 0, 1, 0)
    BY <2>1, <2>2 DEF At, Powers
  <2> QED
    BY <1>2, <2>2, <2>3
<1> QED
  BY <1>3, <1>4

LEMMA HalfwayEnds ==
  ASSUME NEW m, NEW x, NEW u, NEW v
  PROVE  /\ Halfway(m, x, u, v, 0) <=> \A i \in Coeffs : Mod(m, x[i]) = Mod(m, v[i])
         /\ Halfway(m, x, u, v, Size) <=> \A i \in Coeffs : Mod(m, x[i]) = Mod(m, u[i])
<1>1. \A i \in Coeffs : ~(i < 0) /\ i < Size
  BY Fields DEF Coeffs, SizeFacts
<1> QED
  BY <1>1 DEF Halfway

(* What a layer of the inverse transform leaves in each coefficient.       *)
Spread(w) == Unit * (w \div SmallestLen)

LEMMA Spreads ==
  /\ Unit \in Int /\ Spread(SmallestLen) = Unit
  /\ \A w \in Powers : SmallestLen <= w => Spread(w) \in Int /\ Spread(2 * w) = 2 * Spread(w)
<1>1. SmallestLen \in {1, 2}
  BY SmallestLens
<1>2. PICK e \in Int : e = Unit
  <2>1. impl = "c-ref" => ~Lowram
    BY DEF Lowram
  <2> QED
    BY <2>1, Inverses DEF Inverts, Unit
<1>3. SmallestLen \div SmallestLen = 1
  BY <1>1
<1>4. ASSUME NEW w \in Powers, SmallestLen <= w
      PROVE  Spread(w) \in Int /\ Spread(2 * w) = 2 * Spread(w)
  <2>1. w \in {1, 2, 4, 8, 16, 32, 64, 128}
    BY DEF Powers
  <2>2. PICK d \in Int : d = w \div SmallestLen /\ (2 * w) \div SmallestLen = 2 * d
    BY ONLY <1>1, <1>4, <2>1
  <2>3. e * d \in Int /\ e * (2 * d) = 2 * (e * d)
    BY ONLY e \in Int, d \in Int
  <2> QED
    BY <1>2, <2>2, <2>3 DEF Spread
<1> QED
  BY <1>2, <1>3, <1>4 DEF Spread

LEMMA UnitsCancel ==
  ASSUME NEW m \in Nat \ {0}, NEW f \in Int, NEW i \in Int, (f * i) % m = 1,
         NEW g \in Int, NEW d \in Int, (g * d) % m = 1
  PROVE  UnitPair(m, (f * f * d * i) % m, i * g) /\ UnitPair(m, d, 1 * g)
<1>1. PICK u \in Int, v \in Int, o \in Int, oo \in Int : u = f * i /\ v = g * d /\ o = u % m /\ oo = o
  <2>1. f * i \in Int /\ g * d \in Int /\ (f * i) % m \in Int
    BY ModType DEF Mod
  <2> QED
    BY <2>1
<1>2. o = 1
  BY <1>1
<1>3. Mod(m, u) = Mod(m, o) /\ Mod(m, v) = Mod(m, o)
  <2>1. Mod(m, u % m) = Mod(m, u) /\ Mod(m, v % m) = Mod(m, v)
    BY ModOfRemainder
  <2> QED
    BY <1>1, <1>2, <2>1
<1>4. Mod(m, u * u) = Mod(m, o * o)
  BY ONLY <1>3, m \in Nat \ {0}, u \in Int, o \in Int, ModMul
<1>5. PICK uu \in Int, p \in Int : uu = u * u /\ p = o * o
  OBVIOUS
<1>6. Mod(m, uu) = Mod(m, p)
  BY <1>4, <1>5
<1>7. Mod(m, uu * v) = Mod(m, p * o)
  BY ONLY <1>3, <1>6, m \in Nat \ {0}, uu \in Int, p \in Int, v \in Int, o \in Int, ModMul
<1>8. PICK x \in Int, y \in Int, z \in Int, n \in Int : x = f * f * d * i /\ y = i * g /\ z = x % m /\ n = y
  <2>1. f * f * d * i \in Int /\ i * g \in Int
    OBVIOUS
  <2>2. (f * f * d * i) % m \in Int
    <3>1. PICK x \in Int : x = f * f * d * i
      OBVIOUS
    <3> QED
      BY <3>1, ModType DEF Mod
  <2> QED
    BY <2>1, <2>2
<1>9. Mod(m, z) = Mod(m, x) /\ Mod(m, y) = Mod(m, n)
  BY <1>8, ModOfRemainder
<1>10. Mod(m, z * y) = Mod(m, x * n)
  BY ONLY <1>9, m \in Nat \ {0}, z \in Int, x \in Int, y \in Int, n \in Int, ModMul
<1>11. x * n = uu * v
  <2>1. f * f * d * i = (f * i) * (f * d)
    BY ONLY f \in Int, i \in Int, d \in Int
  <2>2. PICK fd \in Int, ig \in Int : fd = f * d /\ ig = i * g
    OBVIOUS
  <2>3. fd * ig = u * v
    <3>1. (f * d) * (i * g) = (f * i) * (g * d)
      BY ONLY f \in Int, i \in Int, d \in Int, g \in Int
    <3> QED
      BY <1>1, <2>2, <3>1
  <2>4. x * n = (u * fd) * ig
    BY <1>1, <1>8, <2>1, <2>2
  <2>5. (u * fd) * ig = u * (fd * ig)
    BY ONLY u \in Int, fd \in Int, ig \in Int
  <2>6. u * (u * v) = (u * u) * v
    BY ONLY u \in Int, v \in Int
  <2> QED
    BY <1>5, <2>3, <2>4, <2>5, <2>6
<1>12. UnitPair(m, z, y)
  BY <1>2, <1>5, <1>7, <1>10, <1>11 DEF UnitPair
<1>13. UnitPair(m, d, 1 * g)
  <2>1. d * (1 * g) = v
    BY <1>1
  <2> QED
    BY <1>2, <1>3, <2>1 DEF UnitPair
<1> QED
  BY <1>8, <1>12, <1>13

(* The last factor takes away what the loops and the products left.        *)
LEMMA ScaleRight ==
  ASSUME InputRight
  PROVE  ScaleFactor \in Int /\ Spread(Size) \in Int /\ UnitPair(q, ScaleFactor, Spread(Size))
<1>1. PICK m \in Nat \ {0} : m = q
  BY Fields
<1>2. Size \in Nat /\ Size \in {4, 8, 16, 32, 64, 128, 256}
  BY Fields DEF SizeFacts
<1>3. ASSUME NEW x \in Int
      PROVE  x % m \in Int
  BY ModType DEF Mod
<1>4. CASE impl = "c-ref"
  <2>1. ~Lowram /\ ~Contract /\ SmallestLen = 1
    BY <1>4 DEF Lowram, Contract, SmallestLen
  <2>2. PICK f \in Int, i \in Int, g \in Int, d \in Int :
          /\ f = Mont /\ i = ModInverse(Mont) /\ g = Size /\ d = ModInverse(Size)
          /\ (f * i) % m = 1 /\ (g * d) % m = 1
    BY <1>1, <2>1, Inverses DEF Inverts
  <2>3. ScaleFactor = (f * f * d * i) % m
    <3>1. ScaleFactor = montgomery_reduce(Mont * Mont * ModInverse(Size))
      BY <1>4, <2>1 DEF ScaleFactor
    <3>2. montgomery_reduce(Mont * Mont * ModInverse(Size)) = (Mont * Mont * ModInverse(Size) * ModInverse(Mont)) % q
      BY DEF montgomery_reduce
    <3> QED
      BY <1>1, <2>2, <3>1, <3>2
  <2>4. Spread(Size) = i * g
    <3>1. Size \div 1 = Size
      BY <1>2
    <3>2. Unit = i
      BY <1>4, <2>2 DEF Unit
    <3> QED
      BY <2>1, <2>2, <3>1, <3>2 DEF Spread
  <2>5. UnitPair(m, (f * f * d * i) % m, i * g)
    BY ONLY <2>2, m \in Nat \ {0}, f \in Int, i \in Int, g \in Int, d \in Int, UnitsCancel
  <2>6. (f * f * d * i) % m \in Int /\ i * g \in Int
    BY <1>3
  <2> QED
    BY <1>1, <2>3, <2>4, <2>5, <2>6
<1>5. CASE Lowram
  <2>1. impl # "c-ref" /\ ~Contract /\ SmallestLen = 2
    BY <1>5 DEF Lowram, Contract, SmallestLen
  <2>2. PICK f \in Int, i \in Int, g \in Int, d \in Int :
          /\ f = SmallMont /\ i = ModInverse(SmallMont) /\ g = Size \div 2 /\ d = ModInverse(Size \div 2)
          /\ (f * i) % m = 1 /\ (g * d) % m = 1
    BY <1>1, <1>5, Inverses DEF Inverts
  <2>3. ScaleFactor = (f * f * d * i) % m
    BY <1>1, <1>5, <2>1, <2>2 DEF ScaleFactor, fqmul
  <2>4. Spread(Size) = i * g
    <3>1. Unit = i
      BY <1>5, <2>1, <2>2 DEF Unit
    <3> QED
      BY <2>1, <2>2, <3>1 DEF Spread
  <2>5. UnitPair(m, (f * f * d * i) % m, i * g)
    BY ONLY <2>2, m \in Nat \ {0}, f \in Int, i \in Int, g \in Int, d \in Int, UnitsCancel
  <2>6. (f * f * d * i) % m \in Int /\ i * g \in Int
    BY <1>3
  <2> QED
    BY <1>1, <2>3, <2>4, <2>5, <2>6
<1>6. CASE Contract
  <2>1. ~Lowram /\ impl # "c-ref" /\ SmallestLen = 1
    BY <1>6 DEF Lowram, Contract, SmallestLen
  <2>2. PICK f \in Int, i \in Int, g \in Int, d \in Int :
          /\ f = Mont /\ i = ModInverse(Mont) /\ g = Size /\ d = ModInverse(Size)
          /\ (f * i) % m = 1 /\ (g * d) % m = 1
    BY <1>1, <2>1, Inverses DEF Inverts
  <2>3. ScaleFactor = d
    BY <1>6, <2>1, <2>2 DEF ScaleFactor
  <2>4. Spread(Size) = 1 * g
    <3>1. Size \div 1 = Size
      BY <1>2
    <3>2. Unit = 1
      BY <2>1 DEF Unit
    <3> QED
      BY <2>1, <2>2, <3>1, <3>2 DEF Spread
  <2>5. UnitPair(m, d, 1 * g)
    BY ONLY <2>2, m \in Nat \ {0}, f \in Int, i \in Int, g \in Int, d \in Int, UnitsCancel
  <2> QED
    BY <1>1, <2>3, <2>4, <2>5
<1> QED
  BY <1>4, <1>5, <1>6 DEF InputRight, Lowram, Contract

LEMMA SamePrimes ==
  ASSUME impl' = impl, input' = input
  PROVE  /\ q' = q /\ Gen' = Gen /\ Order' = Order /\ SmallestLen' = SmallestLen
         /\ \A w : Tree(w)' = Tree(w)
         /\ \A n : Source(n)' = Source(n)
         /\ Names' = Names
<1>1. Lowram' = Lowram
  BY DEF Lowram
<1>2. q' = q /\ Gen' = Gen /\ Order' = Order /\ SmallestLen' = SmallestLen /\ Names' = Names
  BY <1>1 DEF q, Gen, Order, SmallestLen, Names
<1>3. ScaledT1' = ScaledT1
  BY <1>2 DEF ScaledT1
<1>4. \A n : Source(n)' = Source(n)
  BY <1>3 DEF Source
<1>5. \A w : Tree(w)' = Tree(w)
  BY <1>1, <1>2, <1>3 DEF Tree
<1> QED
  BY <1>2, <1>4, <1>5

-----------------------------------------------------------------------------
(* The invariant                                                           *)

ForwardPlace(c, w, j, x, l, s, n, p) ==
  /\ At(c, w, j, l, s)
  /\ impl = "c-ref" => n = c + j - 1
  /\ Lowram => n = c + j
  /\ Halfway(q, x, Folded(q, Gen, Order, w, p), Folded(q, Gen, Order, 2 * w, p), s)

ForwardRight(x, l, s, n, p) ==
  \/ \E c, w, j : ForwardPlace(c, w, j, x, l, s, n, p)
  \/ /\ l \in Int /\ l < SmallestLen
     /\ \A i \in Coeffs : Mod(q, x[i]) = Mod(q, Folded(q, Gen, Order, SmallestLen, p)[i])

InversePlace(c, w, j, x, l, s, n) ==
  /\ At(c, w, j, l, s)
  /\ impl = "c-ref" => n = 2 * c - j
  /\ Lowram => n = 2 * c - 1 - j
  /\ Halfway(q, x, Scaled(2 * Spread(w), Tree(2 * w)), Scaled(Spread(w), Tree(w)), s)

InverseRight(x, l, s, n) ==
  \/ \E c, w, j : InversePlace(c, w, j, x, l, s, n)
  \/ /\ l = Size
     /\ \A i \in Coeffs : Mod(q, x[i]) = Mod(q, Spread(Size) * Tree(Size)[i])

DoneRight(x) ==
  \A i \in Coeffs : x[i] \in 0 .. q - 1 /\ Mod(q, x[i]) = Mod(q, Tree(Size)[i])

Moves(l, s, ll, ss, wrap) ==
  IF s + 2 * l < Size THEN ss = s + 2 * l /\ ll = l ELSE ss = 0 /\ ll = wrap

(* The terms of a block: the operand's coefficients times its zeta.        *)
TermOf(t, node, x) ==
  \A i \in Coeffs : t[i] \in Int /\ Mod(q, t[i]) = Mod(q, Twiddle(q, Gen, Order, node) * x[i])

LEMMA ForwardMove ==
  ASSUME InputRight, NEW name \in Names, NEW x \in [Coeffs -> Int],
         NEW c, NEW w, NEW j, NEW l, NEW s, NEW n, ForwardPlace(c, w, j, x, l, s, n, Source(name)),
         NEW term, TermOf(term, c + j, x),
         NEW ll, NEW ss, NEW nn, Moves(l, s, ll, ss, l \div 2),
         impl = "c-ref" \/ Lowram => nn = n + 1
  PROVE  /\ ForwardStep(q, x, term, s, l) \in [Coeffs -> Int]
         /\ ForwardRight(ForwardStep(q, x, term, s, l), ll, ss, nn, Source(name))
<1>1. PICK m \in Nat \ {0}, g \in Int, h \in Nat \ {0} :
        m = q /\ g = Gen /\ h = Order /\ Ring(m, g, h)
  BY Fields, RingTypes
<1>2. PICK p : p = Source(name)
  OBVIOUS
<1>3. At(c, w, j, l, s)
  BY DEF ForwardPlace
<1>4. /\ c \in Nat \ {0} /\ w \in Nat \ {0} /\ j \in 0 .. c - 1 /\ Layer(h, c, w) /\ l = w /\ s = j * (2 * w)
  <2>1. l = w /\ s = j * (2 * w)
    BY <1>3 DEF At
  <2> QED
    BY <1>1, <1>3, <2>1, AtLayer
<1> DEFINE u == Folded(m, g, h, w, p)  v == Folded(m, g, h, 2 * w, p)
           y == ForwardStep(m, x, term, s, w)
<1>5. /\ u \in [Coeffs -> Int] /\ v \in [Coeffs -> Int] /\ Splits(m, g, h, c, w, v, u)
  <2>1. Layer(Order, c, w)
    BY <1>1, <1>4
  <2> QED
    BY <1>1, <1>2, <2>1, SourceSplits
<1>6. Halfway(m, x, u, v, s)
  BY <1>1, <1>2 DEF ForwardPlace
<1>7. \A i \in Coeffs : term[i] \in Int /\ Mod(m, term[i]) = Mod(m, Twiddle(m, g, h, c + j) * x[i])
  BY <1>1 DEF TermOf
<1> HIDE DEF u, v
<1>8. y \in [Coeffs -> Int] /\ Halfway(m, y, u, v, s + 2 * w)
  <2>1. /\ Ring(m, g, h) /\ Layer(h, c, w) /\ j \in 0 .. c - 1 /\ s = j * (2 * w)
        /\ u \in [Coeffs -> Int] /\ v \in [Coeffs -> Int]
    BY <1>1, <1>4, <1>5
  <2> QED
    BY ONLY <2>1, <1>5, <1>6, <1>7, x \in [Coeffs -> Int], ForwardHalfway DEF y
<1> HIDE DEF y
<1>9. /\ s \in Nat /\ s + 2 * w <= Size
      /\ s + 2 * w < Size => j + 1 < c /\ At(c, w, j + 1, l, s + 2 * w)
      /\ ~(s + 2 * w < Size) => j = c - 1 /\ s + 2 * w = Size
  <2>1. NextRight(c, w, j, l, s)
    BY <1>3, NextBlock
  <2> QED
    BY <2>1 DEF NextRight
<1>10. /\ impl = "c-ref" => n = c + j - 1 /\ nn = n + 1
       /\ Lowram => n = c + j /\ nn = n + 1
  BY DEF ForwardPlace
<1>11. ForwardRight(y, ll, ss, nn, p)
  <2>1. CASE s + 2 * w < Size
    <3>1. ss = s + 2 * w /\ ll = l
      BY <1>4, <2>1 DEF Moves
    <3>2. ForwardPlace(c, w, j + 1, y, ll, ss, nn, p)
      <4>1. /\ impl = "c-ref" => nn = c + (j + 1) - 1
            /\ Lowram => nn = c + (j + 1)
        BY <1>4, <1>10
      <4> QED
        BY <1>1, <1>8, <1>9, <2>1, <3>1, <4>1 DEF ForwardPlace, u, v
    <3> QED
      BY <3>2 DEF ForwardRight
  <2>2. CASE ~(s + 2 * w < Size)
    <3>1. ss = 0 /\ ll = w \div 2 /\ j = c - 1
      BY <1>4, <1>9, <2>2 DEF Moves
    <3>2. \A i \in Coeffs : Mod(m, y[i]) = Mod(m, u[i])
      <4>1. Halfway(m, y, u, v, Size)
        BY <1>8, <1>9, <2>2
      <4> QED
        BY <4>1, HalfwayEnds
    <3>3. CASE w \div 2 < SmallestLen
      <4>1. w = SmallestLen
        BY <1>3, <3>3, NarrowerLayer
      <4> QED
        <5>1. ll \in Int
          BY <1>4, <3>1
        <5> QED
          BY <1>1, <3>1, <3>2, <3>3, <4>1, <5>1 DEF ForwardRight, u
    <3>4. CASE ~(w \div 2 < SmallestLen)
      <4>1. At(2 * c, w \div 2, 0, w \div 2, 0) /\ w = 2 * (w \div 2)
        BY <1>3, <3>4, NarrowerLayer
      <4>2. PICK b : b = w \div 2 /\ w = 2 * b
        BY <4>1
      <4>3. PICK t : t = Folded(m, g, h, b, p)
        OBVIOUS
      <4>4. Halfway(m, y, t, u, 0)
        BY <3>2, HalfwayEnds
      <4>5. Halfway(m, y, Folded(m, g, h, b, p), Folded(m, g, h, 2 * b, p), 0)
        BY <4>2, <4>3, <4>4 DEF u
      <4>6. /\ impl = "c-ref" => nn = 2 * c + 0 - 1
            /\ Lowram => nn = 2 * c + 0
        BY <1>4, <1>10, <3>1
      <4>7. ForwardPlace(2 * c, b, 0, y, ll, ss, nn, p)
        BY <1>1, <3>1, <4>1, <4>2, <4>5, <4>6 DEF ForwardPlace
      <4> QED
        BY <4>7 DEF ForwardRight
    <3> QED
      BY <3>3, <3>4
  <2> QED
    BY <2>1, <2>2
<1> QED
  BY <1>1, <1>2, <1>4, <1>8, <1>11 DEF y

LEMMA InverseMove ==
  ASSUME InputRight, NEW x \in [Coeffs -> Int],
         NEW c, NEW w, NEW j, NEW l, NEW s, NEW n, InversePlace(c, w, j, x, l, s, n),
         NEW factor \in Int, UnitPair(q, factor, Twiddle(q, Gen, Order, c + j)),
         NEW ll, NEW ss, NEW nn, Moves(l, s, ll, ss, 2 * l),
         impl = "c-ref" \/ Lowram => nn = n - 1
  PROVE  /\ InverseStep(q, x, factor, s, l) \in [Coeffs -> Int]
         /\ InverseRight(InverseStep(q, x, factor, s, l), ll, ss, nn)
<1>1. PICK m \in Nat \ {0}, g \in Int, h \in Nat \ {0} :
        m = q /\ g = Gen /\ h = Order /\ Ring(m, g, h)
  BY Fields, RingTypes
<1>3. At(c, w, j, l, s)
  BY DEF InversePlace
<1>4. /\ c \in Nat \ {0} /\ w \in Nat \ {0} /\ j \in 0 .. c - 1 /\ Layer(h, c, w) /\ l = w /\ s = j * (2 * w)
      /\ w \in Powers /\ SmallestLen <= w
  <2>1. l = w /\ s = j * (2 * w) /\ w \in Powers /\ SmallestLen <= w
    BY <1>3 DEF At
  <2> QED
    BY <1>1, <1>3, <2>1, AtLayer
<1>2. PICK e \in Int : e = Spread(w) /\ Spread(2 * w) = 2 * e
  BY <1>4, Spreads
<1> DEFINE u == Tree(w)  v == Tree(2 * w)
           y == InverseStep(m, x, factor, s, w)
<1>5. /\ u \in [Coeffs -> Int] /\ v \in [Coeffs -> Int] /\ Splits(m, g, h, c, w, v, u)
  <2>1. Layer(Order, c, w)
    BY <1>1, <1>4
  <2> QED
    BY <1>1, <2>1, TreeSplits
<1>6. Halfway(m, x, Scaled(2 * e, v), Scaled(e, u), s)
  BY <1>1, <1>2 DEF InversePlace
<1>7. Mod(m, factor * Twiddle(m, g, h, c + j)) = Mod(m, 1)
  BY <1>1 DEF UnitPair
<1> HIDE DEF u, v
<1>8. y \in [Coeffs -> Int] /\ Halfway(m, y, Scaled(2 * e, v), Scaled(e, u), s + 2 * w)
  <2>1. /\ Ring(m, g, h) /\ Layer(h, c, w) /\ j \in 0 .. c - 1 /\ s = j * (2 * w)
        /\ u \in [Coeffs -> Int] /\ v \in [Coeffs -> Int] /\ Splits(m, g, h, c, w, v, u)
    BY <1>1, <1>4, <1>5
  <2> QED
    BY ONLY <2>1, <1>6, <1>7, x \in [Coeffs -> Int], e \in Int, factor \in Int, InverseHalfway DEF y
<1> HIDE DEF y
<1>9. /\ s \in Nat /\ s + 2 * w <= Size
      /\ s + 2 * w < Size => j + 1 < c /\ At(c, w, j + 1, l, s + 2 * w)
      /\ ~(s + 2 * w < Size) => j = c - 1 /\ s + 2 * w = Size
  <2>1. NextRight(c, w, j, l, s)
    BY <1>3, NextBlock
  <2> QED
    BY <2>1 DEF NextRight
<1>10. /\ impl = "c-ref" => n = 2 * c - j /\ nn = n - 1
       /\ Lowram => n = 2 * c - 1 - j /\ nn = n - 1
  BY DEF InversePlace
<1>11. InverseRight(y, ll, ss, nn)
  <2>1. CASE s + 2 * w < Size
    <3>1. ss = s + 2 * w /\ ll = l
      BY <1>4, <2>1 DEF Moves
    <3>2. InversePlace(c, w, j + 1, y, ll, ss, nn)
      <4>1. /\ impl = "c-ref" => nn = 2 * c - (j + 1)
            /\ Lowram => nn = 2 * c - 1 - (j + 1)
        BY <1>4, <1>10
      <4> QED
        BY <1>1, <1>2, <1>8, <1>9, <2>1, <3>1, <4>1 DEF InversePlace, u, v
    <3> QED
      BY <3>2 DEF InverseRight
  <2>2. CASE ~(s + 2 * w < Size)
    <3>1. ss = 0 /\ ll = 2 * w /\ j = c - 1
      BY <1>4, <1>9, <2>2 DEF Moves
    <3>2. \A i \in Coeffs : Mod(m, y[i]) = Mod(m, Scaled(2 * e, v)[i])
      <4>1. Halfway(m, y, Scaled(2 * e, v), Scaled(e, u), Size)
        BY <1>8, <1>9, <2>2
      <4> QED
        BY <4>1, HalfwayEnds
    <3>3. CASE c = 1
      <4>1. 2 * w = Size
        BY <1>3, <3>3, WiderLayer
      <4>2. \A i \in Coeffs : Scaled(2 * e, v)[i] = Spread(Size) * Tree(Size)[i]
        BY <1>2, <4>1 DEF Scaled, v
      <4> QED
        BY <1>1, <3>1, <3>2, <4>1, <4>2 DEF InverseRight
    <3>4. CASE c # 1
      <4>1. /\ At(c \div 2, 2 * w, 0, 2 * w, 0)
            /\ c = 2 * (c \div 2) /\ c \div 2 \in Nat \ {0}
        BY <1>3, <3>4, WiderLayer
      <4>2. PICK b \in Nat \ {0} : b = c \div 2 /\ c = 2 * b
        BY <4>1
      <4>3. PICK o : o = 2 * w
        OBVIOUS
      <4>4. PICK t : t = Scaled(2 * Spread(o), Tree(2 * o))
        OBVIOUS
      <4>5. Halfway(m, y, t, Scaled(2 * e, v), 0)
        BY <3>2, HalfwayEnds
      <4>6. Halfway(m, y, Scaled(2 * Spread(o), Tree(2 * o)), Scaled(Spread(o), Tree(o)), 0)
        BY <1>2, <4>3, <4>4, <4>5 DEF v
      <4>7. /\ impl = "c-ref" => nn = 2 * b - 0
            /\ Lowram => nn = 2 * b - 1 - 0
        BY <1>4, <1>10, <3>1, <4>2
      <4>8. InversePlace(b, o, 0, y, ll, ss, nn)
        BY <1>1, <3>1, <4>1, <4>2, <4>3, <4>6, <4>7 DEF InversePlace
      <4> QED
        BY <4>8 DEF InverseRight
    <3> QED
      BY <3>3, <3>4
  <2> QED
    BY <2>1, <2>2
<1> QED
  BY <1>1, <1>4, <1>8, <1>11 DEF y

Transformable == {name \in Names : name[1] # "A"}

TodoRight(t, hats) ==
  /\ t \in Seq(Transformable)
  /\ \A name \in Names : name \in DOMAIN hats \/ \E i \in 1 .. Len(t) : t[i] = name

HandRight(t, x, lp, l, s, n) ==
  /\ x \in [Coeffs -> Int]
  /\ lp = "forward" => t # <<>> /\ ForwardRight(x, l, s, n, Source(Head(t)))
  /\ lp = "inverse" => InverseRight(x, l, s, n)
  /\ lp = "done" => DoneRight(x)

ProductsInv ==
  /\ InputRight
  /\ HatRight(hat)
  /\ TodoRight(todo, hat)
  /\ HandRight(todo, a, loop, len, start, k)

LEMMA InvPrimes ==
  ASSUME impl' = impl, input' = input,
         InputRight, HatRight(hat'), TodoRight(todo', hat'), HandRight(todo', a', loop', len', start', k')
  PROVE  ProductsInv'
<1>1. /\ q' = q /\ Gen' = Gen /\ Order' = Order /\ SmallestLen' = SmallestLen
      /\ \A w : Tree(w)' = Tree(w)
      /\ \A n : Source(n)' = Source(n)
      /\ Names' = Names
  BY SamePrimes
<1>2. InputRight'
  BY DEF InputRight
<1>3. HatRight(hat)'
  <2>1. \A n : SmallFold(n)' = SmallFold(n)
    BY <1>1 DEF SmallFold
  <2> QED
    BY <1>1, <2>1 DEF HatRight
<1>4. TodoRight(todo, hat)'
  BY <1>1 DEF TodoRight, Transformable
<1>5. HandRight(todo, a, loop, len, start, k)'
  <2>1. Lowram' = Lowram
    BY DEF Lowram
  <2>2. Unit' = Unit
    <3>1. ModInverse(Mont)' = ModInverse(Mont) /\ ModInverse(SmallMont)' = ModInverse(SmallMont)
      BY <1>1 DEF ModInverse
    <3> QED
      BY <2>1, <3>1 DEF Unit
  <2>3. \A w : Spread(w)' = Spread(w)
    BY <1>1, <2>2 DEF Spread
  <2>4. \A c, w, j, l, s : At(c, w, j, l, s)' <=> At(c, w, j, l, s)
    BY <1>1 DEF At
  <2>5. ForwardRight(a', len', start', k', Source(Head(todo'))) => ForwardRight(a, len, start, k, Source(Head(todo)))'
    BY <1>1, <2>1, <2>4 DEF ForwardRight, ForwardPlace
  <2>6. InverseRight(a', len', start', k') => InverseRight(a, len, start, k)'
    BY <1>1, <2>1, <2>3, <2>4 DEF InverseRight, InversePlace
  <2>7. DoneRight(a') => DoneRight(a)'
    BY <1>1 DEF DoneRight
  <2> QED
    BY <2>5, <2>6, <2>7 DEF HandRight
<1> QED
  BY <1>2, <1>3, <1>4, <1>5 DEF ProductsInv

Has(t, name) == \E i \in 1 .. Len(t) : t[i] = name

LEMMA Joined ==
  ASSUME NEW S, NEW s \in Seq(S), NEW t \in Seq(S)
  PROVE  /\ s \o t \in Seq(S)
         /\ \A name : Has(s, name) \/ Has(t, name) => Has(s \o t, name)
<1>1. s \o t \in Seq(S)
  OBVIOUS
<1>2. Len(s) \in Nat /\ Len(t) \in Nat /\ Len(s \o t) = Len(s) + Len(t)
  OBVIOUS
<1>3. ASSUME NEW i \in 1 .. Len(s)
      PROVE  i \in 1 .. Len(s \o t) /\ (s \o t)[i] = s[i]
  BY <1>2
<1>4. ASSUME NEW i \in 1 .. Len(t)
      PROVE  Len(s) + i \in 1 .. Len(s \o t) /\ (s \o t)[Len(s) + i] = t[i]
  BY <1>2
<1> QED
  BY <1>1, <1>3, <1>4 DEF Has

(* The order in which an implementation transforms the operands.           *)
LEMMA OperandsRight ==
  ASSUME InputRight
  PROVE  TodoRight(Operands, [name \in Given |-> InKey(name)])
<1>1. RowLen \in Nat
  BY Fields
<1>2. /\ impl = "c-ref" => ~Lowram /\ ~Contract
      /\ Contract => ~Lowram
      /\ impl = "c-ref" \/ impl = "ZKNOX_dilithium" \/ impl = "ZKNOX_ethdilithium" \/ Lowram
  BY DEF InputRight, Lowram, Contract
<1>3. /\ Columns \in Seq(Transformable) \/ Lowram
      /\ Len(Columns) = RowLen
      /\ \A j \in Column : j + 1 \in 1 .. RowLen /\ Columns[j + 1] = <<"z", j>>
  <2>1. ASSUME NEW j \in 1 .. RowLen, ~Lowram
        PROVE  <<"z", j - 1>> \in Transformable
    <3>1. j - 1 \in Column
      BY <1>1 DEF Column
    <3>2. <<"z", j - 1>> \in Names
      BY <2>1, <3>1 DEF Names
    <3> QED
      BY <3>2 DEF Transformable
  <2>2. ~Lowram => Columns \in Seq(Transformable)
    <3>1. ~Lowram => Columns \in [1 .. RowLen -> Transformable]
      BY <2>1 DEF Columns
    <3> QED
      BY <1>1, <3>1
  <2>3. Len(Columns) = RowLen
    BY <1>1 DEF Columns
  <2>4. \A j \in Column : j + 1 \in 1 .. RowLen /\ Columns[j + 1] = <<"z", j>>
    BY <1>1 DEF Columns, Column
  <2> QED
    BY <2>2, <2>3, <2>4
<1>4. /\ <<"c", 1>> \in Transformable
      /\ ~Lowram => <<"t1", 1>> \in Transformable
      /\ Lowram => <<"s", 1>> \in Transformable
  BY DEF Transformable, Names
<1>5. DOMAIN [name \in Given |-> InKey(name)] = Given
  OBVIOUS
<1> DEFINE Covers(t) == \A name \in Names : name \in Given \/ \E i \in 1 .. Len(t) : t[i] = name
<1>6. Operands \in Seq(Transformable) /\ Covers(Operands)
  <2>0. ~Lowram => \A name \in Names :
            \/ name \in Given \/ name = <<"c", 1>> \/ name = <<"t1", 1>>
            \/ \E j \in Column : name = <<"z", j>>
    BY DEF Names, Given
  <2>1. \A j \in Column : Has(Columns, <<"z", j>>)
    BY <1>3 DEF Has
  <2>2. ASSUME ~Lowram
        PROVE  <<<<"c", 1>>, <<"t1", 1>>>> \in Seq(Transformable) /\ <<<<"c", 1>>>> \in Seq(Transformable)
    BY <1>4, <2>2
  <2>3. /\ Has(<<<<"c", 1>>, <<"t1", 1>>>>, <<"c", 1>>) /\ Has(<<<<"c", 1>>, <<"t1", 1>>>>, <<"t1", 1>>)
        /\ Has(<<<<"c", 1>>>>, <<"c", 1>>)
    <3>1. PICK D : D = <<<<"c", 1>>, <<"t1", 1>>>>
      OBVIOUS
    <3>2. Len(D) = 2 /\ D[1] = <<"c", 1>> /\ D[2] = <<"t1", 1>>
      BY <3>1
    <3>3. Has(D, <<"c", 1>>) /\ Has(D, <<"t1", 1>>)
      BY <3>2 DEF Has
    <3>4. Has(<<<<"c", 1>>>>, <<"c", 1>>)
      BY DEF Has
    <3> QED
      BY <3>1, <3>3, <3>4
  <2>4. CASE impl = "c-ref"
    <3>0. ~Lowram /\ impl # "ZKNOX_dilithium" /\ impl # "ZKNOX_ethdilithium"
      BY <2>4 DEF Lowram
    <3>1. PICK C \in Seq(Transformable), D \in Seq(Transformable) :
            C = Columns /\ D = <<<<"c", 1>>, <<"t1", 1>>>>
      BY <1>3, <2>2, <3>0
    <3>2. Operands = C \o D
      BY <2>4, <3>0, <3>1 DEF Operands
    <3>3. /\ C \o D \in Seq(Transformable)
          /\ \A name : Has(C, name) \/ Has(D, name) => Has(C \o D, name)
      BY Joined
    <3>4. \A j \in Column : Has(C \o D, <<"z", j>>)
      BY <2>1, <3>1, <3>3
    <3>5. Has(C \o D, <<"c", 1>>) /\ Has(C \o D, <<"t1", 1>>)
      BY <2>3, <3>1, <3>3
    <3>6. \A name \in Names : name \in Given \/ Has(C \o D, name)
      BY <2>0, <3>0, <3>4, <3>5
    <3> QED
      BY <3>2, <3>3, <3>6 DEF Has
  <2>5. CASE impl = "ZKNOX_dilithium"
    <3>0. ~Lowram /\ impl # "c-ref" /\ impl # "ZKNOX_ethdilithium"
      BY <2>5 DEF Lowram
    <3>1. PICK C \in Seq(Transformable), D \in Seq(Transformable) :
            C = Columns /\ D = <<<<"c", 1>>, <<"t1", 1>>>>
      BY <1>3, <2>2, <3>0
    <3>2. Operands = D \o C
      BY <2>5, <3>0, <3>1 DEF Operands
    <3>3. /\ D \o C \in Seq(Transformable)
          /\ \A name : Has(D, name) \/ Has(C, name) => Has(D \o C, name)
      BY Joined
    <3>4. \A j \in Column : Has(D \o C, <<"z", j>>)
      BY <2>1, <3>1, <3>3
    <3>5. Has(D \o C, <<"c", 1>>) /\ Has(D \o C, <<"t1", 1>>)
      BY <2>3, <3>1, <3>3
    <3>6. \A name \in Names : name \in Given \/ Has(D \o C, name)
      BY <2>0, <3>0, <3>4, <3>5
    <3> QED
      BY <3>2, <3>3, <3>6 DEF Has
  <2>6. CASE impl = "ZKNOX_ethdilithium"
    <3>0. ~Lowram /\ impl # "c-ref" /\ impl # "ZKNOX_dilithium" /\ <<"t1", 1>> \in Given
      BY <2>6 DEF Lowram, Given
    <3>1. PICK C \in Seq(Transformable), D \in Seq(Transformable) :
            C = Columns /\ D = <<<<"c", 1>>>>
      BY <1>3, <2>2, <3>0
    <3>2. Operands = D \o C
      BY <2>6, <3>0, <3>1 DEF Operands
    <3>3. /\ D \o C \in Seq(Transformable)
          /\ \A name : Has(D, name) \/ Has(C, name) => Has(D \o C, name)
      BY Joined
    <3>4. \A j \in Column : Has(D \o C, <<"z", j>>)
      BY <2>1, <3>1, <3>3
    <3>5. Has(D \o C, <<"c", 1>>)
      BY <2>3, <3>1, <3>3
    <3>6. \A name \in Names : name \in Given \/ Has(D \o C, name)
      BY <2>0, <3>0, <3>4, <3>5
    <3> QED
      BY <3>2, <3>3, <3>6 DEF Has
  <2>7. CASE Lowram
    <3>0. impl # "c-ref" /\ impl # "ZKNOX_dilithium" /\ impl # "ZKNOX_ethdilithium"
      BY <2>7 DEF Lowram
    <3>1. Operands = <<<<"c", 1>>, <<"s", 1>>>>
      BY <2>7, <3>0 DEF Operands
    <3>2. Operands \in Seq(Transformable) /\ Len(Operands) = 2
          /\ Operands[1] = <<"c", 1>> /\ Operands[2] = <<"s", 1>>
      BY <1>4, <2>7, <3>1
    <3>3. \A name \in Names : name = <<"c", 1>> \/ name = <<"s", 1>>
      BY <2>7 DEF Names
    <3> QED
      BY <3>2, <3>3
  <2> QED
    BY <1>2, <2>4, <2>5, <2>6, <2>7
<1> QED
  BY <1>5, <1>6 DEF TodoRight

LEMMA ProductsInit ==
  ASSUME ProductInit
  PROVE  ProductsInv
<1>1. /\ InputRight /\ todo = Operands /\ hat = [name \in Given |-> InKey(name)]
      /\ a = [i \in Coeffs |-> 0] /\ loop = "none"
  BY DEF ProductInit, InputRight
<1>2. TodoRight(todo, hat)
  BY <1>1, OperandsRight
<1>3. HatRight(hat)
  <2>1. DOMAIN hat = Given /\ \A name \in Given : hat[name] = InKey(name)
    BY <1>1
  <2>2. \A name \in Given : SmallFold(name) = Folded(q, Gen, Order, 1, Source(name))
    BY <1>1, InKeyRight DEF SmallFold, SmallestLen
  <2> QED
    BY <1>1, <2>1, <2>2, InKeyRight DEF HatRight
<1>4. HandRight(todo, a, loop, len, start, k)
  BY <1>1 DEF HandRight
<1> QED
  BY <1>1, <1>2, <1>3, <1>4 DEF ProductsInv

LEMMA EntersForward ==
  ASSUME ProductsInv, EnterForward
  PROVE  ProductsInv'
<1>1. /\ InputRight /\ HatRight(hat) /\ TodoRight(todo, hat) /\ todo # <<>>
      /\ impl' = impl /\ input' = input /\ todo' = todo /\ hat' = hat
      /\ a' = Operand(Head(todo)) /\ loop' = "forward" /\ len' = Size \div 2 /\ start' = 0
      /\ k' = IF Lowram THEN 1 ELSE 0
  BY DEF ProductsInv, EnterForward
<1>2. PICK name \in Names : name = Head(todo) /\ name[1] # "A"
  <2>1. todo \in Seq(Transformable)
    BY <1>1 DEF TodoRight
  <2>2. Head(todo) \in Transformable
    BY <1>1, <2>1
  <2> QED
    BY <2>2 DEF Transformable
<1>3. PICK m \in Nat \ {0}, g \in Int, h \in Nat \ {0} :
        m = q /\ g = Gen /\ h = Order /\ Ring(m, g, h) /\ Size \in Nat \ {0}
  BY Fields, RingTypes DEF SizeFacts
<1>4. PICK x \in [Coeffs -> Int], p \in [Coeffs -> Int] :
        x = Operand(name) /\ p = Source(name) /\ \A i \in Coeffs : Mod(m, x[i]) = Mod(m, p[i])
  BY <1>1, <1>2, <1>3, OperandRight, SourceType
<1>5. PICK w : w = Size \div 2 /\ 2 * w = Size /\ At(1, w, 0, w, 0)
  BY FirstLayers
<1>6. Folded(m, g, h, 2 * w, p) = p
  BY <1>3, <1>5, FoldedWhole
<1>7. PICK u : u = Folded(m, g, h, w, p)
  OBVIOUS
<1>8. Halfway(m, x, u, p, 0)
  BY <1>4, HalfwayEnds
<1>9. ForwardPlace(1, w, 0, x, w, 0, k', p)
  <2>1. /\ impl = "c-ref" => k' = 1 + 0 - 1
        /\ Lowram => k' = 1 + 0
    <3>1. impl = "c-ref" => ~Lowram
      BY DEF Lowram
    <3> QED
      BY <1>1, <3>1
  <2> QED
    BY <1>3, <1>5, <1>6, <1>7, <1>8, <2>1 DEF ForwardPlace
<1>10. HandRight(todo', a', loop', len', start', k')
  <2>1. ForwardRight(x, w, 0, k', p)
    BY <1>9 DEF ForwardRight
  <2> QED
    BY <1>1, <1>2, <1>4, <1>5, <2>1 DEF HandRight
<1> QED
  BY <1>1, <1>10, InvPrimes

(* One block of any of the forward transforms.                             *)
LEMMA AnyForwardBlock ==
  ASSUME ProductsInv, NEW t, ForwardBlock(t), impl = "c-ref" \/ Lowram => k' = k + 1,
         \A c, w, j, p : ForwardPlace(c, w, j, a, len, start, k, p) => TermOf(t, c + j, a)
  PROVE  ProductsInv'
<1>1. /\ InputRight /\ HatRight(hat) /\ TodoRight(todo, hat) /\ HandRight(todo, a, loop, len, start, k)
      /\ impl' = impl /\ input' = input /\ todo' = todo /\ hat' = hat /\ loop' = loop
      /\ loop = "forward" /\ len >= SmallestLen
  BY DEF ProductsInv, ForwardBlock
<1>2. todo # <<>> /\ a \in [Coeffs -> Int] /\ ForwardRight(a, len, start, k, Source(Head(todo)))
  BY <1>1 DEF HandRight
<1>3. PICK name \in Names : name = Head(todo)
  <2>1. todo \in Seq(Transformable)
    BY <1>1 DEF TodoRight
  <2>2. Head(todo) \in Transformable
    BY <1>2, <2>1
  <2> QED
    BY <2>2 DEF Transformable
<1>4. PICK c, w, j : ForwardPlace(c, w, j, a, len, start, k, Source(name))
  <2>1. ~(len \in Int /\ len < SmallestLen)
    BY <1>1, SmallestLens
  <2> QED
    BY <1>2, <1>3, <2>1 DEF ForwardRight
<1>5. TermOf(t, c + j, a)
  BY <1>4
<1>6. a' = ForwardStep(q, a, t, start, len)
  BY DEF ForwardBlock, ForwardStep
<1>7. Moves(len, start, len', start', len \div 2)
  BY DEF ForwardBlock, Moves
<1>8. /\ ForwardStep(q, a, t, start, len) \in [Coeffs -> Int]
      /\ ForwardRight(ForwardStep(q, a, t, start, len), len', start', k', Source(name))
  <2>1. PICK x, l, s, n, ll, ss, nn :
          /\ x \in [Coeffs -> Int] /\ x = a /\ l = len /\ s = start /\ n = k /\ ll = len' /\ ss = start' /\ nn = k'
    BY <1>2
  <2>0. x \in [Coeffs -> Int]
    BY <2>1
  <2>2. /\ InputRight /\ ForwardPlace(c, w, j, x, l, s, n, Source(name))
        /\ TermOf(t, c + j, x)
        /\ Moves(l, s, ll, ss, l \div 2)
        /\ impl = "c-ref" \/ Lowram => nn = n + 1
    BY <1>1, <1>4, <1>5, <1>7, <2>1
  <2>3. /\ ForwardStep(q, x, t, s, l) \in [Coeffs -> Int]
        /\ ForwardRight(ForwardStep(q, x, t, s, l), ll, ss, nn, Source(name))
    BY ONLY <2>0, <2>2, name \in Names, ForwardMove
  <2> QED
    BY <2>1, <2>3
<1>9. HandRight(todo', a', loop', len', start', k')
  BY <1>1, <1>2, <1>3, <1>6, <1>8 DEF HandRight
<1> QED
  BY <1>1, <1>9, InvPrimes

LEMMA ForwardSteps ==
  ASSUME ProductsInv, ntt \/ nttFw \/ small_ntt
  PROVE  ProductsInv'
<1>1. a \in [Coeffs -> Int]
  BY DEF ProductsInv, HandRight
<1>2. CASE ntt
  <2>1. ~Lowram /\ k' = k + 1 /\ impl = "c-ref"
    BY <1>2 DEF ntt, Lowram
  <2>2. PICK t : t = [i \in Coeffs |-> montgomery_reduce(zetas[k'] * a[i])]
    OBVIOUS
  <2>3. ForwardBlock(t)
    BY <1>2, <2>2 DEF ntt
  <2>4. ASSUME NEW c, NEW w, NEW j, NEW p, ForwardPlace(c, w, j, a, len, start, k, p)
        PROVE  TermOf(t, c + j, a)
    <3>1. At(c, w, j, len, start) /\ k = c + j - 1
      BY <2>1, <2>4 DEF ForwardPlace
    <3>2. PICK node \in 1 .. Order - 1 : node = c + j /\ k' = node
      <4>1. c \in Nat \ {0} /\ j \in 0 .. c - 1 /\ c + j \in 1 .. Order - 1
        BY <3>1, AtLayer
      <4> QED
        BY <2>1, <3>1, <4>1
    <3>3. \A i \in Coeffs : t[i] = montgomery_reduce(zetas[node] * a[i]) /\ a[i] \in Int
      BY <1>1, <2>2, <3>2
    <3> QED
      BY <2>1, <3>2, <3>3, TermsRight DEF TermOf
  <2> QED
    BY <2>1, <2>3, <2>4, AnyForwardBlock
<1>3. CASE nttFw
  <2>1. ~Lowram /\ impl # "c-ref"
    BY <1>3 DEF nttFw, Lowram, Contract
  <2>2. PICK t : t = [i \in Coeffs |-> (psirev[PerLayer + Block] * a[i]) % q]
    OBVIOUS
  <2>3. ForwardBlock(t)
    BY <1>3, <2>2 DEF nttFw
  <2>4. ASSUME NEW c, NEW w, NEW j, NEW p, ForwardPlace(c, w, j, a, len, start, k, p)
        PROVE  TermOf(t, c + j, a)
    <3>1. At(c, w, j, len, start)
      BY <2>4 DEF ForwardPlace
    <3>2. PICK node \in 1 .. Order - 1 : node = c + j /\ PerLayer + Block = node
      <4>1. c + j \in 1 .. Order - 1 /\ Size \div (2 * len) = c /\ start \div (2 * len) = j
        BY <3>1, AtLayer
      <4> QED
        BY <4>1 DEF PerLayer, Block
    <3>3. \A i \in Coeffs : t[i] = (psirev[node] * a[i]) % q /\ a[i] \in Int
      BY <1>1, <2>2, <3>2
    <3> QED
      BY <2>1, <3>2, <3>3, TermsRight DEF TermOf
  <2> QED
    BY <2>1, <2>3, <2>4, AnyForwardBlock
<1>4. CASE small_ntt
  <2>1. Lowram /\ k' = k + 1
    BY <1>4 DEF small_ntt
  <2>2. PICK t : t = [i \in Coeffs |-> fqmul(small_zetas[k], a[i])]
    OBVIOUS
  <2>3. ForwardBlock(t)
    BY <1>4, <2>2 DEF small_ntt
  <2>4. ASSUME NEW c, NEW w, NEW j, NEW p, ForwardPlace(c, w, j, a, len, start, k, p)
        PROVE  TermOf(t, c + j, a)
    <3>1. At(c, w, j, len, start) /\ k = c + j
      BY <2>1, <2>4 DEF ForwardPlace
    <3>2. PICK node \in 1 .. Order - 1 : node = c + j /\ k = node
      BY <3>1, AtLayer
    <3>3. \A i \in Coeffs : t[i] = fqmul(small_zetas[node], a[i]) /\ a[i] \in Int
      BY <1>1, <2>2, <3>2
    <3> QED
      BY <2>1, <3>2, <3>3, TermsRight DEF TermOf
  <2> QED
    BY <2>1, <2>3, <2>4, AnyForwardBlock
<1> QED
  BY <1>2, <1>3, <1>4

LEMMA TransformedStep ==
  ASSUME ProductsInv, Transformed
  PROVE  ProductsInv'
<1>1. /\ InputRight /\ HatRight(hat) /\ TodoRight(todo, hat) /\ HandRight(todo, a, loop, len, start, k)
      /\ impl' = impl /\ input' = input /\ a' = a /\ loop = "forward" /\ len < SmallestLen /\ loop' = "none"
      /\ todo' = Tail(todo)
      /\ hat' = [name \in DOMAIN hat \cup {Head(todo)} |-> IF name = Head(todo) THEN a ELSE hat[name]]
  BY DEF ProductsInv, Transformed
<1>2. todo # <<>> /\ a \in [Coeffs -> Int] /\ ForwardRight(a, len, start, k, Source(Head(todo)))
  BY <1>1 DEF HandRight
<1>3. todo \in Seq(Transformable) /\ Head(todo) \in Transformable /\ Head(todo) = todo[1]
  <2>1. todo \in Seq(Transformable)
    BY <1>1 DEF TodoRight
  <2> QED
    BY <1>2, <2>1
<1>4. PICK one \in Names : one = Head(todo)
  BY <1>3 DEF Transformable
<1>5. \A i \in Coeffs : Mod(q, a[i]) = Mod(q, SmallFold(one)[i])
  <2>1. ~\E c, w, j : ForwardPlace(c, w, j, a, len, start, k, Source(one))
    <3>1. SUFFICES ASSUME NEW c, NEW w, NEW j, ForwardPlace(c, w, j, a, len, start, k, Source(one))
                   PROVE  FALSE
      OBVIOUS
    <3>2. At(c, w, j, len, start)
      BY <3>1 DEF ForwardPlace
    <3>3. len = w /\ w \in Nat \ {0} /\ SmallestLen <= len
      <4>1. len = w
        BY <3>2 DEF At
      <4> QED
        BY <3>2, <4>1, AtLayer
    <3> QED
      BY <1>1, <3>3, SmallestLens
  <2> QED
    BY <1>2, <1>4, <2>1 DEF ForwardRight, SmallFold
<1>6. HatRight(hat')
  <2>1. DOMAIN hat' = DOMAIN hat \cup {one} /\ \A n \in DOMAIN hat' : hat'[n] = IF n = one THEN a ELSE hat[n]
    BY <1>1, <1>4
  <2> QED
    BY <1>1, <1>2, <1>4, <1>5, <2>1 DEF HatRight
<1>7. TodoRight(todo', hat')
  <2>1. todo' \in Seq(Transformable) /\ Len(todo') = Len(todo) - 1 /\ Len(todo) \in Nat
        /\ \A i \in 1 .. Len(todo) - 1 : todo'[i] = todo[i + 1]
    BY <1>1, <1>2, <1>3
  <2>2. ASSUME NEW name \in Names
        PROVE  name \in DOMAIN hat' \/ \E i \in 1 .. Len(todo') : todo'[i] = name
    <3>1. CASE name \in DOMAIN hat
      BY <1>1, <3>1
    <3>2. CASE \E i \in 1 .. Len(todo) : todo[i] = name
      <4>1. PICK i \in 1 .. Len(todo) : todo[i] = name
        BY <3>2
      <4>2. CASE i = 1
        BY <1>1, <1>3, <4>1, <4>2
      <4>3. CASE i # 1
        <5>1. i - 1 \in 1 .. Len(todo) - 1 /\ (i - 1) + 1 = i
          BY <2>1, <4>3
        <5> QED
          BY <2>1, <4>1, <5>1
      <4> QED
        BY <4>2, <4>3
    <3> QED
      BY <1>1, <3>1, <3>2 DEF TodoRight
  <2> QED
    BY <2>1, <2>2 DEF TodoRight
<1>8. HandRight(todo', a', loop', len', start', k')
  BY <1>1, <1>2 DEF HandRight
<1> QED
  BY <1>1, <1>6, <1>7, <1>8, InvPrimes

LEMMA InverseStarts ==
  ASSUME InputRight, NEW x, Started(x), NEW n,
         impl = "c-ref" => n = Size, Lowram => n = Size \div 2 - 1
  PROVE  x \in [Coeffs -> Int] /\ InverseRight(x, SmallestLen, 0, n)
<1>1. PICK c : At(c, SmallestLen, 0, SmallestLen, 0) /\ 2 * c = Order
  BY FirstLayers
<1>2. PICK w : w = SmallestLen
  OBVIOUS
<1>3. c \in Nat \ {0} /\ Layer(Order, c, w) /\ w \in Nat \ {0}
  BY <1>1, <1>2, AtLayer
<1>4. Spread(w) = Unit
  BY <1>2, Spreads
<1>5. PICK v : v = Scaled(2 * Spread(w), Tree(2 * w))
  OBVIOUS
<1>6. \A i \in Coeffs : Mod(q, x[i]) = Mod(q, Scaled(Spread(w), Tree(w))[i])
  BY <1>2, <1>4 DEF Started, Scaled
<1>7. Halfway(q, x, v, Scaled(Spread(w), Tree(w)), 0)
  BY <1>6, HalfwayEnds
<1>8. impl = "c-ref" => n = 2 * c - 0
  <2>1. impl = "c-ref" => ~Lowram
    BY DEF Lowram
  <2> QED
    BY <1>1, <1>3, <2>1, Fields
<1>9. Lowram => n = 2 * c - 1 - 0
  BY <1>1, <1>3 DEF Order
<1>10. InversePlace(c, w, 0, x, w, 0, n)
  BY <1>1, <1>2, <1>5, <1>7, <1>8, <1>9 DEF InversePlace
<1> QED
  BY <1>2, <1>10 DEF InverseRight, Started

LEMMA EntersInverse ==
  ASSUME ProductsInv, PointwiseRow \/ dilithiumCore2 \/ small_basemul
  PROVE  ProductsInv'
<1>1. /\ InputRight /\ HatRight(hat) /\ TodoRight(todo, hat)
      /\ impl' = impl /\ input' = input /\ todo' = todo /\ hat' = hat
      /\ todo = <<>> /\ loop' = "inverse" /\ len' = SmallestLen /\ start' = 0
  BY DEF ProductsInv, EnterInverse, PointwiseRow, dilithiumCore2, small_basemul
<1>2. AllTransformed
  BY <1>1 DEF TodoRight, AllTransformed
<1>3. PICK x, n : x = a' /\ n = k'
  OBVIOUS
<1>4. Started(x) /\ (impl = "c-ref" => n = Size) /\ (Lowram => n = Size \div 2 - 1)
  <2>1. CASE PointwiseRow
    <3>1. impl = "c-ref" /\ ~Lowram /\ x = PointwiseArray /\ n = Size
      BY <1>3, <2>1 DEF PointwiseRow, PointwiseArray, Lowram
    <3> QED
      BY <1>1, <1>2, <3>1, PointwiseStarted
  <2>2. CASE dilithiumCore2
    <3>1. Contract /\ impl # "c-ref" /\ ~Lowram /\ x = CoreArray
      BY <1>3, <2>2 DEF dilithiumCore2, CoreArray, Lowram, Contract
    <3> QED
      BY <1>1, <1>2, <3>1, CoreStarted
  <2>3. CASE small_basemul
    <3>1. Lowram /\ impl # "c-ref" /\ x = BasemulArray /\ n = Size \div 2 - 1
      BY <1>3, <2>3 DEF small_basemul, BasemulArray, BasemulAt, Lowram
    <3> QED
      BY <1>1, <1>2, <3>1, BasemulStarted
  <2> QED
    BY <2>1, <2>2, <2>3
<1>5. x \in [Coeffs -> Int] /\ InverseRight(x, SmallestLen, 0, n)
  BY <1>1, <1>4, InverseStarts
<1>6. HandRight(todo', a', loop', len', start', k')
  BY <1>1, <1>3, <1>5 DEF HandRight
<1> QED
  BY <1>1, <1>6, InvPrimes

(* One block of any of the inverse transforms.                             *)
FactorOf(f, node) == f \in Int /\ UnitPair(q, f, Twiddle(q, Gen, Order, node))

LEMMA AnyInverseBlock ==
  ASSUME ProductsInv, NEW f, InverseBlock(f), impl = "c-ref" \/ Lowram => k' = k - 1,
         \A c, w, j : InversePlace(c, w, j, a, len, start, k) => FactorOf(f, c + j)
  PROVE  ProductsInv'
<1>1. /\ InputRight /\ HatRight(hat) /\ TodoRight(todo, hat) /\ HandRight(todo, a, loop, len, start, k)
      /\ impl' = impl /\ input' = input /\ todo' = todo /\ hat' = hat /\ loop' = loop
      /\ loop = "inverse" /\ len < Size
  BY DEF ProductsInv, InverseBlock
<1>2. a \in [Coeffs -> Int] /\ InverseRight(a, len, start, k)
  BY <1>1 DEF HandRight
<1>3. PICK c, w, j : InversePlace(c, w, j, a, len, start, k)
  <2>1. len # Size
    BY <1>1, Fields DEF SizeFacts
  <2> QED
    BY <1>2, <2>1 DEF InverseRight
<1>4. FactorOf(f, c + j)
  BY <1>3
<1>5. a' = InverseStep(q, a, f, start, len)
  BY DEF InverseBlock, InverseStep
<1>6. Moves(len, start, len', start', 2 * len)
  BY DEF InverseBlock, Moves
<1>7. /\ InverseStep(q, a, f, start, len) \in [Coeffs -> Int]
      /\ InverseRight(InverseStep(q, a, f, start, len), len', start', k')
  <2>1. PICK x, l, s, n, ll, ss, nn :
          /\ x \in [Coeffs -> Int] /\ x = a /\ l = len /\ s = start /\ n = k /\ ll = len' /\ ss = start' /\ nn = k'
    BY <1>2
  <2>0. x \in [Coeffs -> Int]
    BY <2>1
  <2>2. /\ InputRight /\ InversePlace(c, w, j, x, l, s, n)
        /\ f \in Int /\ UnitPair(q, f, Twiddle(q, Gen, Order, c + j))
        /\ Moves(l, s, ll, ss, 2 * l)
        /\ impl = "c-ref" \/ Lowram => nn = n - 1
    BY <1>1, <1>3, <1>4, <1>6, <2>1 DEF FactorOf
  <2>3. /\ InverseStep(q, x, f, s, l) \in [Coeffs -> Int]
        /\ InverseRight(InverseStep(q, x, f, s, l), ll, ss, nn)
    BY ONLY <2>0, <2>2, InverseMove
  <2> QED
    BY <2>1, <2>3
<1>8. HandRight(todo', a', loop', len', start', k')
  BY <1>1, <1>5, <1>7 DEF HandRight
<1> QED
  BY <1>1, <1>8, InvPrimes

LEMMA InverseSteps ==
  ASSUME ProductsInv, invntt_tomont \/ nttInv \/ small_invntt_tomont
  PROVE  ProductsInv'
<1>1. CASE invntt_tomont
  <2>1. ~Lowram /\ k' = k - 1 /\ impl = "c-ref" /\ InverseBlock(InverseZeta)
    BY <1>1 DEF invntt_tomont, Lowram
  <2>2. PICK f : f = InverseZeta
    OBVIOUS
  <2>3. InverseBlock(f)
    BY <2>1, <2>2
  <2>4. ASSUME NEW c, NEW w, NEW j, InversePlace(c, w, j, a, len, start, k)
        PROVE  FactorOf(f, c + j)
    <3>1. At(c, w, j, len, start) /\ k = 2 * c - j
      BY <2>1, <2>4 DEF InversePlace
    <3>2. k - 1 = 2 * c - 1 - j
      <4>1. c \in Nat \ {0} /\ j \in 0 .. c - 1
        BY <3>1, AtLayer
      <4> QED
        BY <3>1, <4>1
    <3>3. f = montgomery_reduce(-zetas[2 * c - 1 - j])
      BY <2>2, <3>2 DEF InverseZeta
    <3> QED
      BY <2>1, <3>1, <3>3, FactorsRight DEF FactorOf
  <2> QED
    BY <2>1, <2>3, <2>4, AnyInverseBlock
<1>2. CASE nttInv
  <2>1. ~Lowram /\ impl # "c-ref" /\ InverseBlock(psirevInverse[PerLayer + Block])
    BY <1>2 DEF nttInv, Lowram, Contract
  <2>2. PICK f : f = psirevInverse[PerLayer + Block]
    OBVIOUS
  <2>3. InverseBlock(f)
    BY <2>1, <2>2
  <2>4. ASSUME NEW c, NEW w, NEW j, InversePlace(c, w, j, a, len, start, k)
        PROVE  FactorOf(f, c + j)
    <3>1. At(c, w, j, len, start)
      BY <2>4 DEF InversePlace
    <3>2. PerLayer + Block = c + j
      <4>1. Size \div (2 * len) = c /\ start \div (2 * len) = j
        BY <3>1, AtLayer
      <4> QED
        BY <4>1 DEF PerLayer, Block
    <3>3. f = psirevInverse[c + j]
      BY <2>2, <3>2
    <3> QED
      BY <2>1, <3>1, <3>3, FactorsRight DEF FactorOf
  <2> QED
    BY <2>1, <2>3, <2>4, AnyInverseBlock
<1>3. CASE small_invntt_tomont
  <2>1. Lowram /\ k' = k - 1 /\ InverseBlock(-fqmul(small_zetas[k], 1))
    BY <1>3 DEF small_invntt_tomont
  <2>2. PICK f : f = -fqmul(small_zetas[k], 1)
    OBVIOUS
  <2>3. InverseBlock(f)
    BY <2>1, <2>2
  <2>4. ASSUME NEW c, NEW w, NEW j, InversePlace(c, w, j, a, len, start, k)
        PROVE  FactorOf(f, c + j)
    <3>1. At(c, w, j, len, start) /\ k = 2 * c - 1 - j
      BY <2>1, <2>4 DEF InversePlace
    <3>2. f = -fqmul(small_zetas[2 * c - 1 - j], 1)
      BY <2>2, <3>1
    <3> QED
      BY <2>1, <3>1, <3>2, FactorsRight DEF FactorOf
  <2> QED
    BY <2>1, <2>3, <2>4, AnyInverseBlock
<1> QED
  BY <1>1, <1>2, <1>3

LEMMA ScaleStep ==
  ASSUME ProductsInv, ScaleAll
  PROVE  ProductsInv'
<1>1. /\ InputRight /\ HatRight(hat) /\ TodoRight(todo, hat) /\ HandRight(todo, a, loop, len, start, k)
      /\ impl' = impl /\ input' = input /\ todo' = todo /\ hat' = hat
      /\ loop = "inverse" /\ len = Size /\ loop' = "done"
      /\ a' = [i \in Coeffs |-> (a[i] * ScaleFactor) % q]
  BY DEF ProductsInv, ScaleAll
<1>2. a \in [Coeffs -> Int] /\ InverseRight(a, len, start, k)
  BY <1>1 DEF HandRight
<1>3. PICK m \in Nat \ {0}, sf \in Int, sp \in Int :
        m = q /\ sf = ScaleFactor /\ sp = Spread(Size) /\ UnitPair(m, sf, sp)
  BY <1>1, Fields, ScaleRight
<1>4. \A i \in Coeffs : Mod(m, a[i]) = Mod(m, sp * Tree(Size)[i])
  <2>1. ~\E c, w, j : InversePlace(c, w, j, a, len, start, k)
    <3>1. SUFFICES ASSUME NEW c, NEW w, NEW j, InversePlace(c, w, j, a, len, start, k)
                   PROVE  FALSE
      OBVIOUS
    <3>2. At(c, w, j, len, start)
      BY <3>1 DEF InversePlace
    <3>3. len < Size
      BY <3>2, AtLayer
    <3> QED
      BY <1>1, <3>3, Fields DEF SizeFacts
  <2> QED
    BY <1>2, <1>3, <2>1 DEF InverseRight
<1>5. ASSUME NEW i \in Coeffs
      PROVE  a'[i] \in 0 .. m - 1 /\ Mod(m, a'[i]) = Mod(m, Tree(Size)[i])
  <2>1. PICK x \in Int, t \in Int, st \in Int : x = a[i] /\ t = Tree(Size)[i] /\ st = sp * t
    BY <1>1, <1>2, TreeWhole
  <2>2. PICK s \in Int, y \in Int : s = sf /\ y = x * sf
    OBVIOUS
  <2>3. Mod(m, x) = Mod(m, st) /\ Mod(m, sf) = Mod(m, s)
    BY <1>4, <2>1, <2>2
  <2>4. Mod(m, x * sf) = Mod(m, st * s)
    BY ONLY <2>3, m \in Nat \ {0}, x \in Int, sf \in Int, st \in Int, s \in Int, ModMul
  <2>5. PICK p \in Int, o \in Int, r \in Int : p = sf * sp /\ o = 1 /\ r = t
    OBVIOUS
  <2>6. Mod(m, p) = Mod(m, o) /\ Mod(m, t) = Mod(m, r)
    BY <1>3, <2>5 DEF UnitPair
  <2>7. Mod(m, p * t) = Mod(m, o * r)
    BY ONLY <2>6, m \in Nat \ {0}, p \in Int, t \in Int, o \in Int, r \in Int, ModMul
  <2>8. st * s = p * t
    <3>1. (sp * t) * sf = (sf * sp) * t
      BY ONLY sp \in Int, t \in Int, sf \in Int
    <3> QED
      BY <2>1, <2>2, <2>5, <3>1
  <2>9. o * r = t
    BY <2>5
  <2>10. Mod(m, y % m) = Mod(m, y) /\ y % m \in 0 .. m - 1
    BY ModOfRemainder, ModType DEF Mod
  <2>11. a'[i] = y % m
    BY <1>1, <1>3, <2>1, <2>2
  <2> QED
    BY <2>1, <2>2, <2>4, <2>7, <2>8, <2>9, <2>10, <2>11
<1>6. a' \in [Coeffs -> Int]
  <2>1. a' = [i \in Coeffs |-> a'[i]]
    BY <1>1
  <2>2. \A i \in Coeffs : a'[i] \in Int
    BY <1>5
  <2> QED
    BY <2>1, <2>2
<1>7. HandRight(todo', a', loop', len', start', k')
  BY <1>1, <1>3, <1>5, <1>6 DEF HandRight, DoneRight
<1> QED
  BY <1>1, <1>7, InvPrimes

LEMMA ProductsSteps ==
  ASSUME ProductsInv, [ProductNext]_productVars
  PROVE  ProductsInv'
<1>1. CASE EnterForward
  BY <1>1, EntersForward
<1>2. CASE ntt \/ nttFw \/ small_ntt
  BY <1>2, ForwardSteps
<1>3. CASE Transformed
  BY <1>3, TransformedStep
<1>4. CASE PointwiseRow \/ dilithiumCore2 \/ small_basemul
  BY <1>4, EntersInverse
<1>5. CASE invntt_tomont \/ nttInv \/ small_invntt_tomont
  BY <1>5, InverseSteps
<1>6. CASE ScaleAll
  BY <1>6, ScaleStep
<1>7. CASE UNCHANGED productVars
  <2>1. /\ InputRight /\ HatRight(hat) /\ TodoRight(todo, hat) /\ HandRight(todo, a, loop, len, start, k)
        /\ impl' = impl /\ input' = input /\ todo' = todo /\ hat' = hat /\ a' = a
        /\ loop' = loop /\ len' = len /\ start' = start /\ k' = k
    BY <1>7 DEF ProductsInv, productVars
  <2>2. /\ HatRight(hat') /\ TodoRight(todo', hat')
        /\ HandRight(todo', a', loop', len', start', k')
    BY <2>1
  <2> QED
    BY <2>1, <2>2, InvPrimes
<1> QED
  BY <1>1, <1>2, <1>3, <1>4, <1>5, <1>6, <1>7 DEF ProductNext

LEMMA RowAtTheEnd ==
  ASSUME ProductsInv
  PROVE  RowRight
<1>1. SUFFICES ASSUME loop = "done", ~Lowram
               PROVE  a = RowByDefinition
  BY DEF RowRight
<1>2. InputRight /\ a \in [Coeffs -> Int] /\ DoneRight(a)
  BY <1>1 DEF ProductsInv, HandRight
<1>3. PICK m \in Nat \ {0} : m = q
  BY Fields
<1>4. ASSUME NEW i \in Coeffs
      PROVE  a[i] = RowByDefinition[i]
  <2>1. PICK x \in 0 .. m - 1 : x = a[i] /\ Mod(m, x) = Mod(m, Tree(Size)[i])
    BY <1>2, <1>3 DEF DoneRight
  <2>2. Mod(m, x) = x
    BY <2>1, ModOfSmall
  <2>3. RowByDefinition[i] = RowAt(i) % m
    BY <1>3 DEF RowByDefinition, RowAt
  <2>4. Mod(m, Tree(Size)[i]) = Mod(m, RowAt(i))
    BY <1>1, <1>2, <1>3, TreeWhole
  <2> QED
    BY <2>1, <2>2, <2>3, <2>4 DEF Mod
<1>5. RowByDefinition = [i \in Coeffs |-> RowByDefinition[i]] /\ a = [i \in Coeffs |-> a[i]]
  BY <1>2 DEF RowByDefinition
<1> QED
  BY <1>4, <1>5

(* The only number with a residue on either side of zero.                  *)
LEMMA CentredUnique ==
  ASSUME NEW m \in Nat \ {0}, NEW x \in 0 .. m - 1, NEW p \in Int, Mod(m, x) = Mod(m, p),
         -m < 2 * p, 2 * p < m
  PROVE  (IF 2 * x > m THEN x - m ELSE x) = p
<1>1. PICK d \in Int : x = p + m * d
  <2>1. x \in Int
    OBVIOUS
  <2> QED
    BY ONLY <2>1, m \in Nat \ {0}, p \in Int, Mod(m, x) = Mod(m, p), ModDifference
<1>2. CASE 2 * x > m
  <2>1. PICK e \in Int : e = d - 1
    OBVIOUS
  <2>2. m * e = x - m - p
    <3>1. m * (d - 1) = m * d - m
      BY ONLY m \in Nat \ {0}, d \in Int
    <3> QED
      BY <1>1, <2>1, <3>1
  <2>3. -m < m * e /\ m * e < m
    BY <1>2, <2>2
  <2>4. e = 0
    BY <2>3, MultipleBelow
  <2> QED
    BY <1>2, <2>2, <2>4
<1>3. CASE ~(2 * x > m)
  <2>1. m * d = x - p
    BY <1>1
  <2>2. -m < m * d /\ m * d < m
    BY <1>3, <2>1
  <2>3. d = 0
    BY <2>2, MultipleBelow
  <2> QED
    BY <1>3, <2>1, <2>3
<1> QED
  BY <1>2, <1>3

LEMMA SecretProductAtTheEnd ==
  ASSUME ProductsInv
  PROVE  SecretProductRight
<1>1. SUFFICES ASSUME loop = "done", Lowram
               PROVE  [i \in Coeffs |-> Centred(a[i])] = Product(input.c, input.s)
  BY DEF SecretProductRight
<1>2. InputRight /\ a \in [Coeffs -> Int] /\ DoneRight(a)
  BY <1>1 DEF ProductsInv, HandRight
<1>3. PICK m \in Nat \ {0} : m = q /\ m = SmallModulus
  BY <1>1, Fields DEF q
<1>4. ASSUME NEW i \in Coeffs
      PROVE  Centred(a[i]) = Product(input.c, input.s)[i]
  <2>1. PICK x \in 0 .. m - 1 : x = a[i] /\ Mod(m, x) = Mod(m, Tree(Size)[i])
    BY <1>2, <1>3 DEF DoneRight
  <2>2. PICK p \in Int : p = Product(input.c, input.s)[i] /\ Mod(m, x) = Mod(m, p)
    BY <1>1, <1>2, <1>3, <2>1, TreeWhole
  <2>3. -m < 2 * p /\ 2 * p < m
    BY <1>1, <1>2, <1>3, <2>2, Inputs, RowProductAssumption DEF RowProductAssumption
  <2>4. (IF 2 * x > m THEN x - m ELSE x) = p
    BY <2>2, <2>3, CentredUnique
  <2> QED
    BY <1>3, <2>1, <2>2, <2>4 DEF Centred
<1>5. Product(input.c, input.s) = [i \in Coeffs |-> Product(input.c, input.s)[i]]
  BY DEF Product
<1> HIDE DEF Centred
<1> QED
  BY <1>4, <1>5

(* For every degree from 4 to 256, all fields and tables with the roots    *)
(* the transforms take, and all operands: ntt and invntt_tomont of c-ref   *)
(* and nttFw and nttInv of the contracts, from either form of the key,     *)
(* leave A*z - c*t1*2^d reduced, and small_ntt, small_basemul and          *)
(* small_invntt_tomont of c-lowram the product of challenge and secret,    *)
(* over the integers.                                                      *)
THEOREM ProductsCorrect == ProductSpec => []ProductsRight
<1>1. ProductInit => ProductsInv
  BY ProductsInit
<1>2. ProductsInv /\ [ProductNext]_productVars => ProductsInv'
  BY ProductsSteps
<1>3. ProductsInv => ProductsRight
  BY RowAtTheEnd, SecretProductAtTheEnd DEF ProductsRight
<1> QED
  BY <1>1, <1>2, <1>3, PTL DEF ProductSpec
=============================================================================
