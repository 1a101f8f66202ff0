------------------------------ MODULE Verifiers ------------------------------
(***************************************************************************)
(* The four verifiers of one signature scheme: crypto_sign_verify of c-ref *)
(* and of c-lowram, verifyInternal of the contracts and _verify_internal   *)
(* of the Python package.  The low-RAM one works row by row in reused      *)
(* buffers and is modelled step by step; the others decode everything,     *)
(* check it and compare one hash, and are given as operators.              *)
(***************************************************************************)
EXTENDS Integers, Sequences

CONSTANTS
  L, K,        \* rows of z, rows of the hint
  N,           \* coefficients of a row
  OMEGA,       \* position bytes of the hint section
  CountByte,   \* the values tried for the K bytes that end the rows
  Norm,        \* the norms tried for a row of z
  Bound,       \* GAMMA1 - BETA
  Hint         \* the hints tried for the one that gives the hash in sig

LRow == 0 .. L - 1
KRow == 0 .. K - 1
Slot == 0 .. OMEGA - 1
Position == 0 .. N - 1

ASSUME VerifiersAssumption ==
  /\ L \in Nat \ {0}
  /\ K \in Nat \ {0}
  /\ N \in Nat \ {0}
  /\ OMEGA \in Nat
  /\ CountByte \subseteq Nat
  /\ Norm \subseteq Nat
  /\ Bound \in Nat
  /\ Hint \subseteq [KRow -> SUBSET Position]

(***************************************************************************)
(* A signature, as far as the verifiers tell them apart: its length, the   *)
(* norms of the rows of z, the hint section, and the hint with which the   *)
(* recomputed w1 hashes to the challenge in it.  A hint bit that differs   *)
(* changes w1, and so does a row of z that is left out.                    *)
(***************************************************************************)
Sig ==
  [length : {"short", "exact", "long"},
   ctx    : {"fits", "long"},
   z      : [LRow -> Norm],
   pos    : [Slot -> Position],
   cnt    : [KRow -> CountByte],
   right  : Hint]

RowStart(cnt, k) == IF k = 0 THEN 0 ELSE cnt[k - 1]

(* The positions of row k are the bytes from its start to its end. *)
DecodedRow(s, k) == {s.pos[j] : j \in RowStart(s.cnt, k) .. s.cnt[k] - 1}

Decoded(s) == [k \in KRow |-> DecodedRow(s, k)]

RowEndsInOrder(s, k) == RowStart(s.cnt, k) <= s.cnt[k] /\ s.cnt[k] <= OMEGA

(* A slip: equal neighbours are let through. *)
Ascending(s, k) ==
  \A j \in RowStart(s.cnt, k) + 1 .. s.cnt[k] - 1 : s.pos[j - 1] <= s.pos[j]

StrictlyAscending(s, k) ==
  \A j \in RowStart(s.cnt, k) + 1 .. s.cnt[k] - 1 : s.pos[j - 1] < s.pos[j]

TailZero(s) == \A j \in Slot : s.cnt[K - 1] <= j => s.pos[j] = 0

-----------------------------------------------------------------------------
(* c-ref: unpack_sig, polyvecl_chknorm, and the comparison of the hashes. *)

WrongLength(s) == s.ctx = "long" \/ s.length # "exact"

(* A slip: a row must end after the one before it. *)
GoodRowNonEmpty(s, k) ==
  /\ RowEndsInOrder(s, k)
  /\ RowStart(s.cnt, k) # s.cnt[k]
  /\ StrictlyAscending(s, k)

GoodRow(s, k) == RowEndsInOrder(s, k) /\ StrictlyAscending(s, k)

Unpacks(s) == (\A k \in KRow : GoodRow(s, k)) /\ TailZero(s)

NormsBelow(s) == \A l \in LRow : s.z[l] < Bound

RefAccepts(s) ==
  /\ ~WrongLength(s)
  /\ Unpacks(s)
  /\ NormsBelow(s)
  /\ Decoded(s) = s.right

-----------------------------------------------------------------------------
(***************************************************************************)
(* The contracts.  unpackH gives up at the first row that is wrong, with   *)
(* the rows after it not allocated, and dilithiumCore1 then counts the     *)
(* hints of all rows: it panics unless the bad row was the last one.  A    *)
(* signature that is too long loses its tail to slice.                     *)
(***************************************************************************)
SliceFails(s) == s.ctx = "long" \/ s.length = "short"

PanicsInCore1(s) == \E k \in 0 .. K - 2 : ~GoodRow(s, k)

(* A slip: the loop over the rows starts at row 1. *)
SolNormsBelowFromOne(s) == \A l \in LRow \ {0} : s.z[l] <= Bound

SolNormsBelow(s) == \A l \in LRow : s.z[l] <= Bound

SolVerdict(s) ==
  IF SliceFails(s) \/ PanicsInCore1(s) THEN "revert"
  ELSE IF Unpacks(s) /\ SolNormsBelow(s) /\ Decoded(s) = s.right THEN "accept"
  ELSE "reject"

-----------------------------------------------------------------------------
(***************************************************************************)
(* Python, for a signature of the right length: _unpack_h compares the     *)
(* positions of a row with `<` alone.                                      *)
(***************************************************************************)
PyUnpacks(s) ==
  /\ \A k \in KRow : RowStart(s.cnt, k) <= s.cnt[k]
  /\ s.cnt[K - 1] <= OMEGA
  /\ TailZero(s)
  /\ \A k \in KRow :
       \A j \in RowStart(s.cnt, k) + 1 .. s.cnt[k] - 1 : s.pos[j - 1] <= s.pos[j]

PyAccepts(s) ==
  /\ s.ctx = "fits"
  /\ PyUnpacks(s)
  /\ NormsBelow(s)
  /\ Decoded(s) = s.right

-----------------------------------------------------------------------------
VARIABLES
  sig,          \* the input
  pc,
  k_idx, l_idx,
  wcomp,        \* what is added up in the accumulator: rows of z, or W1
  hint_ones,    \* the positions of the current row, over older ones
  fed,          \* the rows of w1 injected into the generator
  verdict

vars == <<sig, pc, k_idx, l_idx, wcomp, hint_ones, fed, verdict>>

(* w1_packed lies in a union with wcomp: its bytes, taken for a sum. *)
W1 == L

Init ==
  /\ sig \in Sig
  /\ pc = "begin"
  /\ k_idx = 0
  /\ l_idx = 0
  /\ wcomp = {}
  /\ hint_ones = << >>
  /\ fed = << >>
  /\ verdict = "none"

Return(v) ==
  /\ pc' = "done"
  /\ verdict' = v

RefuseLength ==
  /\ pc = "begin"
  /\ WrongLength(sig)
  /\ Return("reject")
  /\ UNCHANGED <<sig, k_idx, l_idx, wcomp, hint_ones, fed>>

(* mu is hashed and fed, the challenge is sampled and packed into ccomp. *)
Begin ==
  /\ pc = "begin"
  /\ ~WrongLength(sig)
  /\ pc' = "row"
  /\ UNCHANGED <<sig, k_idx, l_idx, wcomp, hint_ones, fed, verdict>>

(* A slip: the accumulator is cleared before the first row only. *)
BeginRowDirty ==
  /\ pc = "row"
  /\ k_idx < K
  /\ pc' = "z"
  /\ l_idx' = 0
  /\ wcomp' = IF k_idx = 0 THEN {} ELSE wcomp
  /\ UNCHANGED <<sig, k_idx, hint_ones, fed, verdict>>

BeginRow ==
  /\ pc = "row"
  /\ k_idx < K
  /\ pc' = "z"
  /\ l_idx' = 0
  /\ wcomp' = {}
  /\ UNCHANGED <<sig, k_idx, hint_ones, fed, verdict>>

RejectZ ==
  /\ pc = "z"
  /\ l_idx < L
  /\ sig.z[l_idx] >= Bound
  /\ Return("reject")
  /\ UNCHANGED <<sig, k_idx, l_idx, wcomp, hint_ones, fed>>

AddZ ==
  /\ pc = "z"
  /\ l_idx < L
  /\ sig.z[l_idx] < Bound
  /\ wcomp' = wcomp \cup {l_idx}
  /\ l_idx' = l_idx + 1
  /\ UNCHANGED <<sig, pc, k_idx, hint_ones, fed, verdict>>

(* unpack_sig_h_indices for row k_idx; it checks the tail every time. *)
RowIndicesGood == GoodRow(sig, k_idx) /\ TailZero(sig)

RejectHint ==
  /\ pc = "z"
  /\ l_idx = L
  /\ ~RowIndicesGood
  /\ Return("reject")
  /\ UNCHANGED <<sig, k_idx, l_idx, wcomp, hint_ones, fed>>

(* The number of hints of the row, and hint_ones after they are written. *)
RowHints == sig.cnt[k_idx] - RowStart(sig.cnt, k_idx)

Larger(a, b) == IF a < b THEN b ELSE a

Overwritten ==
  [i \in 1 .. Larger(Len(hint_ones), RowHints) |->
     IF i <= RowHints THEN sig.pos[RowStart(sig.cnt, k_idx) + i - 1] ELSE hint_ones[i]]

(* poly_use_hint_lowram searches the first RowHints positions. *)
UsedHints == {hint_ones'[i] : i \in 1 .. RowHints}

FeedRow ==
  /\ pc = "z"
  /\ l_idx = L
  /\ RowIndicesGood
  /\ hint_ones' = Overwritten
  /\ fed' = Append(fed, [z |-> wcomp, h |-> UsedHints])
  /\ wcomp' = {W1}
  /\ k_idx' = k_idx + 1
  /\ pc' = "row"
  /\ UNCHANGED <<sig, l_idx, verdict>>

Compare ==
  /\ pc = "row"
  /\ k_idx = K
  /\ Return(IF fed = [k \in 1 .. K |-> [z |-> LRow, h |-> sig.right[k - 1]]]
            THEN "accept" ELSE "reject")
  /\ UNCHANGED <<sig, k_idx, l_idx, wcomp, hint_ones, fed>>

Next ==
  \/ RefuseLength
  \/ Begin
  \/ BeginRow
  \/ RejectZ
  \/ AddZ
  \/ RejectHint
  \/ FeedRow
  \/ Compare

Spec == Init /\ [][Next]_vars

-----------------------------------------------------------------------------
(***************************************************************************)
(* Row by row in reused buffers, the low-RAM verifier reaches the verdict  *)
(* of the reference on every signature.                                    *)
(***************************************************************************)
LowramAgrees == pc = "done" => (verdict = "accept" <=> RefAccepts(sig))

(***************************************************************************)
(* On a signature of the right length, with no row of z exactly at the     *)
(* bound, the contracts accept what the reference accepts; and, wherever   *)
(* z lies, they answer a call whose context fits unless the reference      *)
(* refuses the hint section: nothing else makes dilithiumCore1 panic.      *)
(***************************************************************************)
SolidityAgrees ==
  sig.length = "exact" =>
    /\ (\A l \in LRow : sig.z[l] # Bound) => (SolVerdict(sig) = "accept" <=> RefAccepts(sig))
    /\ (sig.ctx = "fits" /\ Unpacks(sig)) => SolVerdict(sig) # "revert"

(***************************************************************************)
(* "Coefficients are ordered for strong unforgeability", "Extra indices    *)
(* are zero for strong unforgeability" (c-ref/packing.c 223 and 231):      *)
(* no other hint section decodes to the hint of an accepted signature.     *)
(***************************************************************************)
Canonical ==
  verdict = "accept" =>
    \A pos \in [Slot -> Position], cnt \in [KRow -> CountByte] :
      LET other == [sig EXCEPT !.pos = pos, !.cnt = cnt]
      IN  RefAccepts(other) => other = sig

(***************************************************************************)
(* What pack_sig and pack_sig_h write for the right hint is accepted by    *)
(* every verifier.                                                         *)
(***************************************************************************)
Packed(s) ==
  /\ \A k \in KRow :
       /\ RowEndsInOrder(s, k)
       /\ StrictlyAscending(s, k)
       /\ DecodedRow(s, k) = s.right[k]
  /\ TailZero(s)

HonestAccepted ==
  (sig.length = "exact" /\ sig.ctx = "fits" /\ NormsBelow(sig) /\ Packed(sig)) =>
    /\ RefAccepts(sig)
    /\ SolVerdict(sig) = "accept"
    /\ PyAccepts(sig)
    /\ verdict # "reject"

(***************************************************************************)
(* "Dilithium is an implementation of the NIST standardized signature      *)
(* scheme" (README.md 38): the contract accepts, of the signatures of the  *)
(* right length, those the reference implementation accepts.               *)
(***************************************************************************)
SolidityFollowsReference ==
  (sig.length = "exact" /\ SolVerdict(sig) = "accept") => RefAccepts(sig)

(***************************************************************************)
(* _verify_internal verifies "following Algorithm 8 (FIPS 204)"            *)
(* (dilithium.py 360), as the reference does: it accepts what the          *)
(* reference accepts.                                                      *)
(***************************************************************************)
PythonFollowsReference ==
  (sig.length = "exact" /\ PyAccepts(sig)) => RefAccepts(sig)
=============================================================================
