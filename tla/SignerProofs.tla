----------------------------- MODULE SignerProofs -----------------------------
(***************************************************************************)
(* Both signers implement the abstract rejection loop, for every number of *)
(* rows, coefficients and hints, every size of the nonce and every outcome *)
(* of the checks; the row-by-row one never writes past the hint section    *)
(* and repeats no mask of a rejected attempt before the nonce wraps; and   *)
(* next to each other they return the same signature.                      *)
(***************************************************************************)
EXTENDS SignerPair, IntegerLemmas

-----------------------------------------------------------------------------
(* The nonces of the mask rows.                                            *)

LEMMA Rows ==
  /\ L \in Nat \ {0} /\ K \in Nat \ {0} /\ N \in Nat \ {0} /\ OMEGA \in Nat
  /\ NonceSpace \in Nat \ {0}
  /\ Outcome \subseteq EveryOutcome
BY SigningAttemptAssumption

LEMMA KappaInMask ==
  ASSUME NEW a \in Int, NEW l \in Int
  PROVE  Kappa(a, l) \in Mask
<1>1. L * a + l \in Int
  BY Rows
<1> QED
  BY <1>1, Rows, Division DEF Kappa, Mask

LEMMA KappaOfSum ==
  ASSUME NEW a \in Int, NEW l \in Int, NEW k \in Int
  PROVE  Kappa(a + NonceSpace * k, l) = Kappa(a, l)
<1>1. L * (a + NonceSpace * k) + l = (L * a + l) + NonceSpace * (L * k)
  BY Rows
<1>2. L * a + l \in Int /\ L * k \in Int
  BY Rows
<1> QED
  BY <1>1, <1>2, Rows, RemainderOfSum DEF Kappa

(* A wrapped nonce samples what the number of the attempt would.           *)
LEMMA KappaOfRemainder ==
  ASSUME NEW a \in Int, NEW l \in Int
  PROVE  Kappa(a % NonceSpace, l) = Kappa(a, l)
<1>1. a \div NonceSpace \in Int /\ a % NonceSpace \in Int
      /\ a = NonceSpace * (a \div NonceSpace) + (a % NonceSpace)
  BY Rows, Division
<1>2. a = (a % NonceSpace) + NonceSpace * (a \div NonceSpace)
  BY <1>1, Rows
<1> QED
  BY <1>1, <1>2, KappaOfSum

(* The second sampling of a mask uses the nonce after it was advanced.     *)
LEMMA KappaOfNext ==
  ASSUME NEW a \in Int, NEW l \in Int
  PROVE  Kappa(((a + 1) % NonceSpace) - 1, l) = Kappa(a, l)
<1> DEFINE q == (a + 1) \div NonceSpace  r == (a + 1) % NonceSpace
<1>1. q \in Int /\ r \in Int /\ a + 1 = NonceSpace * q + r
  BY Rows, Division
<1> HIDE DEF q, r
<1>2. a = (r - 1) + NonceSpace * q /\ r - 1 \in Int
  BY <1>1, Rows
<1>3. Kappa(a, l) = Kappa(r - 1, l)
  BY <1>1, <1>2, KappaOfSum
<1> QED
  BY <1>3 DEF r

LEMMA NextRemainder ==
  ASSUME NEW a \in Int
  PROVE  ((a % NonceSpace) + 1) % NonceSpace = (a + 1) % NonceSpace
<1> DEFINE q == a \div NonceSpace  r == a % NonceSpace
<1>1. q \in Int /\ r \in Int /\ a = NonceSpace * q + r
  BY Rows, Division
<1> HIDE DEF q, r
<1>2. a + 1 = (r + 1) + NonceSpace * q /\ r + 1 \in Int
  BY <1>1, Rows
<1>3. ((r + 1) + NonceSpace * q) % NonceSpace = (r + 1) % NonceSpace
  BY <1>1, <1>2, Rows, RemainderOfSum
<1>4. (a + 1) % NonceSpace = (r + 1) % NonceSpace
  BY <1>2, <1>3, Zenon
<1> QED
  BY <1>4 DEF r

(* Before the nonce wraps, different attempts sample different masks.      *)
LEMMA KappaDistinct ==
  ASSUME NEW a \in Nat, NEW b \in Nat, NEW l \in LRow, NEW m \in LRow,
         a < b, L * (b + 1) <= NonceSpace
  PROVE  Kappa(a, l) # Kappa(b, m)
<1>1. l \in 0 .. L - 1 /\ m \in 0 .. L - 1
  BY DEF LRow
<1>2. L * a <= L * b
  BY Rows
<1>3. L * a + l \in 0 .. NonceSpace - 1 /\ L * b + m \in 0 .. NonceSpace - 1
  <2>1. L * (b + 1) = L * b + L /\ L * a \in Nat /\ L * b \in Nat
    BY Rows
  <2> QED
    BY <1>1, <1>2, <2>1, Rows
<1>4. Kappa(a, l) = L * a + l /\ Kappa(b, m) = L * b + m
  BY <1>3, Rows, RemainderOfSmall DEF Kappa
<1>5. L * a + l # L * b + m
  BY <1>1, Rows, DivisionUnique
<1> QED
  BY <1>4, <1>5

-----------------------------------------------------------------------------
(* The values of an attempt.                                               *)

LEMMA MasksTyped ==
  ASSUME NEW a \in Int
  PROVE  MasksOf(a) \subseteq Mask
BY KappaInMask DEF MasksOf, LRow

(* A row of z in attempt number a.                                         *)
ZRow(a, l) == [c |-> WOf(a), s |-> l, y |-> Kappa(a, l)]

LEMMA WOfTyped ==
  ASSUME NEW a \in Int
  PROVE  WOf(a) \in WVec
<1>1. MasksOf(a) \subseteq Mask
  BY MasksTyped
<1> QED
  BY <1>1 DEF WOf, WVec, WRow

(* The number of an attempt in 16 bits, before and after it is advanced,   *)
(* gives the masks of the attempt.                                         *)
LEMMA MasksOfNext ==
  ASSUME NEW a \in Int
  PROVE  MasksOf(((a + 1) % NonceSpace) - 1) = MasksOf(a)
<1>1. \A l \in LRow : Kappa(((a + 1) % NonceSpace) - 1, l) = Kappa(a, l)
  BY KappaOfNext DEF LRow
<1> QED
  BY <1>1 DEF MasksOf

LEMMA OutcomeFacts ==
  ASSUME NEW o \in Outcome, NEW k \in KRow
  PROVE  /\ Len(o.h[k]) \in Nat
         /\ \A i \in 1 .. Len(o.h[k]) : o.h[k][i] \in Position
         /\ o.upto[k] \in Nat
         /\ RowStart(o.upto, k) \in Nat
         /\ o.upto[k] = RowStart(o.upto, k) + Len(o.h[k])
         /\ \A m \in KRow : k <= m => o.upto[k] <= o.upto[m]
<1>1. o \in EveryOutcome
  BY Rows
<1>2. o.h[k] \in HintRow /\ o.upto \in [KRow -> 0 .. K * N]
  BY <1>1 DEF EveryOutcome
<1>3. PICK n \in 0 .. N : o.h[k] \in [1 .. n -> 0 .. N - 1]
  BY <1>2 DEF HintRow
<1>4. Len(o.h[k]) = n
  BY <1>3, Rows
<1>5. o.upto[k] \in Nat
  BY <1>2, Rows
<1>6. RowStart(o.upto, k) \in Nat
  <2>1. k = 0 \/ k - 1 \in KRow
    BY Rows DEF KRow
  <2> QED
    BY <1>2, <2>1, Rows DEF RowStart
<1>7. o.upto[k] = RowStart(o.upto, k) + Len(o.h[k])
  BY <1>1 DEF EveryOutcome, RowStart
<1>8. \A m \in KRow : k <= m => o.upto[k] <= o.upto[m]
  BY <1>1 DEF EveryOutcome
<1> QED
  BY <1>3, <1>4, <1>5, <1>6, <1>7, <1>8, Rows DEF Position

LEMMA AnswersTyped ==
  ASSUME NEW a, NEW o \in Answers(a)
  PROVE  o \in Outcome
BY DEF Answers

(* The signature of attempt number a, if its outcome is o.                 *)
Signed(s, a, o) ==
  /\ s \in [c : {WOf(a)}, z : {[l \in LRow |-> ZRow(a, l)]},
            pos : [Slot -> Position], cnt : [KRow -> Count]]
  /\ Encodes(s.pos, s.cnt, o.h)

(* The counts of an encoding are those of the hint: none of the rows can   *)
(* be the first whose count differs.                                       *)
LEMMA CountsUnique ==
  ASSUME NEW p, NEW q, NEW c \in [KRow -> Count], NEW d \in [KRow -> Count], NEW h,
         Encodes(p, c, h), Encodes(q, d, h)
  PROVE  c = d
<1> DEFINE Differ == {k \in KRow : c[k] # d[k]}
<1> SUFFICES ASSUME Differ # {}
             PROVE  FALSE
  OBVIOUS
<1>1. Differ \in SUBSET Nat
  BY Rows DEF KRow
<1>2. PICK k \in Differ : \A m \in Differ : k <= m
  BY <1>1, LeastNatural
<1>3. k \in KRow /\ c[k] # d[k] /\ k \in Nat
  BY <1>1
<1>4. RowStart(c, k) = RowStart(d, k)
  <2>1. CASE k # 0
    <3>1. k - 1 \in KRow /\ ~(k <= k - 1)
      BY <1>3, <2>1, Rows DEF KRow
    <3>2. c[k - 1] = d[k - 1]
      BY <1>2, <3>1
    <3> QED
      BY <3>2 DEF RowStart
  <2> QED
    BY <2>1 DEF RowStart
<1> QED
  BY <1>3, <1>4 DEF Encodes, RowEncoded

(* A position byte below the last count belongs to a row.                  *)
LEMMA SlotInRow ==
  ASSUME NEW c \in [KRow -> Count], NEW i \in Slot, i < c[K - 1]
  PROVE  \E k \in KRow : RowStart(c, k) <= i /\ i < c[k]
<1> DEFINE Above == {k \in KRow : i < c[k]}
<1>1. Above \in SUBSET Nat /\ K - 1 \in Above /\ i \in Nat
  BY Rows DEF KRow, Slot
<1>2. PICK k \in Above : \A m \in Above : k <= m
  BY <1>1, LeastNatural
<1>3. k \in KRow /\ k \in Nat /\ i < c[k]
  BY <1>1
<1>4. RowStart(c, k) <= i
  <2>1. CASE k # 0
    <3>1. k - 1 \in KRow /\ ~(k <= k - 1)
      BY <1>3, <2>1, Rows DEF KRow
    <3>2. ~(i < c[k - 1]) /\ c[k - 1] \in Count
      BY <1>2, <3>1
    <3> QED
      BY <1>1, <2>1, <3>2, Rows DEF RowStart, Count
  <2> QED
    BY <1>1, <2>1 DEF RowStart
<1> QED
  BY <1>3, <1>4

(* An attempt has one signature: the encoding of a hint is canonical.      *)
LEMMA SignedUnique ==
  ASSUME NEW a \in Int, NEW o \in Outcome, NEW s, NEW t, Signed(s, a, o), Signed(t, a, o)
  PROVE  s = t
<1> DEFINE p == s.pos  q == t.pos  c == s.cnt  d == t.cnt  h == o.h
<1>1. /\ p \in [Slot -> Position] /\ q \in [Slot -> Position]
      /\ c \in [KRow -> Count] /\ d \in [KRow -> Count]
      /\ Encodes(p, c, h) /\ Encodes(q, d, h)
  BY DEF Signed
<1>2. /\ s = [c |-> WOf(a), z |-> [l \in LRow |-> ZRow(a, l)], pos |-> p, cnt |-> c]
      /\ t = [c |-> WOf(a), z |-> [l \in LRow |-> ZRow(a, l)], pos |-> q, cnt |-> d]
  BY DEF Signed
<1> HIDE DEF p, q, c, d
<1>3. c = d
  BY <1>1, CountsUnique
<1>4. ASSUME NEW i \in Slot
      PROVE  p[i] = q[i]
  <2>1. K - 1 \in KRow /\ i \in Int /\ c[K - 1] \in Int
    BY <1>1, Rows DEF KRow, Slot, Count
  <2>2. CASE i >= c[K - 1]
    BY <1>1, <1>3, <2>2 DEF Encodes
  <2>3. CASE i < c[K - 1]
    <3>1. PICK k \in KRow : RowStart(c, k) <= i /\ i < c[k]
      BY <1>1, <2>3, SlotInRow
    <3> DEFINE j == i - RowStart(c, k) + 1  from == RowStart(c, k)  m == Len(h[k])
    <3>2. RowStart(c, k) \in Int /\ m \in Nat /\ c[k] = from + m
      <4>1. k = 0 \/ k - 1 \in KRow
        BY Rows DEF KRow
      <4> QED
        BY <1>1, <4>1, OutcomeFacts, Rows DEF RowStart, Count, Encodes, RowEncoded
    <3>3. j \in 1 .. m /\ from + j - 1 = i
      <4> HIDE DEF m
      <4> QED
        BY <2>1, <3>1, <3>2
    <3>4. p[from + j - 1] = h[k][j] /\ q[from + j - 1] = h[k][j]
      <4> HIDE DEF j
      <4> QED
        BY <1>1, <1>3, <3>3, Zenon DEF Encodes, RowEncoded
    <3> QED
      BY <3>3, <3>4
  <2> QED
    BY <2>1, <2>2, <2>3
<1>5. p = q
  BY <1>1, <1>4
<1> QED
  BY <1>2, <1>3, <1>5

-----------------------------------------------------------------------------
(* The invariant.                                                          *)

MasksBelow(a, m) == {Kappa(a, l) : l \in 0 .. m - 1}

Running ==
  /\ ret = "none" <=> pc # "done"
  /\ pc = "begin" => attempt = 0

(* `nonce` is the number of the attempt, or the next one, in 16 bits.      *)
NonceInStep ==
  /\ pc \in {"begin", "rej", "mask"} => nonce = attempt % NonceSpace
  /\ pc \in {"z", "h"} => nonce = (attempt + 1) % NonceSpace

(* The rows of w, while masks are added and after.                         *)
RowsOfW ==
  /\ pc = "mask" =>
       wcomp = [k \in KRow |-> [y |-> MasksBelow(attempt, l_idx), minus |-> 0]]
  /\ pc \in {"z", "h"} =>
       /\ sig.c = WOf(attempt)
       /\ \A k \in KRow : wcomp[k].y = MasksOf(attempt)

(* The rows of z that are in sig are those of this attempt.                *)
RowsOfZ ==
  /\ pc = "z" =>
       /\ ccomp = WOf(attempt)
       /\ l_idx = 0 => tmp0 = WOf(attempt)
       /\ \A l \in 0 .. l_idx - 1 : l \notin outcome.zbad /\ sig.z[l] = ZRow(attempt, l)
  /\ pc = "h" =>
       /\ outcome.zbad = {}
       /\ \A l \in LRow : sig.z[l] = ZRow(attempt, l)

(* The rows of the hint that are in sig, and the checks they have passed.  *)
RowsOfHint ==
  pc = "h" =>
    /\ hint_n = hints_written
    /\ hints_written = RowStart(outcome.upto, k_idx)
    /\ hints_written <= OMEGA
    /\ \A k \in 0 .. k_idx - 1 :
         /\ k \notin outcome.w0bad /\ k \notin outcome.ct0bad
         /\ sig.cnt[k] = outcome.upto[k]
         /\ outcome.upto[k] <= hints_written
         /\ \A i \in 1 .. Len(outcome.h[k]) :
              sig.pos[RowStart(outcome.upto, k) + i - 1] = outcome.h[k][i]
    /\ \A i \in 0 .. hints_written - 1 : sig.pos[i] \in Position

(* The masks of the rejected attempts.                                     *)
Rejected == \A s \in seen : \E a \in 0 .. attempt - 1, l \in LRow : s = Kappa(a, l)

IInv ==
  /\ TypeOK
  /\ Running
  /\ NonceInStep
  /\ RowsOfW
  /\ RowsOfZ
  /\ RowsOfHint
  /\ Rejected

-----------------------------------------------------------------------------
LEMMA MasksBelowFacts ==
  ASSUME NEW a \in Int
  PROVE  /\ MasksBelow(a, 0) = {}
         /\ \A m \in Nat : MasksBelow(a, m + 1) = MasksBelow(a, m) \cup {Kappa(a, m)}
         /\ MasksBelow(a, L) = MasksOf(a)
         /\ \A m \in Nat : MasksBelow(a, m) \subseteq Mask
<1>1. MasksBelow(a, 0) = {}
  BY DEF MasksBelow
<1>2. ASSUME NEW m \in Nat
      PROVE  MasksBelow(a, m + 1) = MasksBelow(a, m) \cup {Kappa(a, m)}
  <2>1. 0 .. (m + 1) - 1 = (0 .. m - 1) \cup {m}
    BY <1>2
  <2> QED
    BY <2>1 DEF MasksBelow
<1>3. MasksBelow(a, L) = MasksOf(a)
  BY DEF MasksBelow, MasksOf, LRow
<1>4. ASSUME NEW m \in Nat
      PROVE  MasksBelow(a, m) \subseteq Mask
  BY <1>4, KappaInMask DEF MasksBelow
<1> QED
  BY <1>1, <1>2, <1>3, <1>4

LEMMA InitIInv ==
  ASSUME Init
  PROVE  IInv
<1>1. TypeOK
  <2>1. wcomp \in WVec
    BY DEF Init, WVec, WRow
  <2>2. sig \in SigBuffer
    BY DEF Init, JunkSig, SigBuffer
  <2>3. nonce \in Mask /\ l_idx \in 0 .. L /\ k_idx \in 0 .. K /\ hints_written \in Count
    BY Rows DEF Init, Mask, Count
  <2>4. outcome \in Outcome
    BY AnswersTyped DEF Init
  <2> QED
    BY <2>1, <2>2, <2>3, <2>4 DEF Init, TypeOK
<1>2. nonce = attempt % NonceSpace
  BY Rows, RemainderOfSmall DEF Init
<1> QED
  BY <1>1, <1>2
  DEF IInv, Init, Running, NonceInStep, RowsOfW, RowsOfZ, RowsOfHint, Rejected

LEMMA RefuseIInv ==
  ASSUME IInv, Refuse \/ Begin
  PROVE  IInv'
<1>1. TypeOK'
  BY DEF IInv, TypeOK, Refuse, Begin
<1> QED
  BY <1>1
  DEF IInv, Refuse, Begin, Running, NonceInStep, RowsOfW, RowsOfZ, RowsOfHint, Rejected

LEMMA ClearWIInv ==
  ASSUME IInv, ClearW
  PROVE  IInv'
<1>1. attempt \in Int /\ wcomp' = [k \in KRow |-> [y |-> {}, minus |-> 0]] /\ l_idx' = 0
      /\ attempt' = attempt
  BY DEF IInv, TypeOK, ClearW, Cleared
<1>2. TypeOK'
  <2>1. wcomp' \in WVec
    BY <1>1 DEF WVec, WRow
  <2>2. l_idx' \in 0 .. L
    BY <1>1, Rows
  <2> QED
    BY <2>1, <2>2 DEF IInv, TypeOK, ClearW
<1>3. RowsOfW'
  BY <1>1, MasksBelowFacts DEF ClearW, RowsOfW
<1> QED
  BY <1>2, <1>3
  DEF IInv, ClearW, Running, NonceInStep, RowsOfZ, RowsOfHint, Rejected

LEMMA AddMaskRowIInv ==
  ASSUME IInv, AddMaskRow
  PROVE  IInv'
<1>1. /\ attempt \in Nat /\ attempt' = attempt /\ nonce = attempt % NonceSpace
      /\ l_idx \in Nat /\ l_idx < L /\ l_idx' = l_idx + 1
      /\ pc = "mask" /\ pc' = "mask"
  BY Rows DEF IInv, TypeOK, AddMaskRow, NonceInStep
<1>2. Kappa(nonce, l_idx) = Kappa(attempt, l_idx)
  BY <1>1, KappaOfRemainder
<1>3. wcomp = [k \in KRow |-> [y |-> MasksBelow(attempt, l_idx), minus |-> 0]]
  BY <1>1 DEF IInv, RowsOfW
<1> DEFINE before == MasksBelow(attempt, l_idx)  mask == Kappa(nonce, l_idx)
<1>4. wcomp' = [k \in KRow |-> [y |-> before \cup {Kappa(attempt, l_idx)}, minus |-> 0]]
  <2>1. wcomp' = [k \in KRow |-> [wcomp[k] EXCEPT !.y = wcomp[k].y \cup {mask}]]
    BY DEF AddMaskRow
  <2> HIDE DEF before, mask
  <2>2. \A k \in KRow : wcomp[k] = [y |-> before, minus |-> 0]
    BY <1>3 DEF before
  <2>3. \A k \in KRow :
          [wcomp[k] EXCEPT !.y = wcomp[k].y \cup {mask}] = [y |-> before \cup {mask}, minus |-> 0]
    BY <2>2
  <2>4. wcomp' = [k \in KRow |-> [y |-> before \cup {mask}, minus |-> 0]]
    BY <2>1, <2>3
  <2> QED
    BY <1>2, <2>4 DEF mask
<1>5. wcomp' = [k \in KRow |-> [y |-> MasksBelow(attempt, l_idx + 1), minus |-> 0]]
  <2>1. MasksBelow(attempt, l_idx + 1) = MasksBelow(attempt, l_idx) \cup {Kappa(attempt, l_idx)}
    BY <1>1, MasksBelowFacts
  <2> QED
    BY <1>4, <2>1, Zenon
<1>6. TypeOK'
  <2>1. MasksBelow(attempt, l_idx + 1) \subseteq Mask
    BY <1>1, MasksBelowFacts
  <2>2. wcomp' \in WVec
    BY <1>5, <2>1 DEF WVec, WRow
  <2>3. l_idx' \in 0 .. L
    BY <1>1, Rows
  <2> QED
    BY <2>2, <2>3 DEF IInv, TypeOK, AddMaskRow
<1>7. RowsOfW'
  BY <1>1, <1>5 DEF RowsOfW
<1> QED
  BY <1>1, <1>6, <1>7
  DEF IInv, AddMaskRow, Running, NonceInStep, RowsOfZ, RowsOfHint, Rejected

LEMMA CommitIInv ==
  ASSUME IInv, Commit
  PROVE  IInv'
<1>1. /\ attempt \in Nat /\ attempt' = attempt /\ nonce = attempt % NonceSpace
      /\ l_idx = L /\ l_idx' = 0 /\ pc = "mask" /\ pc' = "z" /\ wcomp' = wcomp
      /\ sig \in SigBuffer
  BY DEF IInv, TypeOK, Commit, NonceInStep
<1>2. nonce' = (attempt + 1) % NonceSpace
  BY <1>1, NextRemainder DEF Commit
<1>3. wcomp = WOf(attempt)
  BY <1>1, MasksBelowFacts DEF IInv, RowsOfW, WOf
<1>4. /\ sig'.c = WOf(attempt)
      /\ sig' = [sig EXCEPT !.c = wcomp,
                            !.z = [l \in LRow |-> IF l \in WScratch THEN Junk ELSE sig.z[l]]]
  BY <1>1, <1>3 DEF Commit, SigBuffer
<1>5. TypeOK'
  <2>1. WOf(attempt) \in Challenge
    BY <1>1, WOfTyped DEF Challenge
  <2>2. sig' \in SigBuffer
    BY <1>1, <1>3, <1>4, <2>1 DEF SigBuffer
  <2>3. nonce' \in Mask
    BY <1>1, <1>2, Rows, Division DEF Mask
  <2>4. tmp0' \in Challenge /\ ccomp' \in Challenge
    BY <1>3, <2>1 DEF Commit
  <2>5. l_idx' \in 0 .. L
    BY <1>1, Rows
  <2> QED
    BY <1>1, <2>2, <2>3, <2>4, <2>5 DEF IInv, TypeOK, Commit
<1>6. RowsOfW'
  BY <1>1, <1>3, <1>4 DEF RowsOfW, WOf
<1>7. RowsOfZ'
  BY <1>1, <1>3 DEF Commit, RowsOfZ
<1>8. NonceInStep' /\ Running' /\ RowsOfHint' /\ Rejected'
  BY <1>1, <1>2 DEF IInv, Commit, Running, NonceInStep, RowsOfHint, Rejected
<1> QED
  BY <1>5, <1>6, <1>7, <1>8 DEF IInv

LEMMA WriteZRowIInv ==
  ASSUME IInv, WriteZRow
  PROVE  IInv'
<1>1. /\ attempt \in Nat /\ attempt' = attempt /\ nonce = (attempt + 1) % NonceSpace
      /\ l_idx \in Nat /\ l_idx < L /\ l_idx' = l_idx + 1 /\ l_idx \in LRow
      /\ pc = "z" /\ pc' = "z" /\ outcome' = outcome
      /\ sig \in SigBuffer
  BY Rows DEF IInv, TypeOK, WriteZRow, NonceInStep, LRow
<1>2. ChallengeForZ = WOf(attempt)
  BY <1>1 DEF IInv, RowsOfZ, ChallengeForZ
<1>3. Kappa(nonce - 1, l_idx) = Kappa(attempt, l_idx)
  BY <1>1, KappaOfNext
<1>4. sig' = [sig EXCEPT !.z[l_idx] = ZRow(attempt, l_idx)]
  BY <1>2, <1>3, Zenon DEF WriteZRow, ZRow
<1>5. /\ sig'.c = sig.c
      /\ sig'.z = [sig.z EXCEPT ![l_idx] = ZRow(attempt, l_idx)]
      /\ sig'.pos = sig.pos /\ sig'.cnt = sig.cnt
      /\ sig' = [c |-> sig'.c, z |-> sig'.z, pos |-> sig'.pos, cnt |-> sig'.cnt]
      /\ sig.z \in [LRow -> ZVal \cup {Junk}]
  BY <1>1, <1>4 DEF SigBuffer
<1>6. TypeOK'
  <2>1. ZRow(attempt, l_idx) \in ZVal
    BY <1>1, WOfTyped, KappaInMask DEF ZRow, ZVal, Challenge
  <2>2. sig'.z \in [LRow -> ZVal \cup {Junk}]
    BY <1>1, <1>5, <2>1
  <2>3. sig' \in SigBuffer
    BY <1>1, <1>5, <2>2 DEF SigBuffer
  <2>4. l_idx' \in 0 .. L
    BY <1>1, Rows
  <2> QED
    BY <2>3, <2>4 DEF IInv, TypeOK, WriteZRow
<1>7. RowsOfZ'
  <2>1. ASSUME NEW l \in 0 .. l_idx
        PROVE  l \notin outcome.zbad /\ sig'.z[l] = ZRow(attempt, l)
    <3>1. l \in LRow
      BY <1>1, <2>1, Rows DEF LRow
    <3>2. CASE l = l_idx
      BY <1>1, <1>5, <3>2 DEF WriteZRow
    <3>3. CASE l # l_idx
      <4>1. l \in 0 .. l_idx - 1
        BY <1>1, <2>1, <3>3
      <4> QED
        BY <1>1, <1>5, <3>1, <3>3, <4>1 DEF IInv, RowsOfZ
    <3> QED
      BY <3>2, <3>3
  <2>2. l_idx' - 1 = l_idx /\ l_idx' # 0
    BY <1>1
  <2> QED
    BY <1>1, <2>1, <2>2 DEF IInv, RowsOfZ, WriteZRow
<1>8. RowsOfW'
  BY <1>1, <1>5 DEF IInv, RowsOfW, WriteZRow
<1>9. NonceInStep' /\ Running' /\ RowsOfHint' /\ Rejected'
  BY <1>1 DEF IInv, WriteZRow, Running, NonceInStep, RowsOfHint, Rejected
<1> QED
  BY <1>6, <1>7, <1>8, <1>9 DEF IInv

(* Back to rej: the masks of the attempt join those that are used up.      *)
LEMMA RejectIInv ==
  ASSUME IInv, RejectZRow \/ RejectHintRow
  PROVE  IInv'
<1>1. /\ attempt \in Nat /\ attempt' = attempt + 1 /\ nonce = (attempt + 1) % NonceSpace
      /\ nonce' = nonce /\ pc' = "rej" /\ outcome' \in Outcome
      /\ seen' = seen \cup MasksOf(nonce - 1)
  BY AnswersTyped DEF IInv, TypeOK, RejectZRow, RejectHintRow, Reject, NonceInStep
<1>2. MasksOf(nonce - 1) = MasksOf(attempt)
  BY <1>1, MasksOfNext
<1>3. Rejected'
  <2>1. ASSUME NEW s \in seen
        PROVE  \E a \in 0 .. attempt, l \in LRow : s = Kappa(a, l)
    <3>1. PICK a \in 0 .. attempt - 1, l \in LRow : s = Kappa(a, l)
      BY <2>1 DEF IInv, Rejected
    <3>2. a \in 0 .. attempt
      BY <1>1
    <3> QED
      BY <3>1, <3>2
  <2>2. ASSUME NEW s \in MasksOf(attempt)
        PROVE  \E a \in 0 .. attempt, l \in LRow : s = Kappa(a, l)
    <3>1. attempt \in 0 .. attempt
      BY <1>1
    <3> QED
      BY <2>2, <3>1 DEF MasksOf
  <2>3. attempt' - 1 = attempt
    BY <1>1
  <2> QED
    BY <1>1, <1>2, <2>1, <2>2, <2>3 DEF Rejected
<1>4. TypeOK'
  <2>1. seen' \in SUBSET Mask
    <3>1. MasksOf(attempt) \subseteq Mask
      BY <1>1, MasksBelowFacts, Rows
    <3> QED
      BY <1>1, <1>2, <3>1 DEF IInv, TypeOK
  <2>2. CASE RejectZRow
    BY <1>1, <2>1, <2>2 DEF IInv, TypeOK, RejectZRow
  <2>3. CASE RejectHintRow
    <3>1. k_idx \in KRow
      BY <2>3, Rows DEF IInv, TypeOK, RejectHintRow, KRow
    <3>2. hint_n' \in Nat
      BY <2>3, <3>1, OutcomeFacts DEF IInv, TypeOK, RejectHintRow
    <3>3. wcomp' \in WVec
      BY <2>3, <3>1 DEF IInv, TypeOK, RejectHintRow, SubtractedRow, WVec, WRow
    <3> QED
      BY <1>1, <2>1, <2>3, <3>2, <3>3 DEF IInv, TypeOK, RejectHintRow
  <2> QED
    BY <2>2, <2>3
<1>5. NonceInStep'
  BY <1>1 DEF NonceInStep
<1>6. Running'
  BY <1>1 DEF IInv, Running, RejectZRow, RejectHintRow
<1> QED
  BY <1>1, <1>3, <1>4, <1>5, <1>6 DEF IInv, RowsOfW, RowsOfZ, RowsOfHint

LEMMA BeginHintsIInv ==
  ASSUME IInv, BeginHints
  PROVE  IInv'
<1>1. TypeOK'
  BY Rows DEF IInv, TypeOK, BeginHints, Count
<1>2. RowsOfZ'
  <2>1. \A l \in LRow : l \in 0 .. l_idx - 1
    BY Rows DEF BeginHints, LRow
  <2>2. \A l \in LRow : l \notin outcome.zbad /\ sig.z[l] = ZRow(attempt, l)
    BY <2>1 DEF IInv, RowsOfZ, BeginHints
  <2>3. outcome.zbad \subseteq LRow
    BY Rows DEF IInv, TypeOK, EveryOutcome
  <2> QED
    BY <2>2, <2>3 DEF BeginHints, RowsOfZ
<1>3. RowsOfHint'
  BY Rows DEF BeginHints, RowsOfHint, RowStart
<1> QED
  BY <1>1, <1>2, <1>3
  DEF IInv, BeginHints, Running, NonceInStep, RowsOfW, Rejected

(* The row fits behind the rows before it, and leaves them as they are.    *)
LEMMA WriteHintRowIInv ==
  ASSUME IInv, WriteHintRow
  PROVE  IInv'
<1> DEFINE row == outcome.h[k_idx]
<1>1. /\ outcome \in Outcome /\ k_idx \in KRow /\ outcome' = outcome /\ attempt' = attempt
      /\ k_idx \in Nat /\ k_idx < K /\ k_idx' = k_idx + 1
      /\ pc = "h" /\ pc' = "h" /\ sig \in SigBuffer
  BY Rows DEF IInv, TypeOK, WriteHintRow, KRow
<1>2. /\ Len(row) \in Nat
      /\ \A i \in 1 .. Len(row) : row[i] \in Position
      /\ outcome.upto[k_idx] = RowStart(outcome.upto, k_idx) + Len(row)
  BY <1>1, OutcomeFacts
<1>3. /\ hints_written \in Nat /\ hint_n = hints_written
      /\ hints_written = RowStart(outcome.upto, k_idx)
      /\ hint_n' = hint_n + Len(row)
      /\ hints_written' = hints_written + Len(row)
      /\ hints_written + Len(row) <= OMEGA
      /\ hints_written' = outcome.upto[k_idx]
      /\ k_idx \notin outcome.w0bad /\ k_idx \notin outcome.ct0bad
  BY <1>1, <1>2 DEF IInv, TypeOK, RowsOfHint, WriteHintRow, HintRowGood
<1>4. /\ sig'.c = sig.c /\ sig'.z = sig.z
      /\ sig'.pos = PosWithRow(sig.pos, row)
      /\ sig'.cnt = [sig.cnt EXCEPT ![k_idx] = hints_written']
      /\ sig' = [c |-> sig'.c, z |-> sig'.z, pos |-> sig'.pos, cnt |-> sig'.cnt]
      /\ sig.cnt \in [KRow -> Count \cup {Junk}]
      /\ sig.pos \in [Slot -> Position \cup {Junk}]
  BY <1>1 DEF WriteHintRow, SigBuffer
<1>5. \A i \in Slot :
        sig'.pos[i] = IF hints_written <= i /\ i < hints_written + Len(row)
                        THEN row[i - hints_written + 1] ELSE sig.pos[i]
  BY <1>4 DEF PosWithRow
<1> HIDE DEF row
<1>6. \A i \in Slot : hints_written <= i /\ i < hints_written + Len(row) =>
                         i - hints_written + 1 \in 1 .. Len(row)
  BY <1>2, <1>3, Rows DEF Slot
<1>7. TypeOK'
  <2>1. sig'.pos \in [Slot -> Position \cup {Junk}]
    <3>1. DOMAIN sig'.pos = Slot /\ sig'.pos = [i \in Slot |-> sig'.pos[i]]
      BY <1>4 DEF PosWithRow
    <3>2. \A i \in Slot : sig'.pos[i] \in Position \cup {Junk}
      BY <1>2, <1>4, <1>5, <1>6
    <3> QED
      BY <3>1, <3>2
  <2>2. hints_written' \in Count
    BY <1>2, <1>3, Rows DEF Count
  <2>3. sig' \in SigBuffer
    BY <1>1, <1>4, <2>1, <2>2 DEF SigBuffer
  <2>4. wcomp' \in WVec
    BY <1>1 DEF IInv, TypeOK, WriteHintRow, SubtractedRow, WVec, WRow
  <2>5. hint_n' \in Nat /\ k_idx' \in 0 .. K
    BY <1>1, <1>2, <1>3, Rows
  <2> QED
    BY <2>2, <2>3, <2>4, <2>5 DEF IInv, TypeOK, WriteHintRow
<1>8. RowsOfHint'
  <2>1. hints_written' = RowStart(outcome.upto, k_idx')
    BY <1>1, <1>3 DEF RowStart
  <2>2. ASSUME NEW k \in 0 .. k_idx
        PROVE  /\ k \notin outcome.w0bad /\ k \notin outcome.ct0bad
               /\ sig'.cnt[k] = outcome.upto[k]
               /\ outcome.upto[k] <= hints_written'
               /\ \A i \in 1 .. Len(outcome.h[k]) :
                    sig'.pos[RowStart(outcome.upto, k) + i - 1] = outcome.h[k][i]
    <3>1. CASE k = k_idx
      <4>1. ASSUME NEW i \in 1 .. Len(row)
            PROVE  sig'.pos[hints_written + i - 1] = row[i]
        <5> DEFINE at == hints_written + i - 1
        <5>1. at \in Slot /\ hints_written <= at /\ at < hints_written + Len(row)
              /\ at - hints_written + 1 = i
          <6> DEFINE m == Len(row)
          <6>1. /\ m \in Nat /\ hints_written \in Nat /\ OMEGA \in Nat
                /\ hints_written + m <= OMEGA /\ i \in 1 .. m
            BY <1>2, <1>3, <4>1, Rows
          <6> HIDE DEF m
          <6>2. at \in Slot /\ hints_written <= at /\ at < hints_written + m
                /\ at - hints_written + 1 = i
            BY <6>1 DEF Slot
          <6> QED
            BY <6>2 DEF m
        <5> HIDE DEF at
        <5>2. sig'.pos[at] = row[i]
          BY <1>5, <5>1
        <5> QED
          BY <5>2 DEF at
      <4>2. outcome.upto[k] <= hints_written'
        BY <1>2, <1>3, <3>1
      <4>3. sig'.cnt[k] = outcome.upto[k]
        BY <1>1, <1>3, <1>4, <3>1
      <4> QED
        BY <1>3, <3>1, <4>1, <4>2, <4>3 DEF row
    <3>2. CASE k # k_idx
      <4>1. k \in 0 .. k_idx - 1 /\ k \in KRow
        BY <1>1, <2>2, <3>2, Rows DEF KRow
      <4>2. /\ k \notin outcome.w0bad /\ k \notin outcome.ct0bad
            /\ sig.cnt[k] = outcome.upto[k]
            /\ outcome.upto[k] <= hints_written
            /\ \A i \in 1 .. Len(outcome.h[k]) :
                 sig.pos[RowStart(outcome.upto, k) + i - 1] = outcome.h[k][i]
        BY <1>1, <4>1 DEF IInv, RowsOfHint
      <4>3. /\ Len(outcome.h[k]) \in Nat /\ outcome.upto[k] \in Nat
            /\ RowStart(outcome.upto, k) \in Nat
            /\ outcome.upto[k] = RowStart(outcome.upto, k) + Len(outcome.h[k])
        BY <1>1, <4>1, OutcomeFacts
      <4>4. ASSUME NEW i \in 1 .. Len(outcome.h[k])
            PROVE  sig'.pos[RowStart(outcome.upto, k) + i - 1]
                     = sig.pos[RowStart(outcome.upto, k) + i - 1]
        <5> DEFINE at == RowStart(outcome.upto, k) + i - 1
        <5>1. at \in Slot /\ at < hints_written
          <6> DEFINE m == Len(outcome.h[k])  from == RowStart(outcome.upto, k)
          <6>1. /\ m \in Nat /\ hints_written \in Nat /\ OMEGA \in Nat /\ from \in Nat
                /\ from + m <= hints_written /\ hints_written <= OMEGA /\ i \in 1 .. m
            BY <1>1, <4>2, <4>3, <4>4, Rows DEF IInv, TypeOK, RowsOfHint, Count
          <6> HIDE DEF m, from
          <6>2. from + i - 1 \in Slot /\ from + i - 1 < hints_written
            BY <6>1 DEF Slot
          <6> QED
            BY <6>2 DEF from
        <5>2. ~(hints_written <= at)
          BY <1>3, <5>1 DEF Slot
        <5> HIDE DEF at
        <5>3. sig'.pos[at] = sig.pos[at]
          BY <1>5, <5>1, <5>2
        <5> QED
          BY <5>3 DEF at
      <4>5. outcome.upto[k] <= hints_written'
        BY <1>2, <1>3, <4>2, <4>3
      <4>6. sig'.cnt[k] = sig.cnt[k]
        BY <1>4, <3>2, <4>1
      <4> QED
        BY <4>2, <4>4, <4>5, <4>6
    <3> QED
      BY <3>1, <3>2
  <2>3. ASSUME NEW i \in 0 .. hints_written' - 1
        PROVE  sig'.pos[i] \in Position
    <3>1. i \in Slot /\ i \in Nat /\ i < hints_written + Len(row)
      BY <1>2, <1>3, <2>3, Rows DEF Slot
    <3>2. CASE hints_written <= i
      BY <1>2, <1>5, <1>6, <3>1, <3>2
    <3>3. CASE ~(hints_written <= i)
      <4>1. i \in 0 .. hints_written - 1
        BY <1>3, <3>1, <3>3
      <4> QED
        BY <1>1, <1>5, <3>1, <3>3, <4>1 DEF IInv, RowsOfHint
    <3> QED
      BY <3>2, <3>3
  <2>4. k_idx' - 1 = k_idx /\ hint_n' = hints_written' /\ hints_written' <= OMEGA
    BY <1>1, <1>3
  <2> QED
    BY <1>1, <2>1, <2>2, <2>3, <2>4 DEF RowsOfHint
<1>9. RowsOfW'
  <2>1. \A k \in KRow : wcomp'[k].y = wcomp[k].y
    BY <1>1 DEF IInv, TypeOK, WriteHintRow, SubtractedRow, WVec, WRow
  <2> QED
    BY <1>1, <1>4, <2>1 DEF IInv, RowsOfW, WriteHintRow
<1>10. RowsOfZ' /\ NonceInStep' /\ Running' /\ Rejected'
  BY <1>1, <1>4 DEF IInv, WriteHintRow, RowsOfZ, NonceInStep, Running, Rejected
<1> QED
  BY <1>7, <1>8, <1>9, <1>10 DEF IInv

LEMMA FinishIInv ==
  ASSUME IInv, Finish
  PROVE  IInv'
<1>1. /\ sig \in SigBuffer /\ sig' = [sig EXCEPT !.pos = ZeroTail(sig.pos)]
      /\ hints_written \in Count
  BY DEF IInv, TypeOK, Finish, SigBuffer
<1>2. sig' \in SigBuffer
  <2>1. ZeroTail(sig.pos) \in [Slot -> Position \cup {Junk}]
    BY <1>1, Rows DEF SigBuffer, ZeroTail, Position
  <2> QED
    BY <1>1, <2>1 DEF SigBuffer
<1>3. hints_written' \in Count
  BY <1>1, Rows DEF Finish, Count
<1>4. TypeOK'
  BY <1>2, <1>3 DEF IInv, TypeOK, Finish
<1> QED
  BY <1>4
  DEF IInv, Finish, Running, NonceInStep, RowsOfW, RowsOfZ, RowsOfHint, Rejected

LEMMA StepIInv ==
  ASSUME IInv, [Next]_vars
  PROVE  IInv'
<1>1. CASE UNCHANGED vars
  BY <1>1 DEF IInv, TypeOK, vars, Running, NonceInStep, RowsOfW, RowsOfZ, RowsOfHint, Rejected
<1>2. CASE Next
  BY <1>2, RefuseIInv, ClearWIInv, AddMaskRowIInv, CommitIInv, WriteZRowIInv, RejectIInv,
     BeginHintsIInv, WriteHintRowIInv, FinishIInv
  DEF Next
<1> QED
  BY <1>1, <1>2

(* The invariant holds throughout crypto_sign_signature.                   *)
THEOREM LoopCorrect == Spec => []IInv
BY InitIInv, StepIInv, PTL DEF Spec

(* Every buffer of crypto_sign_signature is indexed within its bounds.     *)
THEOREM TypeCorrect == Spec => []TypeOK
<1>1. IInv => TypeOK
  BY DEF IInv
<1> QED
  BY <1>1, LoopCorrect, PTL

LEMMA RowStarts ==
  ASSUME IInv, pc = "h", NEW k \in 0 .. k_idx
  PROVE  RowStart(sig.cnt, k) = RowStart(outcome.upto, k)
<1>1. k \in Nat /\ k_idx \in Nat
  BY Rows DEF IInv, TypeOK
<1>2. CASE k # 0
  <2>1. k - 1 \in 0 .. k_idx - 1
    BY <1>1, <1>2
  <2> QED
    BY <1>2, <2>1 DEF IInv, RowsOfHint, RowStart
<1> QED
  BY <1>2 DEF RowStart

(* pack_sig_h never writes past the OMEGA position bytes, and the rows     *)
(* written so far can be decoded, whatever earlier attempts left in sig.   *)
THEOREM HintsCorrect == Spec => []HintPrefixEncoded
<1>1. IInv => HintPrefixEncoded
  <2> SUFFICES ASSUME IInv, pc = "h" PROVE HintPrefixEncoded
    BY DEF HintPrefixEncoded
  <2>1. k_idx \in Nat /\ k_idx \in 0 .. k_idx /\ k_idx <= K /\ outcome \in Outcome
    BY Rows DEF IInv, TypeOK
  <2>2. hints_written = RowStart(sig.cnt, k_idx)
    BY <2>1, RowStarts DEF IInv, RowsOfHint
  <2>3. ASSUME NEW k \in 0 .. k_idx - 1
        PROVE  RowEncoded(sig.pos, sig.cnt, outcome.h, k)
    <3>1. k \in 0 .. k_idx /\ k \in KRow
      BY <2>1, <2>3, Rows DEF KRow
    <3>2. RowStart(sig.cnt, k) = RowStart(outcome.upto, k)
      BY <3>1, RowStarts
    <3>3. outcome.upto[k] = RowStart(outcome.upto, k) + Len(outcome.h[k])
      BY <2>1, <3>1, OutcomeFacts
    <3>4. /\ sig.cnt[k] = outcome.upto[k]
          /\ \A i \in 1 .. Len(outcome.h[k]) :
               sig.pos[RowStart(outcome.upto, k) + i - 1] = outcome.h[k][i]
      BY <2>3 DEF IInv, RowsOfHint
    <3> QED
      BY <3>2, <3>3, <3>4 DEF RowEncoded
  <2> QED
    BY <2>2, <2>3 DEF IInv, RowsOfHint, HintPrefixEncoded
<1> QED
  BY <1>1, LoopCorrect, PTL

(* No mask of a rejected attempt is used again before the nonce wraps.     *)
THEOREM MasksCorrect == Spec => []FreshMasks
<1>1. IInv => FreshMasks
  <2> SUFFICES ASSUME IInv, pc \in {"z", "h"}, L * (attempt + 1) <= NonceSpace,
                      NEW k \in KRow, NEW s \in wcomp[k].y, s \in seen
               PROVE  FALSE
    BY DEF FreshMasks
  <2>1. PICK l \in LRow : s = Kappa(attempt, l)
    BY DEF IInv, RowsOfW, MasksOf
  <2>2. PICK a \in 0 .. attempt - 1, m \in LRow : s = Kappa(a, m)
    BY DEF IInv, Rejected
  <2>3. attempt \in Nat /\ a \in Nat /\ a < attempt
    BY <2>2 DEF IInv, TypeOK
  <2> QED
    BY <2>1, <2>2, <2>3, KappaDistinct
<1> QED
  BY <1>1, LoopCorrect, PTL

-----------------------------------------------------------------------------
(* The refinement.                                                         *)

LEMMA AbstractKappa ==
  ASSUME NEW a, NEW l
  PROVE  Attempt!Kappa(a, l) = Kappa(a, l)
BY DEF Attempt!Kappa, Kappa

LEMMA AbstractWOf ==
  ASSUME NEW a
  PROVE  Attempt!WOf(a) = WOf(a)
BY DEF Attempt!WOf, WOf, Attempt!MasksOf, MasksOf, Attempt!Kappa, Kappa,
       Attempt!KRow, KRow, Attempt!LRow, LRow

LEMMA AbstractAnswers ==
  ASSUME NEW a
  PROVE  Attempt!Answers(a) = Answers(a)
BY DEF Attempt!Answers, Answers, Attempt!Acceptable, Acceptable, Attempt!KRow, KRow

LEMMA AbstractAcceptable ==
  ASSUME NEW o
  PROVE  Attempt!Acceptable(o) <=> Acceptable(o)
BY DEF Attempt!Acceptable, Acceptable, Attempt!KRow, KRow

(* An attempt is given up only for a check that its outcome fails.         *)
LEMMA RejectRefines ==
  ASSUME IInv, RejectZRow \/ RejectHintRow
  PROVE  Attempt!Retry
<1>1. attempt' = attempt + 1 /\ outcome' \in Answers(attempt + 1) /\ ret' = ret /\ ret = "none"
  BY DEF IInv, Running, RejectZRow, RejectHintRow, Reject
<1>2. ~Acceptable(outcome)
  <2>1. CASE RejectZRow
    BY <2>1 DEF RejectZRow, Acceptable
  <2>2. CASE RejectHintRow
    <3>1. k_idx \in KRow /\ outcome \in Outcome
      BY <2>2, Rows DEF IInv, TypeOK, RejectHintRow, KRow
    <3>2. hint_n + Len(outcome.h[k_idx]) = outcome.upto[k_idx]
      BY <2>2, <3>1, OutcomeFacts DEF IInv, RowsOfHint, RejectHintRow
    <3> QED
      BY <2>2, <3>1, <3>2, Zenon DEF RejectHintRow, HintRowGood, Acceptable
  <2> QED
    BY <2>1, <2>2
<1>3. outcome' \in Attempt!Answers(attempt')
  BY <1>1, AbstractAnswers
<1>4. ~Attempt!Acceptable(outcome)
  BY <1>2, AbstractAcceptable
<1> QED
  BY <1>1, <1>3, <1>4 DEF Attempt!Retry

(* What is in sig when all rows are written is the signature.              *)
LEMMA FinishRefines ==
  ASSUME IInv, Finish
  PROVE  Attempt!Accept
<1>1. /\ ret = "none" /\ ret' = "ok" /\ attempt' = attempt /\ outcome' = outcome
      /\ pc = "h" /\ k_idx = K /\ attempt \in Nat /\ outcome \in Outcome
      /\ sig \in SigBuffer /\ hints_written \in Nat /\ hints_written <= OMEGA
      /\ sig' = [sig EXCEPT !.pos = ZeroTail(sig.pos)]
  BY DEF IInv, TypeOK, Running, RowsOfHint, Finish, Count, SigBuffer
<1>2. K - 1 \in KRow /\ K \in Nat /\ K - 1 \in 0 .. K - 1 /\ \A k \in KRow : k \in 0 .. k_idx - 1
  BY <1>1, Rows DEF KRow
<1>3. /\ sig.cnt[K - 1] = hints_written
      /\ \A k \in KRow : sig.cnt[k] = outcome.upto[k] /\ outcome.upto[k] <= hints_written
      /\ \A k \in KRow : k \notin outcome.w0bad /\ k \notin outcome.ct0bad
  <2>1. hints_written = outcome.upto[K - 1]
    BY <1>1, Rows DEF IInv, RowsOfHint, RowStart
  <2> QED
    BY <1>1, <1>2, <2>1 DEF IInv, RowsOfHint
<1>4. Acceptable(outcome)
  <2>1. outcome.w0bad \subseteq KRow /\ outcome.ct0bad \subseteq KRow
    BY <1>1, Rows DEF EveryOutcome
  <2>2. \A k \in KRow : outcome.upto[k] <= OMEGA
    <3>1. \A k \in KRow : outcome.upto[k] \in Nat
      BY <1>1, OutcomeFacts
    <3> QED
      BY <1>1, <1>3, <3>1, Rows
  <2>3. outcome.zbad = {} /\ outcome.w0bad = {} /\ outcome.ct0bad = {}
    BY <1>1, <1>3, <2>1 DEF IInv, RowsOfZ
  <2> QED
    BY <2>2, <2>3 DEF Acceptable
<1>5. /\ sig'.c = WOf(attempt)
      /\ sig'.z = [l \in LRow |-> ZRow(attempt, l)]
      /\ sig'.cnt = sig.cnt
      /\ sig'.pos = ZeroTail(sig.pos)
      /\ sig' = [c |-> sig'.c, z |-> sig'.z, pos |-> sig'.pos, cnt |-> sig'.cnt]
  <2>1. sig.c = WOf(attempt) /\ \A l \in LRow : sig.z[l] = ZRow(attempt, l)
    BY <1>1 DEF IInv, RowsOfW, RowsOfZ
  <2>2. sig.z = [l \in LRow |-> sig.z[l]]
    BY <1>1 DEF SigBuffer
  <2>3. sig.z = [l \in LRow |-> ZRow(attempt, l)]
    BY <2>1, <2>2
  <2> QED
    BY <1>1, <2>1, <2>3 DEF SigBuffer
<1>6. /\ sig'.pos \in [Slot -> Position]
      /\ \A i \in Slot : hints_written <= i => sig'.pos[i] = 0
      /\ \A i \in Slot : ~(hints_written <= i) => sig'.pos[i] = sig.pos[i]
  <2>1. \A i \in Slot : ~(hints_written <= i) => sig.pos[i] \in Position
    <3>1. \A i \in Slot : ~(hints_written <= i) => i \in 0 .. hints_written - 1
      BY <1>1, Rows DEF Slot
    <3> QED
      BY <1>1, <3>1 DEF IInv, RowsOfHint
  <2>2. 0 \in Position
    BY Rows DEF Position
  <2> QED
    BY <1>5, <2>1, <2>2 DEF ZeroTail
<1>7. sig'.cnt \in [KRow -> Count]
  <2>1. \A k \in KRow : sig.cnt[k] \in Count
    <3>1. \A k \in KRow : outcome.upto[k] \in Nat
      BY <1>1, OutcomeFacts
    <3> QED
      BY <1>1, <1>3, <3>1, Rows DEF Count
  <2>2. sig.cnt = [k \in KRow |-> sig.cnt[k]]
    BY <1>1 DEF SigBuffer
  <2> QED
    BY <1>5, <2>1, <2>2
<1>8. Encodes(sig'.pos, sig'.cnt, outcome.h)
  <2>1. ASSUME NEW k \in KRow
        PROVE  RowEncoded(sig'.pos, sig'.cnt, outcome.h, k)
    <3>1. k \in 0 .. k_idx /\ k \in 0 .. k_idx - 1
      BY <1>1, <1>2, <2>1, Rows DEF KRow
    <3>2. RowStart(sig'.cnt, k) = RowStart(outcome.upto, k)
      BY <1>1, <1>5, <3>1, RowStarts
    <3> DEFINE m == Len(outcome.h[k])  from == RowStart(outcome.upto, k)
    <3>3. m \in Nat /\ from \in Nat /\ outcome.upto[k] = from + m /\ from + m <= hints_written
      BY <1>1, <1>3, OutcomeFacts
    <3>4. sig'.cnt[k] = RowStart(sig'.cnt, k) + Len(outcome.h[k])
      BY <1>3, <1>5, <3>2, <3>3
    <3>5. \A i \in 1 .. m : sig.pos[from + i - 1] = outcome.h[k][i]
      BY <1>1, <3>1 DEF IInv, RowsOfHint
    <3> HIDE DEF m, from
    <3>6. ASSUME NEW i \in 1 .. m
          PROVE  sig'.pos[from + i - 1] = outcome.h[k][i]
      <4>1. from + i - 1 \in Slot /\ ~(hints_written <= from + i - 1)
        BY <1>1, <3>3, <3>6, Rows DEF Slot
      <4> QED
        BY <1>6, <3>5, <4>1
    <3> QED
      BY <3>2, <3>4, <3>6 DEF m, from, RowEncoded
  <2>2. sig'.cnt[K - 1] = hints_written
    BY <1>3, <1>5
  <2> QED
    BY <1>6, <2>1, <2>2 DEF Encodes
<1>9. sig' \in Attempt!Signature
  <2>1. /\ Attempt!LRow = LRow /\ Attempt!KRow = KRow /\ Attempt!Slot = Slot
        /\ Attempt!Position = Position /\ Attempt!Count = Count
    BY DEF Attempt!LRow, LRow, Attempt!KRow, KRow, Attempt!Slot, Slot,
           Attempt!Position, Position, Attempt!Count, Count
  <2>2. [l \in LRow |-> ZRow(attempt, l)]
          = [l \in LRow |-> [c |-> Attempt!WOf(attempt), s |-> l, y |-> Attempt!Kappa(attempt, l)]]
    BY AbstractWOf, AbstractKappa DEF ZRow
  <2>3. sig'.c = Attempt!WOf(attempt)
    BY <1>5, AbstractWOf
  <2> QED
    BY <1>5, <1>6, <1>7, <2>1, <2>2, <2>3 DEF Attempt!Signature
<1>10. Attempt!Encodes(sig'.pos, sig'.cnt, outcome.h)
  BY <1>8 DEF Encodes, Attempt!Encodes, RowEncoded, Attempt!RowEncoded, RowStart,
              Attempt!RowStart, KRow, Attempt!KRow, Slot, Attempt!Slot
<1>11. Attempt!Acceptable(outcome)
  BY <1>4, AbstractAcceptable
<1> QED
  BY <1>1, <1>9, <1>10, <1>11 DEF Attempt!Accept

LEMMA StepRefines ==
  ASSUME IInv, [Next]_vars
  PROVE  [Attempt!Next]_Attempt!vars
<1>1. CASE RejectZRow \/ RejectHintRow
  BY <1>1, RejectRefines DEF Attempt!Next
<1>2. CASE Finish
  BY <1>2, FinishRefines DEF Attempt!Next
<1>3. CASE Refuse
  <2>1. ret = "none" /\ attempt = 0 /\ ret' = "refused" /\ UNCHANGED <<attempt, outcome>>
    BY <1>3 DEF IInv, Running, Refuse
  <2> QED
    BY <2>1 DEF Attempt!Next, Attempt!Refuse
<1>4. CASE Begin \/ ClearW \/ AddMaskRow \/ Commit \/ WriteZRow \/ BeginHints \/ WriteHintRow
  <2>1. ret = "none" /\ UNCHANGED <<attempt, outcome, ret>>
    BY <1>4
    DEF IInv, Running, Begin, ClearW, AddMaskRow, Commit, WriteZRow, BeginHints, WriteHintRow
  <2> QED
    BY <2>1 DEF Attempt!vars
<1>5. CASE UNCHANGED vars
  BY <1>5 DEF vars, Attempt!vars
<1> QED
  BY <1>1, <1>2, <1>3, <1>4, <1>5 DEF Next

(* The low-RAM signer implements the abstract loop.                        *)
THEOREM Refinement == Spec => ImplementsSignLoop
<1>1. Init => Attempt!Init
  BY AbstractAnswers DEF Init, Attempt!Init
<1> QED
  BY <1>1, StepRefines, LoopCorrect, PTL DEF Spec, ImplementsSignLoop, Attempt!Spec

-----------------------------------------------------------------------------
(* The vector-wise signer, and the two next to each other.                 *)

(* The two signers have their own copies of the operators of an attempt.   *)
LEMMA RefOperators ==
  /\ Ref!LRow = LRow /\ Ref!KRow = KRow /\ Ref!Slot = Slot /\ Ref!Mask = Mask
  /\ Ref!WVec = WVec /\ Ref!Challenge = Challenge /\ Ref!ZVal = ZVal
  /\ Ref!SigBuffer = SigBuffer
  /\ \A a : Ref!Answers(a) = Answers(a)
  /\ \A a, l : Ref!Kappa(a, l) = Kappa(a, l)
  /\ \A c, k : Ref!RowStart(c, k) = RowStart(c, k)
BY DEF Ref!LRow, LRow, Ref!KRow, KRow, Ref!Slot, Slot, Ref!Mask, Mask, Ref!WVec, WVec,
       Ref!WRow, WRow, Ref!Challenge, Challenge, Ref!ZVal, ZVal, Ref!SigBuffer, SigBuffer,
       Ref!Position, Position, Ref!Count, Count, Ref!Answers, Answers, Ref!Acceptable,
       Acceptable, Ref!Kappa, Kappa, Ref!RowStart, RowStart

RefRunning ==
  /\ ref_ret = "none" <=> ref_pc # "done"
  /\ ref_pc = "begin" => ref_attempt = 0

(* `ref_nonce` is the number of the attempt, or the next one, in 16 bits.      *)
RefNonceInStep ==
  /\ ref_pc \in {"begin", "rej"} => ref_nonce = ref_attempt % NonceSpace
  /\ ref_pc \in {"z", "w0", "ct0", "h"} => ref_nonce = (ref_attempt + 1) % NonceSpace

(* From the commitment on, the mask and the challenge are the attempt's.   *)
RefCommitted ==
  /\ ref_pc \in {"z", "w0", "ct0", "h"} => ref_sig.c = WOf(ref_attempt)
  /\ ref_pc \in {"z", "w0"} => ref_w0 \in WVec
  /\ ref_pc = "z" => ref_cp = WOf(ref_attempt) /\ ref_y = [l \in LRow |-> Kappa(ref_attempt, l)]

(* The checks passed so far, in their order.                               *)
RefPassed ==
  /\ ref_pc \in {"w0", "ct0", "h"} =>
       ref_outcome.zbad = {} /\ ref_z = [l \in LRow |-> ZRow(ref_attempt, l)]
  /\ ref_pc \in {"ct0", "h"} => ref_outcome.w0bad = {}
  /\ ref_pc = "h" => ref_outcome.ct0bad = {}

RefIInv ==
  /\ Ref!TypeOK
  /\ RefRunning
  /\ RefNonceInStep
  /\ RefCommitted
  /\ RefPassed

-----------------------------------------------------------------------------
LEMMA RefInitIInv ==
  ASSUME Ref!Init
  PROVE  RefIInv
<1>1. Ref!TypeOK
  <2>1. ref_sig \in SigBuffer
    BY RefOperators DEF Ref!Init, SigBuffer
  <2>2. ref_nonce \in Mask
    BY RefOperators, Rows DEF Ref!Init, Mask
  <2>3. ref_outcome \in Outcome
    BY RefOperators, AnswersTyped DEF Ref!Init
  <2> QED
    BY RefOperators, <2>1, <2>2, <2>3 DEF Ref!Init, Ref!TypeOK
<1>2. ref_nonce = ref_attempt % NonceSpace
  BY RefOperators, Rows, RemainderOfSmall DEF Ref!Init
<1> QED
  BY RefOperators, <1>1, <1>2
  DEF RefIInv, Ref!Init, RefRunning, RefNonceInStep, RefCommitted, RefPassed

LEMMA RefBeginIInv ==
  ASSUME RefIInv, Ref!Refuse \/ Ref!Begin
  PROVE  RefIInv'
<1>1. Ref!TypeOK'
  BY RefOperators DEF RefIInv, Ref!TypeOK, Ref!Refuse, Ref!Begin
<1> QED
  BY <1>1 DEF RefIInv, Ref!Refuse, Ref!Begin, RefRunning, RefNonceInStep, RefCommitted, RefPassed

LEMMA RefCommitIInv ==
  ASSUME RefIInv, Ref!SampleAndCommit
  PROVE  RefIInv'
<1>1. /\ ref_attempt \in Nat /\ ref_attempt' = ref_attempt /\ ref_nonce = ref_attempt % NonceSpace
      /\ ref_pc = "rej" /\ ref_pc' = "z" /\ ref_sig \in SigBuffer
  BY RefOperators DEF RefIInv, Ref!TypeOK, Ref!SampleAndCommit, RefNonceInStep
<1>2. ref_nonce' = (ref_attempt + 1) % NonceSpace
  BY RefOperators, <1>1, NextRemainder DEF Ref!SampleAndCommit, Ref!NextNonce
<1>3. ref_y' = [l \in LRow |-> Kappa(ref_attempt, l)]
  <2>1. \A l \in LRow : Kappa(ref_nonce, l) = Kappa(ref_attempt, l)
    BY <1>1, KappaOfRemainder DEF LRow
  <2> QED
    BY RefOperators, <2>1 DEF Ref!SampleAndCommit
<1>4. ref_w0' = WOf(ref_attempt)
  <2>1. {ref_y'[l] : l \in LRow} = MasksOf(ref_attempt)
    BY <1>3 DEF MasksOf
  <2> QED
    BY RefOperators, <2>1 DEF Ref!SampleAndCommit, WOf
<1>5. WOf(ref_attempt) \in WVec /\ WOf(ref_attempt) \in Challenge
  BY <1>1, WOfTyped DEF Challenge
<1>6. /\ ref_sig' = [ref_sig EXCEPT !.c = ref_w0',
                            !.z = [l \in LRow |-> IF l \in WScratch THEN Junk ELSE ref_sig.z[l]]]
      /\ ref_sig'.c = WOf(ref_attempt)
  BY RefOperators, <1>1, <1>4 DEF Ref!SampleAndCommit, SigBuffer
<1>7. ref_sig' \in SigBuffer
  BY <1>1, <1>4, <1>5, <1>6 DEF SigBuffer
<1>8. ref_y' \in [LRow -> Mask] /\ ref_nonce' \in Mask
  <2>1. \A l \in LRow : Kappa(ref_attempt, l) \in Mask
    BY <1>1, KappaInMask DEF LRow
  <2>2. ref_nonce' \in Mask
    BY <1>1, <1>2, Rows, Division DEF Mask
  <2> QED
    BY <1>3, <2>1, <2>2
<1>9. Ref!TypeOK'
  BY RefOperators, <1>1, <1>4, <1>5, <1>7, <1>8 DEF RefIInv, Ref!TypeOK, Ref!SampleAndCommit
<1>10. RefCommitted'
  BY RefOperators, <1>1, <1>3, <1>4, <1>5, <1>6 DEF Ref!SampleAndCommit, RefCommitted
<1> QED
  BY RefOperators, <1>1, <1>2, <1>9, <1>10
  DEF RefIInv, Ref!SampleAndCommit, RefRunning, RefNonceInStep, RefPassed

LEMMA RefRejectIInv ==
  ASSUME RefIInv, Ref!Reject, ref_pc \in {"z", "w0", "ct0", "h"},
         ref_w0' \in WVec \cup {Junk}, ref_z' \in [LRow -> ZVal] \cup {Junk}
  PROVE  RefIInv'
<1>1. /\ ref_attempt \in Nat /\ ref_attempt' = ref_attempt + 1
         /\ ref_nonce' = (ref_attempt + 1) % NonceSpace
      /\ ref_pc' = "rej" /\ ref_outcome' \in Outcome
  BY RefOperators, AnswersTyped DEF RefIInv, Ref!TypeOK, Ref!Reject, RefNonceInStep
<1>2. Ref!TypeOK'
  BY RefOperators, <1>1 DEF RefIInv, Ref!TypeOK, Ref!Reject
<1> QED
  BY RefOperators, <1>1, <1>2
  DEF RefIInv, Ref!Reject, RefRunning, RefNonceInStep, RefCommitted, RefPassed

LEMMA RefCheckZIInv ==
  ASSUME RefIInv, Ref!CheckZ
  PROVE  RefIInv'
<1>1. /\ ref_attempt \in Nat /\ ref_pc = "z" /\ ref_w0' = ref_w0 /\ ref_w0 \in WVec
      /\ ref_cp = WOf(ref_attempt) /\ ref_y = [l \in LRow |-> Kappa(ref_attempt, l)]
      /\ ref_z' = [l \in LRow |-> [c |-> ref_cp, s |-> l, y |-> ref_y[l]]]
  BY RefOperators DEF RefIInv, Ref!TypeOK, RefCommitted, Ref!CheckZ
<1>2. ref_z' = [l \in LRow |-> ZRow(ref_attempt, l)]
  BY <1>1 DEF ZRow
<1>3. ref_z' \in [LRow -> ZVal]
  <2>1. \A l \in LRow : ZRow(ref_attempt, l) \in ZVal
    BY <1>1, WOfTyped, KappaInMask DEF ZRow, ZVal, Challenge, LRow
  <2> QED
    BY <1>2, <2>1
<1>4. CASE Ref!Reject
  BY <1>1, <1>3, <1>4, RefRejectIInv
<1>5. CASE ref_outcome.zbad = {} /\ Ref!Proceed("w0")
  <2>1. Ref!TypeOK'
    BY RefOperators, <1>1, <1>3, <1>5 DEF RefIInv, Ref!TypeOK, Ref!Proceed
  <2> QED
    BY <1>1, <1>2, <1>5, <2>1
    DEF RefIInv, Ref!Proceed, RefRunning, RefNonceInStep, RefCommitted, RefPassed
<1> QED
  BY RefOperators, <1>4, <1>5 DEF Ref!CheckZ

LEMMA RefCheckW0IInv ==
  ASSUME RefIInv, Ref!CheckW0
  PROVE  RefIInv'
<1>1. ref_pc = "w0" /\ ref_z' = ref_z /\ ref_w0 \in WVec /\ ref_z \in [LRow -> ZVal] \cup {Junk}
  BY RefOperators DEF RefIInv, Ref!TypeOK, RefCommitted, Ref!CheckW0
<1>2. ref_w0' \in WVec
  BY RefOperators, <1>1 DEF Ref!CheckW0, WVec, WRow
<1>3. CASE Ref!Reject
  BY <1>1, <1>2, <1>3, RefRejectIInv
<1>4. CASE ref_outcome.w0bad = {} /\ Ref!Proceed("ct0")
  <2>1. Ref!TypeOK'
    BY RefOperators, <1>1, <1>2, <1>4 DEF RefIInv, Ref!TypeOK, Ref!Proceed
  <2> QED
    BY <1>1, <1>4, <2>1
    DEF RefIInv, Ref!Proceed, RefRunning, RefNonceInStep, RefCommitted, RefPassed
<1> QED
  BY RefOperators, <1>3, <1>4 DEF Ref!CheckW0

LEMMA RefCheckCt0IInv ==
  ASSUME RefIInv, Ref!CheckCt0
  PROVE  RefIInv'
<1>1. ref_pc = "ct0" /\ UNCHANGED <<ref_w0, ref_z>>
      /\ ref_w0 \in WVec \cup {Junk} /\ ref_z \in [LRow -> ZVal] \cup {Junk}
  BY RefOperators DEF RefIInv, Ref!TypeOK, Ref!CheckCt0
<1>2. CASE Ref!Reject
  BY <1>1, <1>2, RefRejectIInv
<1>3. CASE ref_outcome.ct0bad = {} /\ Ref!Proceed("h")
  <2>1. Ref!TypeOK'
    BY RefOperators, <1>1, <1>3 DEF RefIInv, Ref!TypeOK, Ref!Proceed
  <2> QED
    BY <1>1, <1>3, <2>1
    DEF RefIInv, Ref!Proceed, RefRunning, RefNonceInStep, RefCommitted, RefPassed
<1> QED
  BY <1>2, <1>3 DEF Ref!CheckCt0

LEMMA RefTooManyHintsIInv ==
  ASSUME RefIInv, Ref!TooManyHints
  PROVE  RefIInv'
BY RefOperators, RefRejectIInv DEF RefIInv, Ref!TypeOK, Ref!TooManyHints

-----------------------------------------------------------------------------
(* The hint section.                                                       *)

(* The hints of all rows fit when those of the last row do.                *)
LEMMA HintsFit ==
  ASSUME ref_outcome \in Outcome, Ref!HintFits, NEW k \in KRow
  PROVE  ref_outcome.upto[k] \in Nat /\ ref_outcome.upto[k] <= ref_outcome.upto[K - 1]
         /\ ref_outcome.upto[K - 1] <= OMEGA
<1>1. K - 1 \in KRow /\ k <= K - 1
  BY Rows DEF KRow
<1> QED
  BY <1>1, OutcomeFacts DEF Ref!HintFits

(* A position byte belongs to one row only.                                *)
LEMMA OneRow ==
  ASSUME ref_outcome \in Outcome, NEW k \in KRow, NEW m \in KRow, NEW at \in Nat,
         RowStart(ref_outcome.upto, k) <= at, at < ref_outcome.upto[k],
         RowStart(ref_outcome.upto, m) <= at, at < ref_outcome.upto[m]
  PROVE  k = m
<1>1. ASSUME NEW p \in KRow, NEW q \in KRow, p < q,
             at < ref_outcome.upto[p], RowStart(ref_outcome.upto, q) <= at
      PROVE  FALSE
  <2>1. q - 1 \in KRow /\ p <= q - 1 /\ q # 0
    BY <1>1, Rows DEF KRow
  <2>2. ref_outcome.upto[p] <= ref_outcome.upto[q - 1] /\ ref_outcome.upto[p] \in Nat
        /\ ref_outcome.upto[q - 1] \in Nat
    BY <2>1, OutcomeFacts
  <2>3. RowStart(ref_outcome.upto, q) = ref_outcome.upto[q - 1]
    BY <2>1 DEF RowStart
  <2> QED
    BY <1>1, <2>2, <2>3
<1> QED
  BY <1>1, Rows DEF KRow

InRow(at, k) == RowStart(ref_outcome.upto, k) <= at /\ at < ref_outcome.upto[k]

(* What pack_sig writes for the hint.                                      *)
LEMMA PositionsFacts ==
  ASSUME ref_outcome \in Outcome, NEW at \in Slot
  PROVE  /\ Ref!Positions(ref_outcome.h)[at] \in Position
         /\ \A k \in KRow : InRow(at, k) =>
              Ref!Positions(ref_outcome.h)[at]
                = ref_outcome.h[k][at - RowStart(ref_outcome.upto, k) + 1]
         /\ (\A k \in KRow : ~InRow(at, k)) => Ref!Positions(ref_outcome.h)[at] = 0
<1>1. at \in Nat /\ 0 \in Position
  BY Rows DEF Slot, Position
<1>2. Ref!Positions(ref_outcome.h)[at] =
        IF \E k \in KRow : InRow(at, k)
        THEN LET k == CHOOSE k \in KRow : InRow(at, k)
             IN  ref_outcome.h[k][at - RowStart(ref_outcome.upto, k) + 1]
        ELSE 0
  BY RefOperators, Zenon DEF Ref!Positions, InRow
<1>3. ASSUME NEW k \in KRow, InRow(at, k)
      PROVE 
      /\ Ref!Positions(ref_outcome.h)[at]
                = ref_outcome.h[k][at - RowStart(ref_outcome.upto, k) + 1]
             /\ Ref!Positions(ref_outcome.h)[at] \in Position
  <2> DEFINE m == CHOOSE m \in KRow : InRow(at, m)
  <2>1. m \in KRow /\ InRow(at, m)
    BY <1>3
  <2>2. Ref!Positions(ref_outcome.h)[at]
          = ref_outcome.h[m][at - RowStart(ref_outcome.upto, m) + 1]
    BY <1>2, <1>3
  <2> HIDE DEF m
  <2>3. m = k
    BY <1>1, <1>3, <2>1, OneRow DEF InRow
  <2>4. /\ Len(ref_outcome.h[k]) \in Nat /\ RowStart(ref_outcome.upto, k) \in Nat
        /\ \A i \in 1 .. Len(ref_outcome.h[k]) : ref_outcome.h[k][i] \in Position
        /\ ref_outcome.upto[k] = RowStart(ref_outcome.upto, k) + Len(ref_outcome.h[k])
    BY OutcomeFacts
  <2>5. at - RowStart(ref_outcome.upto, k) + 1 \in 1 .. Len(ref_outcome.h[k])
    BY <1>1, <1>3, <2>4 DEF InRow
  <2> QED
    BY <2>2, <2>3, <2>4, <2>5
<1>4. (\A k \in KRow : ~InRow(at, k)) => Ref!Positions(ref_outcome.h)[at] = 0
  BY <1>2
<1> QED
  BY <1>1, <1>3, <1>4

(* The signature that pack_sig completes is that of the ref_attempt.           *)
LEMMA PackSigFacts ==
  ASSUME RefIInv, Ref!Finish
  PROVE 
  /\ ref_sig' = [c |-> ref_sig'.c, z |-> ref_sig'.z,
                       pos |-> ref_sig'.pos, cnt |-> ref_sig'.cnt]
         /\ ref_sig'.c = WOf(ref_attempt)
         /\ ref_sig'.z = [l \in LRow |-> ZRow(ref_attempt, l)]
         /\ ref_sig'.pos = Ref!Positions(ref_outcome.h)
         /\ ref_sig'.pos \in [Slot -> Position]
         /\ ref_sig'.cnt = ref_outcome.upto
         /\ ref_sig'.cnt \in [KRow -> Count]
<1>1. /\ ref_sig \in SigBuffer /\ ref_outcome \in Outcome /\ ref_pc = "h" /\ Ref!HintFits
      /\ ref_sig' = [ref_sig EXCEPT !.z = ref_z, !.pos = Ref!Positions(ref_outcome.h),
                                !.cnt = ref_outcome.upto]
      /\ ref_sig.c = WOf(ref_attempt) /\ ref_z = [l \in LRow |-> ZRow(ref_attempt, l)]
  BY RefOperators DEF RefIInv, Ref!TypeOK, RefCommitted, RefPassed, Ref!Finish, Ref!PackSig
<1>2. /\ ref_sig' = [c |-> ref_sig'.c, z |-> ref_sig'.z,
                       pos |-> ref_sig'.pos, cnt |-> ref_sig'.cnt]
      /\ ref_sig'.c = ref_sig.c /\ ref_sig'.z = ref_z
         /\ ref_sig'.pos = Ref!Positions(ref_outcome.h)
      /\ ref_sig'.cnt = ref_outcome.upto
  BY <1>1 DEF SigBuffer
<1>3. Ref!Positions(ref_outcome.h) \in [Slot -> Position]
  <2>1. \A at \in Slot : Ref!Positions(ref_outcome.h)[at] \in Position
    BY <1>1, PositionsFacts
  <2>2. Ref!Positions(ref_outcome.h) = [at \in Slot |-> Ref!Positions(ref_outcome.h)[at]]
    BY RefOperators DEF Ref!Positions
  <2> QED
    BY <2>1, <2>2
<1>4. ref_outcome.upto \in [KRow -> Count]
  <2>1. ASSUME NEW k \in KRow
        PROVE  ref_outcome.upto[k] \in Count
    <3>1. K - 1 \in KRow
      BY Rows DEF KRow
    <3>2. ref_outcome.upto[K - 1] \in Nat
      BY <1>1, <3>1, OutcomeFacts
    <3> QED
      BY <1>1, <3>2, HintsFit, Rows DEF Count
  <2>2. ref_outcome.upto = [k \in KRow |-> ref_outcome.upto[k]]
    BY <1>1, Rows DEF EveryOutcome
  <2> QED
    BY <2>1, <2>2
<1> QED
  BY <1>1, <1>2, <1>3, <1>4

LEMMA RefFinishIInv ==
  ASSUME RefIInv, Ref!Finish
  PROVE  RefIInv'
<1>1. WOf(ref_attempt) \in Challenge /\ \A l \in LRow : ZRow(ref_attempt, l) \in ZVal
  BY RefOperators, WOfTyped, KappaInMask DEF RefIInv, Ref!TypeOK, Challenge, ZRow, ZVal, LRow
<1>2. ref_sig' \in SigBuffer
  <2>1. ref_sig'.z \in [LRow -> ZVal \cup {Junk}]
    BY <1>1, PackSigFacts
  <2>2. ref_sig'.pos \in [Slot -> Position \cup {Junk}]
        /\ ref_sig'.cnt \in [KRow -> Count \cup {Junk}]
    BY PackSigFacts
  <2> QED
    BY <1>1, <2>1, <2>2, PackSigFacts DEF SigBuffer
<1>3. Ref!TypeOK'
  BY RefOperators, <1>2 DEF RefIInv, Ref!TypeOK, Ref!Finish
<1> QED
  BY <1>3 DEF RefIInv, Ref!Finish, RefRunning, RefNonceInStep, RefCommitted, RefPassed

LEMMA RefStepIInv ==
  ASSUME RefIInv, [Ref!Next]_Ref!vars
  PROVE  RefIInv'
<1>1. CASE UNCHANGED Ref!vars
  BY RefOperators, <1>1
  DEF RefIInv, Ref!TypeOK, Ref!vars, RefRunning, RefNonceInStep, RefCommitted, RefPassed
<1>2. CASE Ref!Next
  BY <1>2, RefBeginIInv, RefCommitIInv, RefCheckZIInv, RefCheckW0IInv, RefCheckCt0IInv,
     RefTooManyHintsIInv,
     RefFinishIInv
  DEF Ref!Next
<1> QED
  BY <1>1, <1>2

(* The invariant holds throughout crypto_sign_signature of c-ref.          *)
THEOREM RefLoopCorrect == Ref!Spec => []RefIInv
BY RefInitIInv, RefStepIInv, PTL DEF Ref!Spec

(* pack_sig is reached with at most OMEGA hints, and stays within sig.         *)
THEOREM RefTypeCorrect == Ref!Spec => []Ref!TypeOK
<1>1. RefIInv => Ref!TypeOK
  BY DEF RefIInv
<1> QED
  BY <1>1, RefLoopCorrect, PTL

-----------------------------------------------------------------------------
(* The refinement.                                                         *)

LEMMA RefAbstractValues ==
  ASSUME NEW a, NEW l
  PROVE  /\ Ref!Attempt!Kappa(a, l) = Kappa(a, l)
         /\ Ref!Attempt!WOf(a) = WOf(a)
         /\ Ref!Attempt!Answers(a) = Answers(a)
BY DEF Ref!Attempt!WOf, WOf, Ref!Attempt!MasksOf, MasksOf, Ref!Attempt!Kappa, Kappa,
       Ref!Attempt!KRow, KRow, Ref!Attempt!LRow, LRow, Ref!Attempt!Answers, Answers,
       Ref!Attempt!Acceptable, Acceptable

LEMMA RefAbstractAcceptable ==
  ASSUME NEW o
  PROVE  Ref!Attempt!Acceptable(o) <=> Acceptable(o)
BY DEF Ref!Attempt!Acceptable, Acceptable, Ref!Attempt!KRow, KRow

(* An ref_attempt is given up only for a check that its ref_outcome fails.         *)
LEMMA RefRejectRefines ==
  ASSUME RefIInv, Ref!Reject, ~Acceptable(ref_outcome), ref_pc # "done"
  PROVE  Ref!Attempt!Retry
<1>1. ref_attempt' = ref_attempt + 1 /\ ref_outcome' \in Answers(ref_attempt + 1)
      /\ ref_ret' = ref_ret /\ ref_ret = "none"
  BY RefOperators DEF RefIInv, RefRunning, Ref!Reject
<1>2. ref_outcome' \in Ref!Attempt!Answers(ref_attempt')
  BY <1>1, RefAbstractValues
<1>3. ~Ref!Attempt!Acceptable(ref_outcome)
  BY RefAbstractAcceptable
<1> QED
  BY <1>1, <1>2, <1>3 DEF Ref!Attempt!Retry

LEMMA RefFinishRefines ==
  ASSUME RefIInv, Ref!Finish
  PROVE  Ref!Attempt!Accept
<1>1. /\ ref_ret = "none" /\ ref_ret' = "ok" /\ ref_attempt' = ref_attempt
         /\ ref_outcome' = ref_outcome
      /\ ref_pc = "h" /\ Ref!HintFits /\ ref_outcome \in Outcome
  BY RefOperators DEF RefIInv, Ref!TypeOK, RefRunning, Ref!Finish
<1>2. Acceptable(ref_outcome)
  <2>1. \A k \in KRow : ref_outcome.upto[k] <= OMEGA
    <3>1. K - 1 \in KRow
      BY Rows DEF KRow
    <3>2. ref_outcome.upto[K - 1] \in Nat
      BY <1>1, <3>1, OutcomeFacts
    <3> QED
      BY <1>1, <3>2, HintsFit, Rows
  <2> QED
    BY <1>1, <2>1 DEF RefIInv, RefPassed, Acceptable
<1>3. Encodes(ref_sig'.pos, ref_sig'.cnt, ref_outcome.h)
  <2>1. ASSUME NEW k \in KRow
        PROVE  RowEncoded(ref_sig'.pos, ref_sig'.cnt, ref_outcome.h, k)
    <3> DEFINE m == Len(ref_outcome.h[k])  from == RowStart(ref_outcome.upto, k)
    <3>1. m \in Nat /\ from \in Nat /\ ref_outcome.upto[k] = from + m
      BY <1>1, OutcomeFacts
    <3>2. ref_outcome.upto[k] \in Nat /\ ref_outcome.upto[k] <= OMEGA
      BY <1>1, <1>2, OutcomeFacts DEF Acceptable
    <3>3. RowStart(ref_sig'.cnt, k) = from /\ ref_sig'.cnt[k] = from + Len(ref_outcome.h[k])
      BY <3>1, PackSigFacts
    <3>4. ASSUME NEW i \in 1 .. m
          PROVE  ref_sig'.pos[from + i - 1] = ref_outcome.h[k][i]
      <4> DEFINE at == from + i - 1
      <4> HIDE DEF m
      <4>1. at \in Slot /\ from <= at /\ at < ref_outcome.upto[k] /\ at - from + 1 = i
        <5> HIDE DEF from
        <5> QED
          BY <3>1, <3>2, <3>4, Rows DEF Slot
      <4>2. InRow(at, k)
        BY <4>1 DEF InRow
      <4> HIDE DEF at
      <4>3. Ref!Positions(ref_outcome.h)[at] = ref_outcome.h[k][at - from + 1]
        BY <1>1, <4>1, <4>2, PositionsFacts
      <4> QED
        BY <4>1, <4>3, PackSigFacts DEF at
    <3> QED
      BY <3>3, <3>4 DEF RowEncoded
  <2>2. ASSUME NEW at \in Slot, at >= ref_sig'.cnt[K - 1]
        PROVE  ref_sig'.pos[at] = 0
    <3>1. ASSUME NEW k \in KRow, InRow(at, k)
          PROVE  FALSE
      <4>1. K - 1 \in KRow
        BY Rows DEF KRow
      <4>2. ref_outcome.upto[K - 1] \in Nat /\ ref_outcome.upto[k] \in Nat
            /\ ref_outcome.upto[k] <= ref_outcome.upto[K - 1]
        BY <1>1, <4>1, HintsFit, OutcomeFacts
      <4> QED
        BY <2>2, <3>1, <4>2, PackSigFacts, Rows DEF InRow, Slot
    <3> QED
      BY <1>1, <3>1, PositionsFacts, PackSigFacts
  <2> QED
    BY <2>1, <2>2 DEF Encodes
<1>4. ref_sig' \in Ref!Attempt!Signature
  <2>1. /\ Ref!Attempt!LRow = LRow /\ Ref!Attempt!KRow = KRow /\ Ref!Attempt!Slot = Slot
        /\ Ref!Attempt!Position = Position /\ Ref!Attempt!Count = Count
    BY DEF Ref!Attempt!LRow, LRow, Ref!Attempt!KRow, KRow, Ref!Attempt!Slot, Slot,
           Ref!Attempt!Position, Position, Ref!Attempt!Count, Count
  <2>2. [l \in LRow |-> ZRow(ref_attempt, l)]
          = [l \in LRow |-> [c |-> Ref!Attempt!WOf(ref_attempt), s |-> l,
                             y |-> Ref!Attempt!Kappa(ref_attempt, l)]]
    BY RefAbstractValues DEF ZRow
  <2>3. ref_sig'.c = Ref!Attempt!WOf(ref_attempt)
    BY PackSigFacts, RefAbstractValues
  <2> QED
    BY <2>1, <2>2, <2>3, PackSigFacts DEF Ref!Attempt!Signature
<1>5. Ref!Attempt!Encodes(ref_sig'.pos, ref_sig'.cnt, ref_outcome.h)
  BY <1>3 DEF Encodes, Ref!Attempt!Encodes, RowEncoded, Ref!Attempt!RowEncoded, RowStart,
              Ref!Attempt!RowStart, KRow, Ref!Attempt!KRow, Slot, Ref!Attempt!Slot
<1>6. Ref!Attempt!Acceptable(ref_outcome)
  BY <1>2, RefAbstractAcceptable
<1> QED
  BY <1>1, <1>4, <1>5, <1>6 DEF Ref!Attempt!Accept

LEMMA RefStepRefines ==
  ASSUME RefIInv, [Ref!Next]_Ref!vars
  PROVE  [Ref!Attempt!Next]_Ref!Attempt!vars
<1>1. ASSUME Ref!Reject, Ref!CheckZ \/ Ref!CheckW0 \/ Ref!CheckCt0 \/ Ref!TooManyHints,
             ~Acceptable(ref_outcome)
      PROVE  Ref!Attempt!Next
  <2>1. ref_pc # "done"
    BY RefOperators, <1>1 DEF Ref!CheckZ, Ref!CheckW0, Ref!CheckCt0, Ref!TooManyHints
  <2> QED
    BY <1>1, <2>1, RefRejectRefines DEF Ref!Attempt!Next
<1>2. CASE Ref!CheckZ \/ Ref!CheckW0 \/ Ref!CheckCt0
  <2>1. CASE UNCHANGED <<ref_attempt, ref_outcome, ref_sig, ref_ret>>
    BY <2>1 DEF Ref!Attempt!vars
  <2>2. CASE ~(UNCHANGED <<ref_attempt, ref_outcome, ref_sig, ref_ret>>)
    <3>1. Ref!Reject /\ ~Acceptable(ref_outcome)
      BY RefOperators, <1>2, <2>2
      DEF Ref!CheckZ, Ref!CheckW0, Ref!CheckCt0, Ref!Proceed, Acceptable
    <3> QED
      BY <1>1, <1>2, <3>1
  <2> QED
    BY <2>1, <2>2
<1>3. CASE Ref!TooManyHints
  <2>1. K - 1 \in KRow
    BY Rows DEF KRow
  <2>2. Ref!Reject /\ ~Acceptable(ref_outcome)
    BY <1>3, <2>1 DEF Ref!TooManyHints, Ref!HintFits, Acceptable
  <2> QED
    BY <1>1, <1>3, <2>2
<1>4. CASE Ref!Finish
  BY <1>4, RefFinishRefines DEF Ref!Attempt!Next
<1>5. CASE Ref!Refuse
  <2>1. ref_ret = "none" /\ ref_attempt = 0 /\ ref_ret' = "refused"
        /\ UNCHANGED <<ref_attempt, ref_outcome>>
    BY <1>5 DEF RefIInv, RefRunning, Ref!Refuse
  <2> QED
    BY <2>1 DEF Ref!Attempt!Next, Ref!Attempt!Refuse
<1>6. CASE Ref!Begin \/ Ref!SampleAndCommit
  <2>1. ref_ret = "none" /\ UNCHANGED <<ref_attempt, ref_outcome, ref_ret>>
    BY RefOperators, <1>6 DEF RefIInv, RefRunning, Ref!Begin, Ref!SampleAndCommit
  <2> QED
    BY <2>1 DEF Ref!Attempt!vars
<1>7. CASE UNCHANGED Ref!vars
  BY <1>7 DEF Ref!vars, Ref!Attempt!vars
<1> QED
  BY <1>2, <1>3, <1>4, <1>5, <1>6, <1>7 DEF Ref!Next

(* The reference signer implements the abstract loop.                      *)
THEOREM RefRefinement == Ref!Spec => RefImplementsSignLoop
<1>1. Ref!Init => Ref!Attempt!Init
  BY RefOperators, RefAbstractValues DEF Ref!Init, Ref!Attempt!Init
<1> QED
  BY <1>1, RefStepRefines, RefLoopCorrect, PTL
  DEF Ref!Spec, RefImplementsSignLoop, Ref!ImplementsSignLoop, Ref!Attempt!Spec

-----------------------------------------------------------------------------
(* The two signers side by side.                                           *)

(* The low-RAM signer is in the attempt of the reference, or in the one    *)
(* before it, which the reference has rejected.                            *)
Paces ==
  /\ attempt <= ref_attempt /\ ref_attempt <= attempt + 1
  /\ attempt = ref_attempt => outcome = ref_outcome
  /\ attempt # ref_attempt => ~Acceptable(outcome)

(* What the two have returned.                                             *)
Returned ==
  /\ ret = "refused" => ref_ret = "refused" /\ attempt = 0
  /\ ref_ret = "refused" => ref_attempt = 0
  /\ ret = "ok" => ref_ret = "ok" /\ attempt = ref_attempt
  /\ ret = "ok" => siglen = 1 /\ Signed(sig, attempt, outcome)
  /\ ref_ret = "ok" => /\ ref_siglen = 1 /\ Signed(ref_sig, ref_attempt, ref_outcome)
                       /\ Acceptable(ref_outcome)

PairInv ==
  /\ IInv
  /\ RefIInv
  /\ Paces
  /\ Returned

(* The abstract loop accepts with the signature of its attempt.            *)
LEMMA AcceptSigned ==
  ASSUME IInv, Next, ret' = "ok", ret = "none"
  PROVE  /\ Signed(sig', attempt', outcome') /\ Acceptable(outcome) /\ siglen' = 1
         /\ attempt' = attempt /\ outcome' = outcome
<1>1. Finish
  BY DEF Next, Refuse, Begin, ClearW, AddMaskRow, Commit, WriteZRow, RejectZRow, Reject,
         BeginHints, WriteHintRow, RejectHintRow
<1>2. Attempt!Accept
  BY <1>1, FinishRefines
<1>3. attempt' = attempt /\ outcome' = outcome /\ siglen' = 1
  BY <1>1 DEF Finish
<1>4. sig' \in Attempt!Signature /\ Attempt!Encodes(sig'.pos, sig'.cnt, outcome.h)
  BY <1>2 DEF Attempt!Accept
<1>5. sig' \in [c : {WOf(attempt)}, z : {[l \in LRow |-> ZRow(attempt, l)]},
                pos : [Slot -> Position], cnt : [KRow -> Count]]
  <2>1. Attempt!Signature =
          [c : {WOf(attempt)}, z : {[l \in LRow |-> ZRow(attempt, l)]},
           pos : [Slot -> Position], cnt : [KRow -> Count]]
    BY AbstractWOf, AbstractKappa
    DEF Attempt!Signature, ZRow, Attempt!LRow, LRow, Attempt!KRow, KRow, Attempt!Slot, Slot,
        Attempt!Position, Position, Attempt!Count, Count
  <2> QED
    BY <1>4, <2>1
<1>6. Encodes(sig'.pos, sig'.cnt, outcome.h)
  BY <1>4 DEF Encodes, Attempt!Encodes, RowEncoded, Attempt!RowEncoded, RowStart,
              Attempt!RowStart, KRow, Attempt!KRow, Slot, Attempt!Slot
<1>7. Acceptable(outcome)
  BY <1>2, AbstractAcceptable DEF Attempt!Accept
<1> QED
  BY <1>3, <1>5, <1>6, <1>7 DEF Signed

LEMMA RefAcceptSigned ==
  ASSUME RefIInv, Ref!Next, ref_ret' = "ok", ref_ret = "none"
  PROVE  /\ Signed(ref_sig', ref_attempt', ref_outcome') /\ Acceptable(ref_outcome)
         /\ ref_attempt' = ref_attempt /\ ref_outcome' = ref_outcome /\ ref_siglen' = 1
<1>1. Ref!Finish
  BY DEF Ref!Next, Ref!Refuse, Ref!Begin, Ref!SampleAndCommit, Ref!CheckZ, Ref!CheckW0,
         Ref!CheckCt0, Ref!TooManyHints, Ref!Reject, Ref!Proceed
<1>2. Ref!Attempt!Accept
  BY <1>1, RefFinishRefines
<1>3. ref_attempt' = ref_attempt /\ ref_outcome' = ref_outcome /\ ref_siglen' = 1
  BY <1>1 DEF Ref!Finish
<1>4. ref_sig' \in Ref!Attempt!Signature
      /\ Ref!Attempt!Encodes(ref_sig'.pos, ref_sig'.cnt, ref_outcome.h)
  BY <1>2 DEF Ref!Attempt!Accept
<1>5. ref_sig' \in [c : {WOf(ref_attempt)}, z : {[l \in LRow |-> ZRow(ref_attempt, l)]},
                    pos : [Slot -> Position], cnt : [KRow -> Count]]
  <2>1. Ref!Attempt!Signature =
          [c : {WOf(ref_attempt)}, z : {[l \in LRow |-> ZRow(ref_attempt, l)]},
           pos : [Slot -> Position], cnt : [KRow -> Count]]
    BY RefAbstractValues
    DEF Ref!Attempt!Signature, ZRow, Ref!Attempt!LRow, LRow, Ref!Attempt!KRow, KRow,
        Ref!Attempt!Slot, Slot, Ref!Attempt!Position, Position, Ref!Attempt!Count, Count
  <2> QED
    BY <1>4, <2>1
<1>6. Encodes(ref_sig'.pos, ref_sig'.cnt, ref_outcome.h)
  BY <1>4 DEF Encodes, Ref!Attempt!Encodes, RowEncoded, Ref!Attempt!RowEncoded, RowStart,
              Ref!Attempt!RowStart, KRow, Ref!Attempt!KRow, Slot, Ref!Attempt!Slot
<1>7. Acceptable(ref_outcome)
  BY <1>2, RefAbstractAcceptable DEF Ref!Attempt!Accept
<1> QED
  BY <1>3, <1>5, <1>6, <1>7 DEF Signed

(* What a step that does not return does to the attempt.                   *)
LEMMA StepKinds ==
  ASSUME IInv, Next
  PROVE  /\ ret = "none"
         /\ \/ /\ ret' = "refused" /\ attempt = 0
               /\ attempt' = attempt /\ outcome' = outcome
            \/ /\ ret' = "ok"
               /\ attempt' = attempt /\ outcome' = outcome
            \/ /\ ret' = "none" /\ attempt' = attempt /\ outcome' = outcome
            \/ /\ ret' = "none" /\ attempt' = attempt + 1 /\ ~Acceptable(outcome)
<1>1. ret = "none"
  BY DEF IInv, Running, Next, Refuse, Begin, ClearW, AddMaskRow, Commit, WriteZRow, RejectZRow,
         BeginHints, WriteHintRow, RejectHintRow, Finish
<1>2. [Attempt!Next]_Attempt!vars
  BY StepRefines
<1> QED
  BY <1>1, <1>2, AbstractAcceptable
  DEF Attempt!Next, Attempt!Refuse, Attempt!Retry, Attempt!Accept, Attempt!vars

LEMMA RefStepKinds ==
  ASSUME RefIInv, Ref!Next
  PROVE  /\ ref_ret = "none"
         /\ \/ /\ ref_ret' = "refused" /\ ref_attempt = 0
               /\ ref_attempt' = ref_attempt /\ ref_outcome' = ref_outcome
            \/ /\ ref_ret' = "ok"
               /\ ref_attempt' = ref_attempt /\ ref_outcome' = ref_outcome
            \/ /\ ref_ret' = "none"
               /\ ref_attempt' = ref_attempt /\ ref_outcome' = ref_outcome
            \/ /\ ref_ret' = "none" /\ ref_attempt' = ref_attempt + 1
               /\ ~Acceptable(ref_outcome)
<1>1. ref_ret = "none"
  BY DEF RefIInv, RefRunning, Ref!Next, Ref!Refuse, Ref!Begin, Ref!SampleAndCommit, Ref!CheckZ,
         Ref!CheckW0, Ref!CheckCt0, Ref!TooManyHints, Ref!Finish
<1>2. [Ref!Attempt!Next]_Ref!Attempt!vars
  BY RefStepRefines
<1> QED
  BY <1>1, <1>2, RefAbstractAcceptable
  DEF Ref!Attempt!Next, Ref!Attempt!Refuse, Ref!Attempt!Retry, Ref!Attempt!Accept,
      Ref!Attempt!vars

LEMMA PairInitInv ==
  ASSUME PairInit
  PROVE  PairInv
<1>1. IInv /\ RefIInv
  BY InitIInv, RefInitIInv DEF PairInit
<1>2. /\ attempt = 0 /\ ref_attempt = 0 /\ outcome = ref_outcome
      /\ ret = "none" /\ ref_ret = "none"
  BY DEF PairInit, Init, Ref!Init
<1> QED
  BY <1>1, <1>2 DEF PairInv, Paces, Returned

(* The reference runs the attempt the low-RAM signer is waiting for.       *)
LEMMA ReferenceStepInv ==
  ASSUME PairInv, ReferenceStep
  PROVE  PairInv'
<1>1. /\ IInv /\ RefIInv /\ Paces /\ Returned /\ Ref!Next
      /\ attempt = ref_attempt /\ outcome = ref_outcome /\ ref_ret = "none" /\ ret = "none"
      /\ attempt \in Nat /\ ref_attempt \in Nat
  BY RefOperators
  DEF PairInv, Paces, Returned, ReferenceStep, ReferenceAhead, IInv, TypeOK, RefIInv, Ref!TypeOK
<1>2. UNCHANGED <<attempt, outcome, ret, sig, siglen>>
  BY DEF ReferenceStep, vars
<1>3. IInv'
  BY <1>1, StepIInv DEF ReferenceStep
<1>4. RefIInv'
  BY <1>1, RefStepIInv
<1>5. Paces' /\ Returned'
  <2>1. CASE ref_ret' = "ok"
    BY <1>1, <1>2, <2>1, RefAcceptSigned DEF Paces, Returned
  <2>2. CASE ref_ret' # "ok"
    BY <1>1, <1>2, <2>2, RefStepKinds DEF Paces, Returned
  <2> QED
    BY <2>1, <2>2
<1> QED
  BY <1>3, <1>4, <1>5 DEF PairInv

(* The low-RAM signer comes to the verdict of the reference.               *)
LEMMA LowramStepInv ==
  ASSUME PairInv, LowramStep
  PROVE  PairInv'
<1>1. /\ IInv /\ RefIInv /\ Paces /\ Returned /\ Next
      /\ ref_attempt > attempt \/ ref_ret # "none"
      /\ attempt \in Nat /\ ref_attempt \in Nat /\ ref_ret \in {"none", "ok", "refused"}
  BY RefOperators
  DEF PairInv, LowramStep, ReferenceAhead, IInv, TypeOK, RefIInv, Ref!TypeOK
<1>2. /\ UNCHANGED <<ref_attempt, ref_outcome, ref_ret, ref_sig, ref_siglen>>
      /\ ret' = "refused" <=> ref_ret = "refused"
      /\ outcome' = IF attempt' = ref_attempt THEN ref_outcome ELSE outcome
  BY DEF LowramStep, refVars
<1>3. IInv'
  BY <1>1, StepIInv
<1>4. RefIInv'
  BY <1>1, RefStepIInv DEF LowramStep, refVars, Ref!vars
<1>5. Paces' /\ Returned'
  <2>1. CASE ret' = "ok"
    <3>1. /\ Signed(sig', attempt', outcome') /\ Acceptable(outcome) /\ siglen' = 1
          /\ attempt' = attempt /\ outcome' = outcome
      BY <1>1, <2>1, AcceptSigned, StepKinds
    <3>2. attempt = ref_attempt /\ ref_ret = "ok"
      BY <1>1, <1>2, <2>1, <3>1 DEF Paces
    <3> QED
      BY <1>1, <1>2, <2>1, <3>1, <3>2 DEF Paces, Returned
  <2>2. CASE ret' # "ok" /\ attempt' = attempt
    <3>1. outcome' = outcome /\ (ret' = "none" \/ (ret' = "refused" /\ attempt = 0))
      BY <1>1, <2>2, StepKinds
    <3> QED
      BY <1>1, <1>2, <2>2, <3>1 DEF Paces, Returned
  <2>3. CASE ret' # "ok" /\ attempt' # attempt
    <3>1. ret' = "none" /\ attempt' = attempt + 1 /\ ~Acceptable(outcome)
      BY <1>1, <2>3, StepKinds
    <3>2. ref_attempt = attempt + 1
      BY <1>1, <1>2, <3>1 DEF Paces, Returned
    <3> QED
      BY <1>1, <1>2, <3>1, <3>2 DEF Paces, Returned
  <2> QED
    BY <2>1, <2>2, <2>3
<1> QED
  BY <1>3, <1>4, <1>5 DEF PairInv

LEMMA PairStepInv ==
  ASSUME PairInv, [PairNext]_<<vars, refVars>>
  PROVE  PairInv'
<1>1. CASE UNCHANGED <<vars, refVars>>
  <2>1. IInv' /\ RefIInv'
    BY <1>1, StepIInv, RefStepIInv DEF PairInv, refVars, Ref!vars
  <2>2. Paces' /\ Returned'
    BY <1>1 DEF PairInv, Paces, Returned, vars, refVars
  <2> QED
    BY <2>1, <2>2 DEF PairInv
<1> QED
  BY <1>1, ReferenceStepInv, LowramStepInv DEF PairNext

(* The two signers side by side keep the invariants of each, and their     *)
(* paces and returned values together (crypto_sign_signature, twice).      *)
THEOREM PairCorrect == PairSpec => []PairInv
BY PairInitInv, PairStepInv, PTL DEF PairSpec

(* Both signers stay within their buffers, side by side.                   *)
THEOREM BothTypesCorrect == PairSpec => []BothTypeOK
<1>1. PairInv => BothTypeOK
  BY DEF PairInv, IInv, RefIInv, BothTypeOK
<1> QED
  BY <1>1, PairCorrect, PTL

(* For every key, message and outcome of the checks, the low-RAM signer    *)
(* accepts the attempt that the reference accepts and returns the same     *)
(* bytes (crypto_sign_signature of c-ref and of c-lowram).                 *)
THEOREM SignaturesCorrect == PairSpec => []SameSignature
<1>1. PairInv => SameSignature
  <2> SUFFICES ASSUME PairInv
               PROVE  SameSignature
    OBVIOUS
  <2>1. /\ attempt \in Nat /\ ret \in {"none", "ok", "refused"} /\ outcome \in Outcome
    BY DEF PairInv, IInv, TypeOK
  <2>2. ret # "none" => ret = ref_ret /\ attempt = ref_attempt
    BY <2>1 DEF PairInv, Returned
  <2>3. ASSUME ret = "ok"
        PROVE  sig = ref_sig /\ siglen = ref_siglen
    <3>1. /\ Signed(sig, attempt, outcome) /\ siglen = 1 /\ ref_siglen = 1
          /\ Signed(ref_sig, attempt, outcome)
      BY <2>3 DEF PairInv, Paces, Returned
    <3> QED
      BY <2>1, <3>1, SignedUnique
  <2> QED
    BY <2>2, <2>3 DEF PairInv, Paces, SameSignature
<1> QED
  BY <1>1, PairCorrect, PTL

(* Side by side, both signers implement the abstract rejection loop, and   *)
(* the low-RAM signer keeps the properties it has on its own.              *)
THEOREM PairRefinement ==
  PairSpec => /\ ImplementsSignLoop /\ RefImplementsSignLoop
              /\ []FreshMasks /\ []HintPrefixEncoded
<1>1. PairInit => Init /\ Ref!Init
  BY DEF PairInit
<1>2. [PairNext]_<<vars, refVars>> => [Next]_vars /\ [Ref!Next]_Ref!vars
  BY DEF PairNext, ReferenceStep, LowramStep, refVars, Ref!vars
<1> QED
  BY <1>1, <1>2, Refinement, RefRefinement, MasksCorrect, HintsCorrect, PTL
  DEF PairSpec, Spec, Ref!Spec
=============================================================================
