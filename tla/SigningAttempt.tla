--------------------------- MODULE SigningAttempt ----------------------------
(***************************************************************************)
(* What one attempt of the rejection loop computes, shared by the abstract *)
(* loop (SignLoop) and the two C signers (RefSign, LowramSign).  The       *)
(* polynomials are abstracted to what they were computed from: a mask row  *)
(* y to the 16-bit nonce it was sampled with, a row of w to the masks it   *)
(* adds up, a row of z to the challenge, the key row and the mask in it.   *)
(***************************************************************************)
EXTENDS Integers, Sequences

CONSTANTS
  L, K,         \* rows of y and z, rows of w and of the hint
  N,            \* coefficients of a row
  OMEGA,        \* the most hints a signature can hold
  NonceSpace,   \* 2^16, the values of the uint16_t nonce
  WScratch,     \* the rows of z whose bytes the packed w1 covers in sig
  Outcome,      \* what the oracle may say of an attempt
  MaxAttempts,  \* bound of the model: the last attempt succeeds
  Junk          \* the content of memory nobody has written

LRow == 0 .. L - 1
KRow == 0 .. K - 1
Slot == 0 .. OMEGA - 1     \* the position bytes of the hint section of sig

(* A slip: the attempts advance the nonce by one row only. *)
KappaOneByOne(nonce, l) == (nonce + l) % NonceSpace

(* The nonce of mask row l in the attempt that runs with `nonce`. *)
Kappa(nonce, l) == (L * nonce + l) % NonceSpace

Mask == 0 .. NonceSpace - 1

(* A row of w: the masks summed up in it, and whether c*s2 is subtracted. *)
WRow == [y : SUBSET Mask, minus : 0 .. 1]
WVec == [KRow -> WRow]

(* The challenge is a hash of mu and of (the high bits of) the rows of w. *)
Challenge == WVec

(* A row of z: c * s1[s] + y. *)
ZVal == [c : Challenge, s : LRow, y : Mask]

(* The masks of an attempt, and the w they give. *)
MasksOf(nonce) == {Kappa(nonce, l) : l \in LRow}

WOf(nonce) == [k \in KRow |-> [y |-> MasksOf(nonce), minus |-> 0]]

(***************************************************************************)
(* What the norm checks and the hints of an attempt come to: the rows of z *)
(* beyond their bound, of w - c*s2 with large low bits, of c*t0 beyond     *)
(* theirs, the hint positions of every row in ascending order, and how     *)
(* many there are up to and including that row.                            *)
(***************************************************************************)
HintRow == {s \in UNION {[1 .. n -> 0 .. N - 1] : n \in 0 .. N} :
              \A i, j \in DOMAIN s : i < j => s[i] < s[j]}

EveryOutcome ==
  {o \in [zbad : SUBSET LRow, w0bad : SUBSET KRow, ct0bad : SUBSET KRow,
          h : [KRow -> HintRow], upto : [KRow -> 0 .. K * N]] :
     /\ \A k \in KRow : o.upto[k] = (IF k = 0 THEN 0 ELSE o.upto[k - 1]) + Len(o.h[k])
     /\ \A j, k \in KRow : j <= k => o.upto[j] <= o.upto[k]}

Acceptable(o) ==
  /\ o.zbad = {}
  /\ o.w0bad = {}
  /\ o.ct0bad = {}
  /\ \A k \in KRow : o.upto[k] <= OMEGA

(* The oracle's answers for attempt number a. *)
Answers(a) ==
  IF a < MaxAttempts - 1 THEN Outcome ELSE {o \in Outcome : Acceptable(o)}

ASSUME SigningAttemptAssumption ==
  /\ L \in Nat \ {0}
  /\ K \in Nat \ {0}
  /\ N \in Nat \ {0}
  /\ OMEGA \in Nat
  /\ NonceSpace \in Nat \ {0}
  /\ WScratch \subseteq LRow
  /\ Outcome \subseteq EveryOutcome
  /\ MaxAttempts \in Nat \ {0}

(***************************************************************************)
(* The hint section of a signature: `pos` holds the positions of all rows  *)
(* one after the other, then zeros, and cnt[k] where the row k ends.       *)
(***************************************************************************)
RowStart(cnt, k) == IF k = 0 THEN 0 ELSE cnt[k - 1]

RowEncoded(pos, cnt, h, k) ==
  /\ cnt[k] = RowStart(cnt, k) + Len(h[k])
  /\ \A i \in 1 .. Len(h[k]) : pos[RowStart(cnt, k) + i - 1] = h[k][i]

Encodes(pos, cnt, h) ==
  /\ \A k \in KRow : RowEncoded(pos, cnt, h, k)
  /\ \A i \in Slot : i >= cnt[K - 1] => pos[i] = 0

Position == 0 .. N - 1
Count == 0 .. OMEGA

(* The buffer sig while it is being filled. *)
SigBuffer ==
  [c   : Challenge \cup {Junk},
   z   : [LRow -> ZVal \cup {Junk}],
   pos : [Slot -> Position \cup {Junk}],
   cnt : [KRow -> Count \cup {Junk}]]
=============================================================================
