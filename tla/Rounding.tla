------------------------------- MODULE Rounding -------------------------------
(***************************************************************************)
(* High and low bits of one coefficient and the hint that repairs them, in *)
(* the C reference, in c-lowram, in the contracts and in Python, with the  *)
(* modulus of the code: the arithmetic below is the arithmetic it does.    *)
(* The coefficient w of A*y, the one of c*s2 and the one of c*t0 follow    *)
(* the path of a signing attempt -- commit to the high bits of w, check    *)
(* the low bits of w - c*s2, check c*t0, make the hint -- and of the       *)
(* verifier, who sees w - c*s2 + c*t0 and has to find the high bits of w.  *)
(***************************************************************************)
EXTENDS Integers, Reduction

CONSTANTS
  Gamma2,     \* the rounding ranges: (Q-1)/88 and (Q-1)/32 for the C code
  BetaOf(_),  \* TAU * ETA of the parameter set with that range
  Residue,    \* standard representatives: w, and t in power2round
  Small,      \* values of the coefficients of c*s2 ...
  Large       \* ... and of c*t0, before they are limited to their range

ASSUME RoundingAssumption ==
  /\ Gamma2 \subseteq {(Q - 1) \div 88, (Q - 1) \div 32}
  /\ Residue \subseteq 0..(Q - 1)
  /\ \A g \in Gamma2 : BetaOf(g) \in Nat /\ BetaOf(g) < g
  /\ Small \subseteq Int
  /\ Large \subseteq (-((Q - 1) \div 2))..((Q - 1) \div 2)

-----------------------------------------------------------------------------
Magnitude(a) == IF a < 0 THEN -a ELSE a

(* poly_chknorm of one coefficient: 1, too large, also for a bound that is *)
(* out of range.                                                           *)
ChkNorm(a, B) == B > (Q - 1) \div 8 \/ Magnitude(a) >= B

-----------------------------------------------------------------------------
(* rounding.c, and highbits and lowbits of lowram.c                        *)

Power2Round(a) ==
  LET a1 == (a + 2^(D - 1) - 1) \div 2^D IN <<a1, a - a1 * 2^D>>

(* A slip: the residues next to Q are not folded to 0. *)
HighBitsUnfolded(g, a) ==
  LET c == (a + 127) \div 2^7 IN
  IF g = (Q - 1) \div 32
  THEN (c * 1025 + 2^21) \div 2^22
  ELSE (c * 11275 + 2^23) \div 2^24

HighBits(g, a) ==
  LET c == (a + 127) \div 2^7 IN
  IF g = (Q - 1) \div 32
  THEN ((c * 1025 + 2^21) \div 2^22) % 16
  ELSE LET a1 == (c * 11275 + 2^23) \div 2^24 IN IF a1 > 43 THEN 0 ELSE a1

LowBits(g, a) ==
  LET a0 == a - HighBits(g, a) * 2 * g IN
  IF a0 > (Q - 1) \div 2 THEN a0 - Q ELSE a0

Decompose(g, a) == <<HighBits(g, a), LowBits(g, a)>>

MakeHint(g, a0, a1) == a0 > g \/ a0 < -g \/ (a0 = -g /\ a1 # 0)

UseHint(g, a, hint) ==
  LET a1 == HighBits(g, a)
      m  == (Q - 1) \div (2 * g)
  IN IF ~hint THEN a1
     ELSE IF LowBits(g, a) > 0
     THEN IF a1 = m - 1 THEN 0 ELSE a1 + 1
     ELSE IF a1 = 0 THEN m - 1 ELSE a1 - 1

MakeHintLowram(g, z, r) == HighBits(g, r) # HighBits(g, r + z)

-----------------------------------------------------------------------------
(* ZKNOX_hint.sol and utils.py.  They differ in the range of reduceModPm   *)
(* only by name; their remainders are taken of values that are not         *)
(* negative.                                                               *)

ReduceModPm(x, n) == IF x % n > n \div 2 THEN (x % n) - n ELSE x % n

PyDecompose(g, r) ==
  LET rp == r % Q
      r0 == ReduceModPm(rp, 2 * g)
  IN IF rp - r0 = Q - 1 THEN <<0, r0 - 1>> ELSE <<(rp - r0) \div (2 * g), r0>>

PyPower2Round(a) ==
  LET r0 == ReduceModPm(a % Q, 2^D) IN <<((a % Q) - r0) \div 2^D, r0>>

PyMakeHint(g, z, r) == PyDecompose(g, r)[1] # PyDecompose(g, r + z)[1]

(* A slip: the high parts do not wrap around. *)
PyUseHintUnwrapped(g, hint, r) ==
  LET r1 == PyDecompose(g, r)[1]
  IN IF ~hint THEN r1 ELSE IF PyDecompose(g, r)[2] > 0 THEN r1 + 1 ELSE r1 - 1

PyUseHint(g, hint, r) ==
  LET m == (Q - 1) \div (2 * g)
      r1 == PyDecompose(g, r)[1]
  IN IF ~hint THEN r1
     ELSE IF PyDecompose(g, r)[2] > 0 THEN (r1 + 1) % m ELSE (r1 + m - 1) % m

(* x >> 31 of a negative number is -1, and x ^ -1 is -x - 1. *)
PyNorm(n, b) ==
  LET x == (Q - 1) \div 2 - (n % Q)
      y == IF x < 0 THEN -x - 1 ELSE x
  IN (Q - 1) \div 2 - y >= b

-----------------------------------------------------------------------------
(* The path of one coefficient.                                            *)

VARIABLES
  gamma2, w, cs2, ct0,  \* the inputs
  lift,    \* 0, or Q: what the inverse NTT of c-ref left in c*s2 and c*t0
  at,      \* "commit", "check", "hint", "verify", "done" or "rejected"
  w1, w0,  \* the vectors of c-ref
  wcomp,   \* the coefficient in the 24 bits of c-lowram
  hint     \* the hint of each implementation

inputVars == <<gamma2, w, cs2, ct0, lift>>
roundingVars == <<inputVars, at, w1, w0, wcomp, hint>>

Signer == {"ref", "lowram", "python"}

(* The representative of a in (-Q, Q) that c-ref computes with. *)
Lifted(a) == IF lift = 0 THEN a ELSE IF a > 0 THEN a - Q ELSE IF a < 0 THEN a + Q ELSE 0

RoundingInit ==
  /\ gamma2 \in Gamma2
  /\ w \in Residue
  /\ cs2 \in {a \in Small : Magnitude(a) <= BetaOf(gamma2)}
  /\ ct0 \in Large
  /\ lift \in {0, Q}
  /\ at = "commit"
  /\ w1 = 0 /\ w0 = 0 /\ wcomp = 0
  /\ hint = [s \in Signer |-> FALSE]

(* polyveck_decompose; polyw_pack and poly_highbits. *)
Commit ==
  /\ at = "commit"
  /\ w1' = Decompose(gamma2, w)[1]
  /\ w0' = Decompose(gamma2, w)[2]
  /\ wcomp' = Freeze(w)
  /\ at' = "check"
  /\ UNCHANGED <<inputVars, hint>>

(* w0 - c*s2, reduced, in c-ref; w - c*s2 in the other two. *)
RefRemainder == Reduce32(w0 - Lifted(cs2))
LowramRemainder == Freeze(wcomp - cs2)

RefLowGood == ~ChkNorm(RefRemainder, gamma2 - BetaOf(gamma2))

(* A slip: the low bits are those of w, before c*s2 is subtracted. *)
LowramLowGoodUnsubtracted == ~ChkNorm(Reduce32(LowBits(gamma2, wcomp)), gamma2 - BetaOf(gamma2))

LowramLowGood == ~ChkNorm(Reduce32(LowBits(gamma2, LowramRemainder)), gamma2 - BetaOf(gamma2))
PyLowGood == ~PyNorm(PyDecompose(gamma2, (w - cs2) % Q)[2], gamma2 - BetaOf(gamma2))

CheckLowBits ==
  /\ at = "check"
  /\ w0' = RefRemainder
  /\ wcomp' = LowramRemainder
  /\ at' = IF RefLowGood THEN "hint" ELSE "rejected"
  /\ UNCHANGED <<inputVars, w1, hint>>

RefCt0Good == ~ChkNorm(Reduce32(Lifted(ct0)), gamma2)
LowramCt0Good == ~ChkNorm(ct0, gamma2)
PyCt0Good == ~PyNorm(ct0 % Q, gamma2)

RejectCt0 ==
  /\ at = "hint"
  /\ ~RefCt0Good
  /\ at' = "rejected"
  /\ UNCHANGED <<inputVars, w1, w0, wcomp, hint>>

(* poly_make_hint_lowram does not reduce the sum w - c*s2 + c*t0. *)
Hint ==
  /\ at = "hint"
  /\ RefCt0Good
  /\ w0' = w0 + Reduce32(Lifted(ct0))
  /\ hint' = [ref    |-> MakeHint(gamma2, w0', w1),
              lowram |-> MakeHintLowram(gamma2, -ct0, wcomp + ct0),
              python |-> PyMakeHint(gamma2, (-ct0) % Q, (w - cs2 + ct0) % Q)]
  /\ at' = "verify"
  /\ UNCHANGED <<inputVars, w1, wcomp>>

(* What A*z - c*t1*2^D is for the verifier. *)
Approximation == Freeze(w - cs2 + ct0)

Recovered ==
  [ref |-> UseHint(gamma2, Approximation, hint["ref"]),
   lowram |-> UseHint(gamma2, Approximation, hint["lowram"]),
   python |-> PyUseHint(gamma2, hint["python"], Approximation)]

Verify ==
  /\ at = "verify"
  /\ w1' = Recovered["ref"]
  /\ at' = "done"
  /\ UNCHANGED <<inputVars, w0, wcomp, hint>>

RoundingNext == Commit \/ CheckLowBits \/ RejectCt0 \/ Hint \/ Verify

RoundingSpec == RoundingInit /\ [][RoundingNext]_roundingVars

-----------------------------------------------------------------------------
(* Properties                                                              *)

(* rounding.c, lowram.c, ZKNOX_hint.sol and utils.py split every residue   *)
(* in the same two parts, with the range that the comment of decompose     *)
(* gives, next to 0, to Q and to every boundary between two high parts;    *)
(* and so do the two power2round.                                          *)
DecompositionsAgree ==
  LET r1 == Decompose(gamma2, w)[1]
      r0 == Decompose(gamma2, w)[2]
  IN /\ PyDecompose(gamma2, w) = <<r1, r0>>
     /\ (r1 * 2 * gamma2 + r0) % Q = w
     /\ r0 \in -gamma2..gamma2 /\ (r0 = -gamma2 => r1 = 0)
     /\ r1 \in 0..((Q - 1) \div (2 * gamma2) - 1)
     /\ PyPower2Round(w) = Power2Round(w)

(* c-ref, c-lowram and Python reject the same coefficients, although one   *)
(* of them checks w0 - c*s2 and the others the low bits of w - c*s2, and   *)
(* one of them computes with any representative modulo Q; and those that   *)
(* pass get the same hint, although in c-lowram the sum leaves 0..Q-1.     *)
SignersAgree ==
  /\ at = "check" => (RefLowGood <=> LowramLowGood) /\ (RefLowGood <=> PyLowGood)
  /\ at = "hint" => (RefCt0Good <=> LowramCt0Good) /\ (RefCt0Good <=> PyCt0Good)
  /\ at \in {"verify", "done"} => \A s, t \in Signer : hint[s] = hint[t]

(* The purpose of it all: with the hint, each verifier finds the high bits *)
(* the signer committed to.                                                *)
HintRecovers ==
  at = "verify" => \A s \in Signer : Recovered[s] = w1
=============================================================================
