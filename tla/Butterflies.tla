------------------------------ MODULE Butterflies ------------------------------
(***************************************************************************)
(* The number-theoretic transforms and what they do to the size of the     *)
(* coefficients: ntt and invntt_tomont on 32-bit integers modulo Q, and    *)
(* small_ntt and small_invntt_tomont of c-lowram on 16-bit integers modulo *)
(* 3329.  None of them reduces a sum, so that coefficients grow from layer *)
(* to layer; whether they still fit shows only on the worst of inputs.     *)
(*                                                                         *)
(* A coefficient is represented by a bound on its magnitude, and an        *)
(* operation by the bound it can guarantee for its result.  Lost is the    *)
(* bound of a result that may not be what was computed: it may not fit the *)
(* type, or its operands may be outside what the operation is right for.   *)
(***************************************************************************)
EXTENDS Integers, Reduction

CONSTANT Degree    \* N, the number of coefficients

IntMax == 2147483647     \* of int32_t
SMALL_Q == 3329

Divides(d, n) == \E k \in 0..n : n = k * d

(* The degree is a power of two, and a sum of that many coefficients below *)
(* Q fits 32 bits.                                                         *)
ASSUME DegreeAssumption ==
  /\ Degree \in Nat /\ Degree > 1
  /\ \A d \in 1..(Degree - 1) : Divides(d, Degree) => Divides(2 * d, Degree)
  /\ Degree * (Q - 1) <= IntMax

VARIABLES
  width,    \* the bits of a coefficient: 32, or 16 in c-lowram's products
  bound,    \* for each coefficient, the bound on its magnitude
  loop,     \* the transform that runs: forward, inverse, its scaling, or none
  len, start, j   \* the indices of its loops

loopVars == <<loop, len, start, j>>
butterflyVars == <<width, bound, loopVars>>

Index == 0..(Degree - 1)
Lost == -1

-----------------------------------------------------------------------------
(* The arithmetic of one butterfly                                         *)

Limit == IF width = 16 THEN 32767 ELSE IntMax

(* A sum or a difference, without a reduction. *)
Plus(x, y) ==
  IF x = Lost \/ y = Lost THEN Lost ELSE IF x > Limit - y THEN Lost ELSE x + y

(* Units of 2^16, rounded up. *)
Pieces(x) == x \div 65536 + 1

(* montgomery_reduce of a product a is right for |a| <= 2^31 * Q, and      *)
(* gives (a - t * Q) / 2^32 with |t| <= 2^31.                              *)
Montgomery(x, y) ==
  IF x = Lost \/ y = Lost THEN Lost
  ELSE IF Pieces(x) * Pieces(y) > (Q - 1) \div 2 THEN Lost
  ELSE Pieces(x) * Pieces(y) + (Q + 1) \div 2

(* montgomery_reduce_small is right for every product of two 16-bit        *)
(* integers.                                                               *)
Fqmul(x, y) ==
  IF x = Lost \/ y = Lost THEN Lost ELSE (x * y + 2^15 * SMALL_Q) \div 2^16

(* A product with an entry of zetas or small_zetas, which are centred. *)
TimesZeta(x) ==
  IF width = 16 THEN Fqmul((SMALL_Q - 1) \div 2, x) ELSE Montgomery((Q - 1) \div 2, x)

(* barrett_reduce centres every 16-bit integer. *)
BarrettReduce(a) ==
  LET v == (2^26 + SMALL_Q \div 2) \div SMALL_Q
  IN a - ((v * a + 2^25) \div 2^26) * SMALL_Q

Barrett(x) == IF x = Lost THEN Lost ELSE (SMALL_Q - 1) \div 2

(* The sum of an inverse butterfly: small_invntt_tomont reduces it. *)
Collected(x, y) == IF width = 16 THEN Barrett(Plus(x, y)) ELSE Plus(x, y)

Difference(x, y) == TimesZeta(Plus(x, y))

(* The last loop of an inverse transform, with f = mont^2/256 or /128. *)
Scaled(x) == IF width = 16 THEN Barrett(Fqmul(x, 1441)) ELSE Montgomery(41978, x)

-----------------------------------------------------------------------------
(* The loops: len, start and j                                             *)

NextButterfly ==
  /\ j + 1 < start + len
  /\ j' = j + 1
  /\ UNCHANGED <<loop, len, start>>

NextBlock ==
  /\ j + 1 = start + len
  /\ start + 2 * len < Degree
  /\ start' = start + 2 * len
  /\ j' = start'
  /\ UNCHANGED <<loop, len>>

LastButterfly == j + 1 = start + len /\ start + 2 * len >= Degree

(* small_ntt and its inverse have no layer with len = 1. *)
SmallestLen == IF width = 16 THEN 2 ELSE 1

NextForwardLayer ==
  /\ LastButterfly
  /\ len' = len \div 2
  /\ start' = 0 /\ j' = 0
  /\ loop' = IF len' < SmallestLen THEN "none" ELSE "forward"

NextInverseLayer ==
  /\ LastButterfly
  /\ len' = 2 * len
  /\ start' = 0 /\ j' = 0
  /\ loop' = IF len' < Degree THEN "inverse" ELSE "scale"

EnterForward ==
  /\ loop' = "forward"
  /\ len' = Degree \div 2
  /\ start' = 0 /\ j' = 0

EnterInverse ==
  /\ loop' = "inverse"
  /\ len' = SmallestLen
  /\ start' = 0 /\ j' = 0

(* t = zeta * a[j + len]; a[j + len] = a[j] - t; a[j] = a[j] + t *)
ForwardButterfly ==
  /\ loop = "forward"
  /\ LET t == TimesZeta(bound[j + len])
     IN bound' = [bound EXCEPT ![j] = Plus(@, t), ![j + len] = Plus(bound[j], t)]
  /\ NextButterfly \/ NextBlock \/ NextForwardLayer
  /\ UNCHANGED width

(* t = a[j]; a[j] = t + a[j + len]; a[j + len] = zeta * (t - a[j + len]) *)
InverseButterfly ==
  /\ loop = "inverse"
  /\ bound' = [bound EXCEPT ![j] = Collected(bound[j], bound[j + len]),
                            ![j + len] = Difference(bound[j], bound[j + len])]
  /\ NextButterfly \/ NextBlock \/ NextInverseLayer
  /\ UNCHANGED width

Scale ==
  /\ loop = "scale"
  /\ bound' = [i \in Index |-> Scaled(bound[i])]
  /\ loop' = "none"
  /\ UNCHANGED <<width, len, start, j>>

ButterflyNext == ForwardButterfly \/ InverseButterfly \/ Scale

(***************************************************************************)
(* The inverse transform by itself: invntt_tomont on any coefficients that *)
(* its comment allows, "smaller than Q in absolute value".                 *)
(***************************************************************************)
InverseInit ==
  /\ width = 32
  /\ bound \in [Index -> 0..(Q - 1)]
  /\ loop = "inverse" /\ len = 1 /\ start = 0 /\ j = 0

InverseSpec == InverseInit /\ [][InverseButterfly \/ Scale]_butterflyVars

-----------------------------------------------------------------------------
(* Properties                                                              *)

(* No coefficient may have outgrown its type or the range of an operation, *)
(* whatever the input: the sums that ntt.c, smallntt_3329.c and poly.c     *)
(* leave unreduced are never too many.                                     *)
InRange == \A i \in Index : bound[i] # Lost

(* What invntt_tomont promises of its output. *)
BelowQ == loop = "none" => \A i \in Index : bound[i] < Q
=============================================================================
