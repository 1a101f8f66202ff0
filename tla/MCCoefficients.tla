---------------------------- MODULE MCCoefficients ----------------------------
(***************************************************************************)
(* One coefficient on the path of a signature, one polynomial on its way   *)
(* to bytes and back, one product in the union of c-lowram, or one         *)
(* polynomial through the transforms: a behaviour does one of the four.    *)
(* Residues, c*s2 and c*t0 lie at and next to every bound the code         *)
(* compares with, for all high parts that matter.                          *)
(***************************************************************************)
EXTENDS Rounding, BitPacking, PolyBuffer, Transforms

VARIABLE part

vars == <<part, roundingVars, packingVars, bufferVars, transformVars>>

MCGamma2 == {(Q - 1) \div 88, (Q - 1) \div 32}
MCBeta(range) == IF range = (Q - 1) \div 88 THEN 78 ELSE 196
Bounds(range) ==
  {-range - 1, -range, -range + MCBeta(range) - 1, -range + MCBeta(range), -1, 0, 1,
   range - MCBeta(range), range - MCBeta(range) + 1, range - 1, range, range + 1}
MCResidue ==
  {r \in UNION {{2 * range * high + low : low \in Bounds(range), high \in {0, 1, 15, 16, 43, 44}}
                  : range \in MCGamma2} : r \in 0..(Q - 1)}
MCSmall == {-196, -78, -77, -1, 0, 1, 77, 78, 196}
MCLarge ==
  UNION {{-range, -range + 1, -range + MCBeta(range), range, range - 1, range - 2 * MCBeta(range)}
           : range \in MCGamma2} \cup {-1, 0, 1}
MCFormat == DOMAIN Formats
MCValue(f) ==
  LET range == Formats[f]
  IN {range.low, range.low + 1, 0, 1, range.high - 1, range.high}

(* Levels 2, 3 and 5 of params.h, with all coefficients. *)
MCParameterSet ==
  {[eta |-> 2, tau |-> 39, l |-> 4, gamma1 |-> 2^17, gamma2 |-> (Q - 1) \div 88],
   [eta |-> 4, tau |-> 49, l |-> 5, gamma1 |-> 2^19, gamma2 |-> (Q - 1) \div 32],
   [eta |-> 2, tau |-> 60, l |-> 7, gamma1 |-> 2^19, gamma2 |-> (Q - 1) \div 32]}

RoundingIdle ==
  /\ gamma2 = (Q - 1) \div 88 /\ w = 0 /\ cs2 = 0 /\ ct0 = 0 /\ lift = 0 /\ at = "rejected"
  /\ w1 = 0 /\ w0 = 0 /\ wcomp = 0 /\ hint = [s \in Signer |-> FALSE]
PackingIdle == PackingInit /\ format = "t1" /\ coeff = 0

TransformIdle ==
  /\ todo = <<>>
  /\ width = 32
  /\ bound = [i \in Index |-> 0] /\ factor = bound
  /\ loop = "none" /\ len = 0 /\ start = 0 /\ j = 0

Init ==
  \/ part = "rounding" /\ RoundingInit /\ PackingIdle /\ BufferInit /\ TransformIdle
  \/ part = "packing" /\ RoundingIdle /\ PackingInit /\ BufferInit /\ TransformIdle
  \/ part = "buffer" /\ RoundingIdle /\ PackingIdle /\ BufferInit /\ TransformIdle
  \/ part = "transform" /\ RoundingIdle /\ PackingIdle /\ BufferInit /\ TransformInit

Next ==
  /\ \/ /\ part = "rounding" /\ RoundingNext
        /\ UNCHANGED <<packingVars, bufferVars, transformVars>>
     \/ /\ part = "packing" /\ PackingNext
        /\ UNCHANGED <<roundingVars, bufferVars, transformVars>>
     \/ /\ part = "buffer" /\ BufferNext
        /\ UNCHANGED <<roundingVars, packingVars, transformVars>>
     \/ /\ part = "transform" /\ TransformNext
        /\ UNCHANGED <<roundingVars, packingVars, bufferVars>>
  /\ UNCHANGED part

Spec == Init /\ [][Next]_vars

(* The coefficient of w fits the 24 bits c-lowram keeps of it, and is      *)
(* never negative; the stages and indices are those of the code.           *)
TypeOK ==
  /\ part \in {"rounding", "packing", "buffer", "transform"}
  /\ at \in {"commit", "check", "hint", "verify", "done", "rejected"}
  /\ wcomp \in 0..(Q - 1)
  /\ w1 \in 0..43 /\ w0 \in (1 - Q)..(Q - 1)
  /\ hint \in [Signer -> BOOLEAN]
  /\ stage \in {"coeffs", "bytes", "inplace", "stored", "read"}
  /\ stage = "inplace" => DOMAIN mem = Buffer /\ pc[1] \in 0..(InPlaceGroups - 1)
  /\ index \in 0..N
=============================================================================
