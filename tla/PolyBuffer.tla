------------------------------ MODULE PolyBuffer ------------------------------
(***************************************************************************)
(* The product of the challenge c and a secret vector in c-lowram.  One    *)
(* union holds a polynomial of N 32-bit coefficients (tmp0) and, in its    *)
(* lower and upper half, two polynomials of N 16-bit coefficients (stmp0,  *)
(* scp).  c is narrowed from the union into its own upper half, the secret *)
(* is unpacked into the lower half, multiplied there, and the product is   *)
(* widened in place.  The union is a row of 2 * N cells of 16 bits; a cell *)
(* holds the name of the value that the code put there.                    *)
(***************************************************************************)
EXTENDS Integers

CONSTANT N    \* a multiple of 2

ASSUME BufferAssumption == N \in Nat \ {0} /\ N % 2 = 0

VARIABLES
  cell,   \* the union
  step,   \* what runs: one loop after the other
  index   \* the index of its loop

bufferVars == <<cell, step, index>>

Cells == 0..(2 * N - 1)
Lower(i) == i             \* stmp0->coeffs[i]
Upper(i) == N + i         \* scp->coeffs[i]
LowHalf(i) == 2 * i       \* the low 16 bits of tmp0->coeffs[i]
HighHalf(i) == 2 * i + 1

Junk == <<"junk", 0>>

(* poly_challenge_decompress has filled tmp0: small values, whose high     *)
(* halves only repeat the sign.                                            *)
BufferInit ==
  /\ cell = [x \in Cells |-> IF x % 2 = 0 THEN <<"c", x \div 2>> ELSE <<"sign of c", x \div 2>>]
  /\ step = "narrow"
  /\ index = N - 1

(* A slip: the loop runs upwards. *)
NarrowFrom(i) == N - 1 - i

(* for (int i = N - 1; i >= 0; i--) out->coeffs[i] = in->coeffs[i]; *)
NarrowAt(i) == i

Narrow ==
  /\ step = "narrow"
  /\ cell' = [cell EXCEPT ![Upper(NarrowAt(index))] = cell[LowHalf(NarrowAt(index))]]
  /\ index' = IF index = 0 THEN N - 1 ELSE index - 1
  /\ step' = IF index = 0 THEN "transform c" ELSE step

(* A transform of a half: its results are right when all inputs were.      *)
Transformed(from, to, place(_)) ==
  LET good == \A i \in 0..(N - 1) : cell[place(i)] = <<from, i>>
  IN [x \in Cells |->
       IF \E i \in 0..(N - 1) : place(i) = x
       THEN IF good THEN <<to, CHOOSE i \in 0..(N - 1) : place(i) = x>> ELSE Junk
       ELSE cell[x]]

(* small_ntt(out->coeffs), at the end of poly_small_ntt_copy. *)
TransformChallenge ==
  /\ step = "transform c"
  /\ cell' = Transformed("c", "chat", Upper)
  /\ step' = "unpack s"
  /\ UNCHANGED index

(* unpack_sk_s1 or unpack_sk_s2, then small_ntt(stmp0->coeffs). *)
UnpackSecret ==
  /\ step = "unpack s"
  /\ cell' = [x \in Cells |-> IF x < N THEN <<"shat", x>> ELSE cell[x]]
  /\ index' = 0
  /\ step' = "multiply"

(* small_basemul keeps a[0], a[1] and b[0] in local variables, since r is  *)
(* b; b[1] is read before r[1] is written.                                 *)
Factors(pair) ==
  [a |-> cell[Upper(pair)], a1 |-> cell[Upper(pair + 1)],
   b |-> cell[Lower(pair)], b1 |-> cell[Lower(pair + 1)]]

(* poly_small_basemul: the two coefficients of a pair depend on all four   *)
(* factors.                                                                *)
Multiply ==
  /\ step = "multiply"
  /\ LET f == Factors(index)
         good == f = [a |-> <<"chat", index>>, a1 |-> <<"chat", index + 1>>,
                      b |-> <<"shat", index>>, b1 |-> <<"shat", index + 1>>]
     IN cell' = [cell EXCEPT ![Lower(index)] = IF good THEN <<"prod", index>> ELSE Junk,
                             ![Lower(index + 1)] = IF good THEN <<"prod", index + 1>> ELSE Junk]
  /\ index' = index + 2
  /\ step' = IF index + 2 = N THEN "invert" ELSE step

(* small_invntt_tomont(tmp->coeffs). *)
Invert ==
  /\ step = "invert"
  /\ cell' = Transformed("prod", "p", Lower)
  /\ index' = N - 1
  /\ step' = "widen"

(* r->coeffs[j] = tmp->coeffs[j], with its sign, from the last to the      *)
(* first.                                                                  *)
Widen ==
  /\ step = "widen"
  /\ LET v == cell[Lower(index)]
     IN cell' = [cell EXCEPT ![HighHalf(index)] = <<"sign of p", v[2]>>, ![LowHalf(index)] = v]
  /\ index' = IF index = 0 THEN 0 ELSE index - 1
  /\ step' = IF index = 0 THEN "done" ELSE step

BufferNext == Narrow \/ TransformChallenge \/ UnpackSecret \/ Multiply \/ Invert \/ Widen

BufferSpec == BufferInit /\ [][BufferNext]_bufferVars

-----------------------------------------------------------------------------
(* The union ends with the product in every coefficient of tmp0, although  *)
(* source and destination of three loops overlap.                          *)
ProductInPlace ==
  step = "done" =>
    \A i \in 0..(N - 1) :
      cell[LowHalf(i)] = <<"p", i>> /\ cell[HighHalf(i)] = <<"sign of p", i>>
=============================================================================
