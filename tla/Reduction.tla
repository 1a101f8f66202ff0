------------------------------- MODULE Reduction -------------------------------
(***************************************************************************)
(* The modulus and the reductions of one coefficient (reduce.c), on the    *)
(* integers that fit their types.  An arithmetic shift to the right is a   *)
(* division that rounds down.                                              *)
(***************************************************************************)
EXTENDS Integers

Q == 8380417
D == 13

Reduce32(a) == a - ((a + 2^22) \div 2^23) * Q

(* A slip: negative values are left as they are. *)
CaddqNever(a) == a

Caddq(a) == IF a < 0 THEN a + Q ELSE a

Freeze(a) == Caddq(Reduce32(a))
=============================================================================
