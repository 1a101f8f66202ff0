--------------------------------- MODULE Sums ---------------------------------
(***************************************************************************)
(* Sums and powers as recursive functions, in the form the proofs need:    *)
(* the community modules' folds choose the next element of a set, and a    *)
(* sum over 0 .. n - 1 in order has its last term in sight.                *)
(***************************************************************************)
EXTENDS Integers

(* f[0] + ... + f[n - 1] *)
SumBelow(f, n) ==
  LET sum[k \in 0..n] == IF k = 0 THEN 0 ELSE sum[k - 1] + f[k - 1] IN sum[n]

(* The n-th power of x, reduced modulo m on the way. *)
PowerMod(x, n, m) ==
  LET pow[k \in 0..n] == IF k = 0 THEN 1 ELSE (x * pow[k - 1]) % m IN pow[n]
=============================================================================
