------------------------------- MODULE Transforms -------------------------------
(***************************************************************************)
(* Where the signers, the verifiers and the key generations use the        *)
(* transforms: the operations on one polynomial in the order of the code,  *)
(* from the largest coefficients the code admits to the point where the    *)
(* coefficient is split into high and low bits or its norm is checked.     *)
(* What c-ref does for vectors and c-lowram for one row is the same for    *)
(* each polynomial; what is added from other polynomials enters as its     *)
(* bound, or as the bound kept in `factor`.                                *)
(***************************************************************************)
EXTENDS Butterflies, Sequences

CONSTANT ParameterSet   \* [eta, tau, l, gamma1, gamma2] of params.h

ASSUME ParameterSetAssumption ==
  /\ ParameterSet \subseteq [eta : Nat, tau : Nat, l : Nat \ {0}, gamma1 : Nat, gamma2 : Nat]
  /\ \A p \in ParameterSet :
       /\ p.eta <= 16 /\ p.tau <= 60 /\ p.l <= 60
       /\ p.gamma1 <= 2^20 /\ p.gamma2 <= 2^20
       /\ p.tau * p.eta < p.gamma1 /\ p.tau * p.eta <= (SMALL_Q - 1) \div 2

(* small_basemul takes pairs, and small_ntt stops before its last layer. *)
ASSUME PairAssumption == Degree > 2

VARIABLES
  todo,     \* the operations that are left, each with the bound it brings in
  factor    \* the polynomial kept for a later operation

transformVars == <<butterflyVars, todo, factor>>

-----------------------------------------------------------------------------
(* The operations                                                          *)

Do(name, x) == [op |-> name, by |-> x]
Loading(x) == Do("load", x)            \* unpacked, sampled or rounded
Narrowing(x) == Do("narrowed", x)    \* the same, in 16 bits
Times(x) == Do("times", x)          \* poly_pointwise_montgomery
Sum(n) == Do("sum", n)              \* poly_add of n such polynomials
Add(x) == Do("add", x)              \* poly_add and poly_sub
Ntt == Do("ntt", 0)
InvNtt == Do("invntt", 0)
Keep == Do("keep", 0)
TimesKept == Do("times_kept", 0)
AddKept == Do("add_kept", 0)
Basemul == Do("basemul", 0)
Widening(x) == Do("widen", x)
Reduce == Do("reduce", 0)           \* poly_reduce
Canonical == Do("caddq", 0)         \* poly_caddq
Split == Do("split", 0)             \* decompose, power2round, highbits, 24 bits

BETA(p) == p.tau * p.eta

(* A row of t = A * s1 + s2, of crypto_sign_keypair. *)
KeyRow(p) ==
  <<Loading(p.eta), Ntt, Times(Q - 1), Sum(p.l), Reduce, InvNtt, Add(p.eta), Canonical, Split>>

(* A row of w = A * y. *)
CommitRow(p) ==
  <<Loading(p.gamma1), Ntt, Times(Q - 1), Sum(p.l), Reduce, InvNtt, Canonical, Split>>

(* The product with the challenge is not reduced before invntt_tomont. *)
TimesChallenge(x) == <<Loading(1), Ntt, Keep, Loading(x), Ntt, TimesKept, InvNtt>>

(* A row of z, of w0 - c*s2, and of w0 - c*s2 + c*t0. *)
ResponseRow(p) == TimesChallenge(p.eta) \o <<Add(p.gamma1), Reduce>>
LowRow(p) == TimesChallenge(p.eta) \o <<Add(p.gamma2), Reduce>>
HintRow(p) == TimesChallenge(2^(D - 1)) \o <<Reduce, Add(p.gamma2)>>

(* A slip: A*z - c*t1*2^D is not reduced before invntt_tomont. *)
VerifyRowUnreduced(p) ==
  <<Loading(1), Ntt, Keep, Loading(1023 * 2^D), Ntt, TimesKept, Keep,
    Loading(p.gamma1 - BETA(p) - 1), Ntt, Times(Q - 1), Sum(p.l), AddKept,
    InvNtt, Canonical, Split>>

(* A row of A*z - c*t1*2^D. *)
VerifyRow(p) ==
  <<Loading(1), Ntt, Keep, Loading(1023 * 2^D), Ntt, TimesKept, Keep,
    Loading(p.gamma1 - BETA(p) - 1), Ntt, Times(Q - 1), Sum(p.l), AddKept,
    Reduce, InvNtt, Canonical, Split>>

(* c-lowram adds one product at a time to 24 bits (polyw_add_idx), so that *)
(* what it transforms back is below Q already.                             *)
Gathered == <<Times(Q - 1), Add(Q - 1), Reduce, Canonical, Split>>

LowramCommitRow(p) ==
  <<Loading(p.gamma1), Ntt>> \o Gathered \o <<InvNtt, Canonical, Reduce, Canonical, Split>>

(* The verifier computes c*t1*2^D as a sum of tau shifted rows. *)
LowramVerifyRow(p) ==
  <<Loading(p.gamma1 - BETA(p) - 1), Ntt>> \o Gathered
    \o <<Reduce, InvNtt, Reduce, Canonical, Split, Keep,
         Loading(1023 * 2^D), Sum(p.tau), AddKept, Reduce, Canonical, Split>>

LowramTimesChallenge(p) ==
  <<Narrowing(1), Ntt, Keep, Narrowing(p.eta), Ntt, Basemul, InvNtt, Widening(BETA(p))>>

LowramResponseRow(p) == LowramTimesChallenge(p) \o <<Add(p.gamma1), Reduce>>
LowramLowRow(p) == LowramTimesChallenge(p) \o <<Add(Q - 1), Reduce, Canonical, Split>>
LowramHintRow(p) == <<Loading(2^(D - 1)), Sum(p.tau), Add(Q - 1)>>

Programs(p) ==
  {KeyRow(p), CommitRow(p), ResponseRow(p), LowRow(p), HintRow(p), VerifyRow(p),
   LowramCommitRow(p), LowramVerifyRow(p), LowramResponseRow(p), LowramLowRow(p),
   LowramHintRow(p)}

-----------------------------------------------------------------------------
(* One step per operation, and one per butterfly                           *)

TransformInit ==
  /\ todo \in UNION {Programs(p) : p \in ParameterSet}
  /\ width = 32
  /\ bound = [i \in Index |-> 0] /\ factor = bound
  /\ loop = "none" /\ len = 0 /\ start = 0 /\ j = 0

Due(name) ==
  /\ loop = "none"
  /\ todo # <<>> /\ Head(todo).op = name
  /\ todo' = Tail(todo)

By == Head(todo).by

Each(f) == bound' = [i \in Index |-> f[i]]

Loaded ==
  /\ \/ Due("load") /\ width' = 32
     \/ Due("narrowed") /\ width' = 16
  /\ Each([i \in Index |-> By])
  /\ UNCHANGED <<factor, loopVars>>

Kept ==
  /\ Due("keep")
  /\ factor' = bound
  /\ UNCHANGED butterflyVars

(* A sum of n such polynomials: its last partial sum is the largest. *)
Repeated(x, n) == IF x = Lost \/ n * x > Limit THEN Lost ELSE n * x

Pointwise ==
  /\ \/ Due("times") /\ Each([i \in Index |-> Montgomery(bound[i], By)])
     \/ Due("times_kept") /\ Each([i \in Index |-> Montgomery(bound[i], factor[i])])
     \/ Due("sum") /\ Each([i \in Index |-> Repeated(bound[i], By)])
     \/ Due("add") /\ Each([i \in Index |-> Plus(bound[i], By)])
     \/ Due("add_kept") /\ Each([i \in Index |-> Plus(bound[i], factor[i])])
  /\ UNCHANGED <<width, factor, loopVars>>

(* small_basemul: the two coefficients of a pair. *)
Multiplied ==
  /\ Due("basemul")
  /\ Each([i \in Index |->
       LET n == i - (i % 2)
           zeta == (SMALL_Q - 1) \div 2
       IN IF i % 2 = 0
          THEN Plus(Fqmul(Fqmul(factor[n + 1], bound[n + 1]), zeta), Fqmul(factor[n], bound[n]))
          ELSE Plus(Fqmul(factor[n], bound[n + 1]), Fqmul(factor[n + 1], bound[n]))])
  /\ UNCHANGED <<width, factor, loopVars>>

(* The centred residue modulo 3329 is the coefficient of the product, if   *)
(* that cannot be larger.                                                  *)
Widened ==
  /\ Due("widen")
  /\ Each([i \in Index |->
       IF bound[i] = Lost \/ By > (SMALL_Q - 1) \div 2 THEN Lost ELSE By])
  /\ width' = 32
  /\ UNCHANGED <<factor, loopVars>>

(* reduce32 of t * 2^23 + u with |u| <= 2^22 is t * (2^23 - Q) + u.        *)
Reduced(x) ==
  IF x = Lost \/ x > IntMax - 2^22 THEN Lost
  ELSE ((x + 2^22) \div 2^23) * (2^23 - Q) + 2^22

(* caddq adds Q to negative values, splitting is right for standard        *)
(* representatives.                                                        *)
Normalized ==
  /\ \/ Due("reduce") /\ Each([i \in Index |-> Reduced(bound[i])])
     \/ Due("caddq") /\ Each([i \in Index |-> IF bound[i] \in 0..(Q - 1) THEN Q - 1 ELSE bound[i]])
     \/ Due("split") /\ Each([i \in Index |-> IF bound[i] < Q THEN bound[i] ELSE Lost])
  /\ UNCHANGED <<width, factor, loopVars>>

EnterTransform ==
  /\ \/ Due("ntt") /\ EnterForward
     \/ Due("invntt") /\ EnterInverse
  /\ UNCHANGED <<width, bound, factor>>

Butterfly == ButterflyNext /\ UNCHANGED <<todo, factor>>

TransformNext ==
  Loaded \/ Kept \/ Pointwise \/ Multiplied \/ Widened \/ Normalized \/ EnterTransform \/ Butterfly

TransformSpec == TransformInit /\ [][TransformNext]_transformVars
=============================================================================
