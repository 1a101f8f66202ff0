---------------------------- MODULE IntegerLemmas -----------------------------
(***************************************************************************)
(* Facts about integers that the proofs of several components need:        *)
(* division with remainder (nonces, blocks of a sponge), and induction.    *)
(* The library's induction theorems take a predicate as a parameter; the   *)
(* lemma below gives a least counterexample in a set of numbers instead,   *)
(* and rests on the library's theorem that every non-empty set has a       *)
(* minimal element under a well-founded relation.                          *)
(***************************************************************************)
EXTENDS Integers, Sums, TLAPS, WellFoundedInduction

-----------------------------------------------------------------------------
(* Induction.                                                              *)

LEMMA LeastNatural ==
  ASSUME NEW T \in SUBSET Nat, T # {}
  PROVE  \E x \in T : \A y \in T : x <= y
<1> DEFINE R == OpToRel(<, Nat)
<1>1. IsWellFoundedOn(R, Nat)
  BY NatLessThanWellFounded
<1>2. \A p, q \in Nat : <<p, q>> \in R <=> p < q
  BY DEF OpToRel
<1> HIDE DEF R
<1>3. PICK x \in T : \A y \in T : ~(<<y, x>> \in R)
  BY <1>1, WFMin
<1>4. ASSUME NEW y \in T
      PROVE  x <= y
  <2>1. x \in Nat /\ y \in Nat
    OBVIOUS
  <2>2. ~(y < x)
    BY <1>2, <1>3, <2>1
  <2> QED
    BY <2>1, <2>2
<1> QED
  BY <1>4

(* A function can be defined by recursion over 0 .. N. *)
Follows(f, N, S, base, step) ==
  /\ f \in [0 .. N -> S]
  /\ f[0] = base
  /\ \A k \in 1 .. N : f[k] = step[<<f[k - 1], k>>]

LEMMA RecursiveFunction ==
  ASSUME NEW N, N \in Nat, NEW S, NEW base, base \in S,
         NEW step, step \in [S \X (1 .. N) -> S]
  PROVE  \E f : Follows(f, N, S, base, step)
<1> DEFINE Upto(n) == \E f \in [0 .. n -> S] :
                        f[0] = base /\ \A k \in 1 .. n : f[k] = step[<<f[k - 1], k>>]
           Bad == {n \in 0 .. N : ~Upto(n)}
<1>1. SUFFICES ASSUME Bad # {}
               PROVE  FALSE
  <2>1. ASSUME Bad = {}
        PROVE  Upto(N)
    <3> HIDE DEF Upto
    <3>1. N \in 0 .. N
      OBVIOUS
    <3> QED
      BY <2>1, <3>1
  <2> HIDE DEF Bad
  <2> QED
    BY <1>1, <2>1 DEF Follows
<1>2. Bad \in SUBSET Nat
  OBVIOUS
<1> HIDE DEF Bad
<1>3. PICK x \in Bad : \A y \in Bad : x <= y
  BY <1>1, <1>2, LeastNatural
<1>4. x \in 0 .. N /\ ~Upto(x)
  BY DEF Bad
<1>5. CASE x = 0
  <2> DEFINE f == [k \in 0 .. 0 |-> base]
  <2>1. f \in [0 .. 0 -> S] /\ f[0] = base
    OBVIOUS
  <2> HIDE DEF f
  <2>2. \A k \in 1 .. 0 : f[k] = step[<<f[k - 1], k>>]
    OBVIOUS
  <2>3. Upto(0)
    BY <2>1, <2>2
  <2> QED
    BY <1>4, <1>5, <2>3
<1>6. CASE x # 0
  <2>1. x - 1 \in 0 .. N /\ x \in 1 .. N /\ ~(x <= x - 1)
    BY <1>4, <1>6
  <2>2. Upto(x - 1)
    <3> HIDE DEF Upto
    <3> QED
      BY <1>3, <2>1 DEF Bad
  <2>3. PICK f \in [0 .. x - 1 -> S] :
          f[0] = base /\ \A k \in 1 .. x - 1 : f[k] = step[<<f[k - 1], k>>]
    BY <2>2
  <2> DEFINE last == step[<<f[x - 1], x>>]
             g == [k \in 0 .. x |-> IF k = x THEN last ELSE f[k]]
  <2>4. last \in S
    <3>1. f[x - 1] \in S
      BY <2>1, <2>3
    <3>2. <<f[x - 1], x>> \in S \X (1 .. N)
      BY <2>1, <3>1
    <3> QED
      BY <3>2
  <2>5. g \in [0 .. x -> S]
    <3> HIDE DEF last
    <3> QED
      BY <2>1, <2>3, <2>4
  <2>6. g[0] = base
    BY <1>6, <2>1, <2>3
  <2>7. ASSUME NEW k \in 1 .. x
        PROVE  g[k] = step[<<g[k - 1], k>>]
    <3>1. CASE k = x
      <4>1. g[x] = last /\ g[x - 1] = f[x - 1]
        <5> HIDE DEF last
        <5> QED
          BY <2>1
      <4> QED
        BY <3>1, <4>1
    <3>2. CASE k # x
      <4>1. k \in 1 .. x - 1 /\ g[k] = f[k] /\ g[k - 1] = f[k - 1]
        <5> HIDE DEF last
        <5> QED
          BY <2>1, <3>2
      <4> QED
        BY <2>3, <4>1
    <3> QED
      BY <3>1, <3>2
  <2>8. Upto(x)
    <3> HIDE DEF g
    <3> QED
      BY <2>5, <2>6, <2>7
  <2> QED
    BY <1>4, <2>8
<1> QED
  BY <1>5, <1>6

-----------------------------------------------------------------------------
(* Division with remainder.                                                *)

LEMMA Division ==
  ASSUME NEW m \in Nat \ {0}, NEW x \in Int
  PROVE  /\ x \div m \in Int
         /\ x % m \in 0 .. m - 1
         /\ x = m * (x \div m) + (x % m)
OBVIOUS

LEMMA MultipleBelow ==
  ASSUME NEW m \in Nat \ {0}, NEW d \in Int, -m < m * d, m * d < m
  PROVE  d = 0
OBVIOUS

LEMMA DivisionUnique ==
  ASSUME NEW m \in Nat \ {0}, NEW p \in Int, NEW q \in Int,
         NEW r \in 0 .. m - 1, NEW s \in 0 .. m - 1, m * p + r = m * q + s
  PROVE  p = q /\ r = s
<1>1. m * (p - q) = s - r /\ p - q \in Int
  OBVIOUS
<1>2. p - q = 0
  BY <1>1, MultipleBelow
<1> QED
  BY <1>2

LEMMA RemainderOfSum ==
  ASSUME NEW m \in Nat \ {0}, NEW x \in Int, NEW k \in Int
  PROVE  (x + m * k) % m = x % m
<1> DEFINE z == x + m * k
<1>1. z \in Int /\ x \div m + k \in Int
  BY Division
<1>2. z = m * (x \div m + k) + (x % m)
  BY Division
<1>3. z \div m \in Int /\ z % m \in 0 .. m - 1 /\ z = m * (z \div m) + (z % m)
  BY <1>1, Division
<1> HIDE DEF z
<1>4. x % m \in 0 .. m - 1
  BY Division
<1>5. z % m = x % m
  <2> DEFINE p == z \div m  r == z % m  q == x \div m + k  s == x % m
  <2>1. p \in Int /\ q \in Int /\ r \in 0 .. m - 1 /\ s \in 0 .. m - 1 /\ m * p + r = m * q + s
    BY <1>1, <1>2, <1>3, <1>4
  <2> HIDE DEF p, r, q, s
  <2>2. r = s
    BY <2>1, DivisionUnique
  <2> QED
    BY <2>2 DEF r, s
<1> QED
  BY <1>5 DEF z

LEMMA RemainderOfSmall ==
  ASSUME NEW m \in Nat \ {0}, NEW x \in 0 .. m - 1
  PROVE  x % m = x
OBVIOUS

-----------------------------------------------------------------------------
(* Residues.                                                               *)

Mod(m, x) == x % m

LEMMA ModType ==
  ASSUME NEW m \in Nat \ {0}, NEW x \in Int
  PROVE  Mod(m, x) \in 0 .. m - 1 /\ Mod(m, x) \in Int
BY Division DEF Mod

LEMMA ModOfSmall ==
  ASSUME NEW m \in Nat \ {0}, NEW x \in 0 .. m - 1
  PROVE  Mod(m, x) = x
BY RemainderOfSmall DEF Mod

(* Numbers that differ by a multiple have one residue, and no others.      *)
LEMMA ModShift ==
  ASSUME NEW m \in Nat \ {0}, NEW x \in Int, NEW y \in Int, NEW d \in Int, x = y + m * d
  PROVE  Mod(m, x) = Mod(m, y)
BY RemainderOfSum DEF Mod

LEMMA ModDifference ==
  ASSUME NEW m \in Nat \ {0}, NEW x \in Int, NEW y \in Int, Mod(m, x) = Mod(m, y)
  PROVE  \E d \in Int : x = y + m * d
<1>1. x = m * (x \div m) + Mod(m, x) /\ y = m * (y \div m) + Mod(m, y)
      /\ x \div m \in Int /\ y \div m \in Int /\ Mod(m, x) \in Int /\ Mod(m, y) \in Int
  BY Division DEF Mod
<1> DEFINE d == (x \div m) - (y \div m)
<1>2. d \in Int /\ x = y + m * d
  BY <1>1
<1> QED
  BY <1>2

LEMMA ModOfRemainder ==
  ASSUME NEW m \in Nat \ {0}, NEW x \in Int
  PROVE  Mod(m, x % m) = Mod(m, x)
BY Division, ModOfSmall DEF Mod

LEMMA ModAdd ==
  ASSUME NEW m \in Nat \ {0}, NEW x \in Int, NEW y \in Int, NEW u \in Int, NEW v \in Int,
         Mod(m, x) = Mod(m, u), Mod(m, y) = Mod(m, v)
  PROVE  Mod(m, x + y) = Mod(m, u + v)
<1>1. PICK d \in Int : x = u + m * d
  BY ModDifference
<1>2. PICK e \in Int : y = v + m * e
  BY ModDifference
<1> DEFINE z == x + y  r == u + v  f == d + e
<1>3. z \in Int /\ r \in Int /\ f \in Int /\ z = r + m * f
  BY <1>1, <1>2
<1> HIDE DEF z, r, f
<1>4. Mod(m, z) = Mod(m, r)
  BY ONLY <1>3, ModShift, m \in Nat \ {0}
<1> QED
  BY <1>4 DEF z, r

LEMMA ModSub ==
  ASSUME NEW m \in Nat \ {0}, NEW x \in Int, NEW y \in Int, NEW u \in Int, NEW v \in Int,
         Mod(m, x) = Mod(m, u), Mod(m, y) = Mod(m, v)
  PROVE  Mod(m, x - y) = Mod(m, u - v)
<1>1. PICK d \in Int : x = u + m * d
  BY ModDifference
<1>2. PICK e \in Int : y = v + m * e
  BY ModDifference
<1> DEFINE z == x - y  r == u - v  f == d - e
<1>3. z \in Int /\ r \in Int /\ f \in Int /\ z = r + m * f
  BY <1>1, <1>2
<1> HIDE DEF z, r, f
<1>4. Mod(m, z) = Mod(m, r)
  BY ONLY <1>3, ModShift, m \in Nat \ {0}
<1> QED
  BY <1>4 DEF z, r

LEMMA ModMul ==
  ASSUME NEW m \in Nat \ {0}, NEW x \in Int, NEW y \in Int, NEW u \in Int, NEW v \in Int,
         Mod(m, x) = Mod(m, u), Mod(m, y) = Mod(m, v)
  PROVE  Mod(m, x * y) = Mod(m, u * v)
<1>1. PICK d \in Int : x = u + m * d
  BY ModDifference
<1>2. PICK e \in Int : y = v + m * e
  BY ModDifference
<1> DEFINE z == x * y  r == u * v  f == u * e + d * v + m * (d * e)
<1>3. z \in Int /\ r \in Int /\ f \in Int
  OBVIOUS
<1>4. z = r + m * f
  BY <1>1, <1>2
<1> HIDE DEF z, r, f
<1>5. Mod(m, z) = Mod(m, r)
  BY ONLY <1>3, <1>4, ModShift, m \in Nat \ {0}
<1> QED
  BY <1>5 DEF z, r

LEMMA ModScale ==
  ASSUME NEW m \in Nat \ {0}, NEW s \in Int, NEW u \in Int, NEW v \in Int,
         Mod(m, u) = Mod(m, v)
  PROVE  Mod(m, s * u) = Mod(m, s * v)
BY ModMul, ZenonT(30)

-----------------------------------------------------------------------------
(* Sums and powers.                                                        *)

(* A linear form of congruent values. *)
LEMMA ModLine ==
  ASSUME NEW m \in Nat \ {0}, NEW x \in Int, NEW s \in Int, NEW y \in Int,
         NEW u \in Int, NEW t \in Int, NEW v \in Int,
         Mod(m, x) = Mod(m, u), Mod(m, s) = Mod(m, t), Mod(m, y) = Mod(m, v)
  PROVE  Mod(m, x + s * y) = Mod(m, u + t * v) /\ Mod(m, x - s * y) = Mod(m, u - t * v)
<1>1. Mod(m, s * y) = Mod(m, t * v)
  BY ModMul
<1>2. PICK b \in Int : b = s * y
  OBVIOUS
<1>3. PICK d \in Int : d = t * v
  OBVIOUS
<1>4. Mod(m, b) = Mod(m, d)
  BY <1>1, <1>2, <1>3
<1>5. Mod(m, x + b) = Mod(m, u + d)
  BY ONLY <1>4, Mod(m, x) = Mod(m, u), m \in Nat \ {0}, x \in Int, u \in Int, ModAdd
<1>6. Mod(m, x - b) = Mod(m, u - d)
  BY ONLY <1>4, Mod(m, x) = Mod(m, u), m \in Nat \ {0}, x \in Int, u \in Int, ModSub
<1> QED
  BY <1>2, <1>3, <1>5, <1>6

SameLines(m, x, s, t, y) ==
  Mod(m, x + s * y) = Mod(m, x + t * y) /\ Mod(m, x - s * y) = Mod(m, x - t * y)

LEMMA ModSlope ==
  ASSUME NEW m \in Nat \ {0}, NEW x \in Int, NEW s \in Int, NEW t \in Int, NEW y \in Int,
         Mod(m, s) = Mod(m, t)
  PROVE  SameLines(m, x, s, t, y)
<1>1. PICK u \in Int : u = x
  OBVIOUS
<1>2. PICK v \in Int : v = y
  OBVIOUS
<1>3. Mod(m, x) = Mod(m, u) /\ Mod(m, y) = Mod(m, v)
  BY <1>1, <1>2
<1>4. Mod(m, x + s * y) = Mod(m, u + t * v) /\ Mod(m, x - s * y) = Mod(m, u - t * v)
  BY ONLY <1>3, m \in Nat \ {0}, x \in Int, s \in Int, t \in Int, y \in Int, Mod(m, s) = Mod(m, t),
          ModLine, u \in Int, v \in Int
<1> QED
  BY <1>1, <1>2, <1>4 DEF SameLines

(* Induction over the numbers up to one of them.                           *)
LEMMA UpTo ==
  ASSUME NEW n \in Nat, NEW S, 0 \in S, \A j \in 0 .. n - 1 : j \in S => j + 1 \in S
  PROVE  \A j \in 0 .. n : j \in S
<1> DEFINE Bad == {j \in 0 .. n : j \notin S}
<1>1. SUFFICES ASSUME Bad # {}
               PROVE  FALSE
  OBVIOUS
<1>2. Bad \in SUBSET Nat
  OBVIOUS
<1> HIDE DEF Bad
<1>3. PICK x \in Bad : \A y \in Bad : x <= y
  BY <1>1, <1>2, LeastNatural
<1>4. x \in 0 .. n /\ x \notin S
  BY DEF Bad
<1>5. x # 0 /\ x - 1 \in 0 .. n - 1 /\ x - 1 \in 0 .. n /\ ~(x <= x - 1) /\ (x - 1) + 1 = x
  BY <1>4
<1>6. x - 1 \in S
  BY <1>3, <1>5 DEF Bad
<1> QED
  BY <1>4, <1>5, <1>6

(* The sums of the first terms.                                            *)
Partials(f, n) ==
  CHOOSE sum : sum = [k \in 0 .. n |-> IF k = 0 THEN 0 ELSE sum[k - 1] + f[k - 1]]

LEMMA PartialSums ==
  ASSUME NEW n \in Nat, NEW f \in [0 .. n - 1 -> Int]
  PROVE  /\ SumBelow(f, n) = Partials(f, n)[n]
         /\ SumBelow(f, n) \in Int
         /\ Partials(f, n)[0] = 0
         /\ \A k \in 0 .. n - 1 : Partials(f, n)[k + 1] = Partials(f, n)[k] + f[k]
         /\ \A k \in 0 .. n : Partials(f, n)[k] \in Int
<1> DEFINE step == [x \in Int \X (1 .. n) |-> x[1] + f[x[2] - 1]]
<1>1. step \in [Int \X (1 .. n) -> Int]
  OBVIOUS
<1>2. \A v \in Int, k \in 1 .. n : step[<<v, k>>] = v + f[k - 1]
  OBVIOUS
<1> HIDE DEF step
<1>3. PICK g : Follows(g, n, Int, 0, step)
  <2>1. 0 \in Int
    OBVIOUS
  <2> QED
    BY <1>1, <2>1, RecursiveFunction, Zenon
<1>4. /\ g \in [0 .. n -> Int]
      /\ g[0] = 0 /\ \A k \in 1 .. n : g[k] = step[<<g[k - 1], k>>]
  BY <1>3 DEF Follows
<1>5. g = [k \in 0 .. n |-> IF k = 0 THEN 0 ELSE g[k - 1] + f[k - 1]]
  <2>1. ASSUME NEW k \in 0 .. n, k # 0
        PROVE  g[k] = g[k - 1] + f[k - 1]
    <3>1. k \in 1 .. n /\ g[k - 1] \in Int
      BY <1>4, <2>1
    <3> QED
      BY <1>2, <1>4, <3>1
  <2> QED
    BY <1>4, <2>1
<1> DEFINE p == Partials(f, n)
<1>6. p = [k \in 0 .. n |-> IF k = 0 THEN 0 ELSE p[k - 1] + f[k - 1]]
  BY <1>5, Zenon DEF Partials
<1>7. SumBelow(f, n) = p[n]
  BY Zenon DEF SumBelow, Partials
<1> HIDE DEF p
<1>8. p[0] = 0
  BY <1>6
<1>9. ASSUME NEW k \in 0 .. n - 1
      PROVE  p[k + 1] = p[k] + f[k]
  <2>1. k + 1 \in 0 .. n /\ k + 1 # 0 /\ (k + 1) - 1 = k
    OBVIOUS
  <2> QED
    BY <1>6, <2>1
<1>10. \A k \in 0 .. n : p[k] \in Int
  <2> DEFINE S == {k \in 0 .. n : p[k] \in Int}
  <2>1. 0 \in S
    BY <1>8
  <2>2. \A k \in 0 .. n - 1 : k \in S => k + 1 \in S
    BY <1>9
  <2> HIDE DEF S
  <2>3. \A k \in 0 .. n : k \in S
    BY <2>1, <2>2, UpTo
  <2> QED
    BY <2>3 DEF S
<1> QED
  BY <1>7, <1>8, <1>9, <1>10 DEF p

(* How the terms of sums may be related.                                   *)
PairSums(m, n, o, s, f, x, y) ==
  Mod(m, SumBelow(f, o)) = Mod(m, SumBelow(x, n) + s * SumBelow(y, n))
HalfSums(m, n, o, s, f, g, x) ==
  Mod(m, SumBelow(f, o) + s * SumBelow(g, o)) = Mod(m, SumBelow(x, n))
CombinedSums(m, n, s, f, x, y) ==
  Mod(m, SumBelow(f, n)) = Mod(m, SumBelow(x, n) + s * SumBelow(y, n))
MultipleSums(m, n, s, f, y) == Mod(m, SumBelow(f, n)) = Mod(m, s * SumBelow(y, n))
TermPairs(m, n, s, f, x, y) ==
  \A j \in 0 .. n - 1 : Mod(m, f[2 * j] + f[2 * j + 1]) = Mod(m, x[j] + s * y[j])
TermHalves(m, n, s, f, g, x) ==
  \A j \in 0 .. n - 1 : Mod(m, (f[j] + f[j + n]) + s * (g[j] + g[j + n])) = Mod(m, x[j])
TermLines(m, n, s, f, x, y) == \A j \in 0 .. n - 1 : Mod(m, f[j]) = Mod(m, x[j] + s * y[j])
TermMultiples(m, n, s, f, y) == \A j \in 0 .. n - 1 : Mod(m, f[j]) = Mod(m, s * y[j])
TermsCongruent(m, n, f, x) == \A j \in 0 .. n - 1 : Mod(m, f[j]) = Mod(m, x[j])

(* A sum whose terms are, modulo m, two terms each of a combination of two *)
(* other sums.                                                             *)
LEMMA SumOfPairs ==
  ASSUME NEW m \in Nat \ {0}, NEW n \in Nat, NEW o \in Nat, o = 2 * n, NEW s \in Int,
         NEW f, f \in [0 .. o - 1 -> Int],
         NEW x, x \in [0 .. n - 1 -> Int], NEW y, y \in [0 .. n - 1 -> Int],
         TermPairs(m, n, s, f, x, y)
  PROVE  PairSums(m, n, o, s, f, x, y)
<1> DEFINE F == Partials(f, o)  X == Partials(x, n)  Y == Partials(y, n)
           S == {j \in 0 .. n : Mod(m, F[2 * j]) = Mod(m, X[j] + s * Y[j])}
<1>1. /\ SumBelow(f, o) = F[2 * n] /\ F[0] = 0
      /\ \A j \in 0 .. 2 * n - 1 : F[j + 1] = F[j] + f[j]
      /\ \A j \in 0 .. 2 * n : F[j] \in Int
  <2>1. /\ SumBelow(f, o) = F[o] /\ F[0] = 0
        /\ \A j \in 0 .. o - 1 : F[j + 1] = F[j] + f[j]
        /\ \A j \in 0 .. o : F[j] \in Int
    BY PartialSums
  <2> HIDE DEF F
  <2> QED
    BY <2>1
<1>2. /\ SumBelow(x, n) = X[n] /\ X[0] = 0
      /\ \A j \in 0 .. n - 1 : X[j + 1] = X[j] + x[j]
      /\ \A j \in 0 .. n : X[j] \in Int
  BY PartialSums
<1>3. /\ SumBelow(y, n) = Y[n] /\ Y[0] = 0
      /\ \A j \in 0 .. n - 1 : Y[j + 1] = Y[j] + y[j]
      /\ \A j \in 0 .. n : Y[j] \in Int
  BY PartialSums
<1> HIDE DEF F, X, Y
<1>4. 0 \in S
  BY <1>1, <1>2, <1>3
<1>5. ASSUME NEW j \in 0 .. n - 1, j \in S
      PROVE  j + 1 \in S
  <2>1. /\ F[2 * j] \in Int /\ f[2 * j] \in Int /\ f[2 * j + 1] \in Int
        /\ X[j] \in Int /\ x[j] \in Int /\ Y[j] \in Int /\ y[j] \in Int
    <3>1. 2 * j \in 0 .. 2 * n /\ 2 * j \in 0 .. 2 * n - 1 /\ 2 * j + 1 \in 0 .. 2 * n - 1
          /\ j \in 0 .. n
      OBVIOUS
    <3> QED
      BY <1>1, <1>2, <1>3, <3>1
  <2>2. F[2 * (j + 1)] = F[2 * j] + (f[2 * j] + f[2 * j + 1])
    <3>1. 2 * j \in 0 .. 2 * n - 1 /\ 2 * j + 1 \in 0 .. 2 * n - 1 /\ (2 * j + 1) + 1 = 2 * (j + 1)
      OBVIOUS
    <3>2. F[2 * j + 1] = F[2 * j] + f[2 * j] /\ F[(2 * j + 1) + 1] = F[2 * j + 1] + f[2 * j + 1]
      BY <1>1, <3>1
    <3> QED
      BY <2>1, <3>1, <3>2
  <2> DEFINE p == F[2 * j]  r == f[2 * j] + f[2 * j + 1]
             u == X[j] + s * Y[j]  v == x[j] + s * y[j]
  <2>3. p \in Int /\ r \in Int /\ u \in Int /\ v \in Int
    BY ONLY <2>1, s \in Int
  <2>4. Mod(m, p) = Mod(m, u) /\ Mod(m, r) = Mod(m, v)
    BY <1>5 DEF TermPairs
  <2>5. X[j + 1] + s * Y[j + 1] = u + v
    <3>1. X[j + 1] = X[j] + x[j] /\ Y[j + 1] = Y[j] + y[j]
      BY <1>2, <1>3
    <3> QED
      BY ONLY <2>1, <3>1, s \in Int
  <2>6. F[2 * (j + 1)] = p + r
    BY <2>2
  <2> HIDE DEF p, r, u, v
  <2>7. Mod(m, p + r) = Mod(m, u + v)
    BY ONLY <2>3, <2>4, ModAdd, m \in Nat \ {0}
  <2> QED
    BY <2>5, <2>6, <2>7
<1> HIDE DEF S
<1>6. n \in S
  <2>1. \A j \in 0 .. n : j \in S
    BY <1>4, <1>5, UpTo
  <2> QED
    BY <2>1
<1> QED
  BY <1>1, <1>2, <1>3, <1>6 DEF S, PairSums

(* A combination of two sums, from term j and term j + n of each.          *)
LEMMA SumOfHalves ==
  ASSUME NEW m \in Nat \ {0}, NEW n \in Nat, NEW o \in Nat, o = 2 * n, NEW s \in Int,
         NEW f, f \in [0 .. o - 1 -> Int], NEW g, g \in [0 .. o - 1 -> Int],
         NEW x, x \in [0 .. n - 1 -> Int],
         TermHalves(m, n, s, f, g, x)
  PROVE  HalfSums(m, n, o, s, f, g, x)
<1> DEFINE F == Partials(f, o)  G == Partials(g, o)  X == Partials(x, n)
           Both(j) == (F[j] + (F[j + n] - F[n])) + s * (G[j] + (G[j + n] - G[n]))
           S == {j \in 0 .. n : Mod(m, Both(j)) = Mod(m, X[j])}
<1>1. /\ SumBelow(f, o) = F[2 * n] /\ F[0] = 0
      /\ \A j \in 0 .. 2 * n - 1 : F[j + 1] = F[j] + f[j]
      /\ \A j \in 0 .. 2 * n : F[j] \in Int
  <2>1. /\ SumBelow(f, o) = F[o] /\ F[0] = 0
        /\ \A j \in 0 .. o - 1 : F[j + 1] = F[j] + f[j]
        /\ \A j \in 0 .. o : F[j] \in Int
    BY PartialSums
  <2> HIDE DEF F
  <2> QED
    BY <2>1
<1>2. /\ SumBelow(g, o) = G[2 * n] /\ G[0] = 0
      /\ \A j \in 0 .. 2 * n - 1 : G[j + 1] = G[j] + g[j]
      /\ \A j \in 0 .. 2 * n : G[j] \in Int
  <2>1. /\ SumBelow(g, o) = G[o] /\ G[0] = 0
        /\ \A j \in 0 .. o - 1 : G[j + 1] = G[j] + g[j]
        /\ \A j \in 0 .. o : G[j] \in Int
    BY PartialSums
  <2> HIDE DEF G
  <2> QED
    BY <2>1
<1>3. /\ SumBelow(x, n) = X[n] /\ X[0] = 0
      /\ \A j \in 0 .. n - 1 : X[j + 1] = X[j] + x[j]
      /\ \A j \in 0 .. n : X[j] \in Int
  BY PartialSums
<1> HIDE DEF F, G, X
<1>4. F[n] \in Int /\ G[n] \in Int /\ F[2 * n] \in Int /\ G[2 * n] \in Int
  <2>1. n \in 0 .. 2 * n /\ 2 * n \in 0 .. 2 * n
    OBVIOUS
  <2> QED
    BY <1>1, <1>2, <2>1
<1>5. 0 \in S
  <2>1. Both(0) = 0
    BY <1>1, <1>2, <1>4
  <2> QED
    BY <1>3, <2>1
<1>6. ASSUME NEW j \in 0 .. n - 1, j \in S
      PROVE  j + 1 \in S
  <2>1. /\ F[j] \in Int /\ F[j + n] \in Int /\ f[j] \in Int /\ f[j + n] \in Int
        /\ G[j] \in Int /\ G[j + n] \in Int /\ g[j] \in Int /\ g[j + n] \in Int
        /\ X[j] \in Int /\ x[j] \in Int
    <3>1. j \in 0 .. 2 * n /\ j \in 0 .. 2 * n - 1 /\ j + n \in 0 .. 2 * n - 1
          /\ j + n \in 0 .. 2 * n /\ j \in 0 .. n
      OBVIOUS
    <3> QED
      BY <1>1, <1>2, <1>3, <3>1
  <2>2. F[j + 1] = F[j] + f[j] /\ F[(j + 1) + n] = F[j + n] + f[j + n]
    <3>1. j \in 0 .. 2 * n - 1 /\ j + n \in 0 .. 2 * n - 1 /\ (j + n) + 1 = (j + 1) + n
      OBVIOUS
    <3> QED
      BY <1>1, <3>1
  <2>3. G[j + 1] = G[j] + g[j] /\ G[(j + 1) + n] = G[j + n] + g[j + n]
    <3>1. j \in 0 .. 2 * n - 1 /\ j + n \in 0 .. 2 * n - 1 /\ (j + n) + 1 = (j + 1) + n
      OBVIOUS
    <3> QED
      BY <1>2, <3>1
  <2> DEFINE p == Both(j)  r == (f[j] + f[j + n]) + s * (g[j] + g[j + n])
             u == X[j]  v == x[j]
  <2>4. p \in Int /\ r \in Int /\ u \in Int /\ v \in Int
    BY ONLY <1>4, <2>1, s \in Int
  <2>5. Mod(m, p) = Mod(m, u) /\ Mod(m, r) = Mod(m, v)
    BY <1>6 DEF TermHalves
  <2>6. X[j + 1] = u + v
    BY <1>3
  <2>7. Both(j + 1) = p + r
    BY ONLY <1>4, <2>1, <2>2, <2>3, s \in Int
  <2> HIDE DEF p, r, u, v, Both
  <2>8. Mod(m, p + r) = Mod(m, u + v)
    BY ONLY <2>4, <2>5, ModAdd, m \in Nat \ {0}
  <2> QED
    BY <2>6, <2>7, <2>8
<1> HIDE DEF S
<1>7. n \in S
  <2>1. \A j \in 0 .. n : j \in S
    BY <1>5, <1>6, UpTo
  <2> QED
    BY <2>1
<1>8. Both(n) = F[2 * n] + s * G[2 * n]
  <2>1. n + n = 2 * n
    OBVIOUS
  <2> QED
    BY <1>4, <2>1
<1> QED
  BY <1>1, <1>2, <1>3, <1>7, <1>8 DEF S, HalfSums

(* A sum whose terms are, modulo m, a combination of those of two sums.    *)
LEMMA SumOfCombination ==
  ASSUME NEW m \in Nat \ {0}, NEW n \in Nat, NEW s \in Int,
         NEW f, f \in [0 .. n - 1 -> Int],
         NEW x, x \in [0 .. n - 1 -> Int], NEW y, y \in [0 .. n - 1 -> Int],
         TermLines(m, n, s, f, x, y)
  PROVE  CombinedSums(m, n, s, f, x, y)
<1> DEFINE F == Partials(f, n)  X == Partials(x, n)  Y == Partials(y, n)
           S == {j \in 0 .. n : Mod(m, F[j]) = Mod(m, X[j] + s * Y[j])}
<1>1. /\ SumBelow(f, n) = F[n] /\ F[0] = 0
      /\ \A j \in 0 .. n - 1 : F[j + 1] = F[j] + f[j]
      /\ \A j \in 0 .. n : F[j] \in Int
  BY PartialSums
<1>2. /\ SumBelow(x, n) = X[n] /\ X[0] = 0
      /\ \A j \in 0 .. n - 1 : X[j + 1] = X[j] + x[j]
      /\ \A j \in 0 .. n : X[j] \in Int
  BY PartialSums
<1>3. /\ SumBelow(y, n) = Y[n] /\ Y[0] = 0
      /\ \A j \in 0 .. n - 1 : Y[j + 1] = Y[j] + y[j]
      /\ \A j \in 0 .. n : Y[j] \in Int
  BY PartialSums
<1> HIDE DEF F, X, Y
<1>4. 0 \in S
  BY <1>1, <1>2, <1>3
<1>5. ASSUME NEW j \in 0 .. n - 1, j \in S
      PROVE  j + 1 \in S
  <2>1. /\ F[j] \in Int /\ f[j] \in Int
        /\ X[j] \in Int /\ x[j] \in Int /\ Y[j] \in Int /\ y[j] \in Int
    <3>1. j \in 0 .. n
      OBVIOUS
    <3> QED
      BY <1>1, <1>2, <1>3, <3>1
  <2> DEFINE p == F[j]  r == f[j]
             u == X[j] + s * Y[j]  v == x[j] + s * y[j]
  <2>3. p \in Int /\ r \in Int /\ u \in Int /\ v \in Int
    BY ONLY <2>1, s \in Int
  <2>4. Mod(m, p) = Mod(m, u) /\ Mod(m, r) = Mod(m, v)
    BY <1>5 DEF TermLines
  <2>5. X[j + 1] + s * Y[j + 1] = u + v
    <3>1. X[j + 1] = X[j] + x[j] /\ Y[j + 1] = Y[j] + y[j]
      BY <1>2, <1>3
    <3> QED
      BY ONLY <2>1, <3>1, s \in Int
  <2>6. F[j + 1] = p + r
    BY <1>1
  <2> HIDE DEF p, r, u, v
  <2>7. Mod(m, p + r) = Mod(m, u + v)
    BY ONLY <2>3, <2>4, ModAdd, m \in Nat \ {0}
  <2> QED
    BY <2>5, <2>6, <2>7
<1> HIDE DEF S
<1>6. n \in S
  <2>1. \A j \in 0 .. n : j \in S
    BY <1>4, <1>5, UpTo
  <2> QED
    BY <2>1
<1> QED
  BY <1>1, <1>2, <1>3, <1>6 DEF S, CombinedSums

(* A sum whose terms are, modulo m, multiples of those of another.         *)
LEMMA SumOfMultiples ==
  ASSUME NEW m \in Nat \ {0}, NEW n \in Nat, NEW s \in Int,
         NEW f, f \in [0 .. n - 1 -> Int],
         NEW y, y \in [0 .. n - 1 -> Int],
         TermMultiples(m, n, s, f, y)
  PROVE  MultipleSums(m, n, s, f, y)
<1> DEFINE F == Partials(f, n)  Y == Partials(y, n)
           S == {j \in 0 .. n : Mod(m, F[j]) = Mod(m, s * Y[j])}
<1>1. /\ SumBelow(f, n) = F[n] /\ F[0] = 0
      /\ \A j \in 0 .. n - 1 : F[j + 1] = F[j] + f[j]
      /\ \A j \in 0 .. n : F[j] \in Int
  BY PartialSums
<1>3. /\ SumBelow(y, n) = Y[n] /\ Y[0] = 0
      /\ \A j \in 0 .. n - 1 : Y[j + 1] = Y[j] + y[j]
      /\ \A j \in 0 .. n : Y[j] \in Int
  BY PartialSums
<1> HIDE DEF F, Y
<1>4. 0 \in S
  BY <1>1, <1>3
<1>5. ASSUME NEW j \in 0 .. n - 1, j \in S
      PROVE  j + 1 \in S
  <2>1. /\ F[j] \in Int /\ f[j] \in Int
        /\ Y[j] \in Int /\ y[j] \in Int
    <3>1. j \in 0 .. n
      OBVIOUS
    <3> QED
      BY <1>1, <1>3, <3>1
  <2> DEFINE p == F[j]  r == f[j]
             u == s * Y[j]  v == s * y[j]
  <2>3. p \in Int /\ r \in Int /\ u \in Int /\ v \in Int
    BY ONLY <2>1, s \in Int
  <2>4. Mod(m, p) = Mod(m, u) /\ Mod(m, r) = Mod(m, v)
    BY <1>5 DEF TermMultiples
  <2>5. s * Y[j + 1] = u + v
    <3>1. Y[j + 1] = Y[j] + y[j]
      BY <1>3
    <3> QED
      BY ONLY <2>1, <3>1, s \in Int
  <2>6. F[j + 1] = p + r
    BY <1>1
  <2> HIDE DEF p, r, u, v
  <2>7. Mod(m, p + r) = Mod(m, u + v)
    BY ONLY <2>3, <2>4, ModAdd, m \in Nat \ {0}
  <2> QED
    BY <2>5, <2>6, <2>7
<1> HIDE DEF S
<1>6. n \in S
  <2>1. \A j \in 0 .. n : j \in S
    BY <1>4, <1>5, UpTo
  <2> QED
    BY <2>1
<1> QED
  BY <1>1, <1>3, <1>6 DEF S, MultipleSums

(* Sums whose terms have equal residues.                                   *)
LEMMA SumOfCongruent ==
  ASSUME NEW m \in Nat \ {0}, NEW n \in Nat,
         NEW f, f \in [0 .. n - 1 -> Int], NEW x, x \in [0 .. n - 1 -> Int],
         TermsCongruent(m, n, f, x)
  PROVE  Mod(m, SumBelow(f, n)) = Mod(m, SumBelow(x, n))
<1>1. PICK s \in Int : s = 1
  OBVIOUS
<1>2. TermMultiples(m, n, s, f, x)
  <2>1. \A j \in 0 .. n - 1 : s * x[j] = x[j]
    BY <1>1
  <2> QED
    BY <2>1 DEF TermsCongruent, TermMultiples
<1>3. MultipleSums(m, n, s, f, x)
  BY ONLY <1>2, SumOfMultiples, m \in Nat \ {0}, n \in Nat, s \in Int,
          f \in [0 .. n - 1 -> Int], x \in [0 .. n - 1 -> Int]
<1>4. s * SumBelow(x, n) = SumBelow(x, n)
  <2>1. SumBelow(x, n) \in Int
    BY ONLY n \in Nat, x \in [0 .. n - 1 -> Int], PartialSums
  <2>2. PICK t \in Int : t = SumBelow(x, n)
    BY <2>1
  <2>3. s * t = t
    BY ONLY <1>1, t \in Int
  <2> QED
    BY ONLY <2>2, <2>3
<1> QED
  BY <1>3, <1>4 DEF MultipleSums

-----------------------------------------------------------------------------
(* Powers.                                                                 *)

LEMMA FollowsOnce ==
  ASSUME NEW n \in Nat, NEW o \in Nat, n <= o, NEW S, NEW base, NEW step,
         NEW f, Follows(f, n, S, base, step), NEW g, Follows(g, o, S, base, step)
  PROVE  \A j \in 0 .. n : f[j] = g[j]
<1> DEFINE Same == {j \in 0 .. n : f[j] = g[j]}
<1>1. 0 \in Same
  BY DEF Follows
<1>2. ASSUME NEW j \in 0 .. n - 1, j \in Same
      PROVE  j + 1 \in Same
  <2>1. j + 1 \in 1 .. n /\ j + 1 \in 1 .. o /\ (j + 1) - 1 = j /\ j + 1 \in 0 .. n
    OBVIOUS
  <2>2. f[j + 1] = step[<<f[j], j + 1>>] /\ g[j + 1] = step[<<g[j], j + 1>>]
    BY <2>1 DEF Follows
  <2> QED
    BY <1>2, <2>1, <2>2
<1> HIDE DEF Same
<1>3. \A j \in 0 .. n : j \in Same
  BY <1>1, <1>2, UpTo
<1> QED
  BY <1>3 DEF Same

LEMMA PowerSteps ==
  ASSUME NEW x \in Int, NEW m \in Nat \ {0}, NEW n \in Nat
  PROVE  /\ PowerMod(x, 0, m) = 1
         /\ PowerMod(x, n, m) \in Int
         /\ PowerMod(x, n + 1, m) = (x * PowerMod(x, n, m)) % m
<1> DEFINE Powers(o) == CHOOSE pow : pow = [k \in 0 .. o |-> IF k = 0 THEN 1 ELSE (x * pow[k - 1]) % m]
           step == [p \in Int \X Nat |-> (x * p[1]) % m]
<1>1. step \in [Int \X Nat -> Int]
  BY Division
<1>2. ASSUME NEW o \in Nat
      PROVE  Follows(Powers(o), o, Int, 1, step) /\ PowerMod(x, o, m) = Powers(o)[o]
  <2> DEFINE part == [p \in Int \X (1 .. o) |-> step[p]]
  <2>1. part \in [Int \X (1 .. o) -> Int]
    BY <1>1
  <2>2. \A v \in Int, k \in 1 .. o : part[<<v, k>>] = (x * v) % m /\ step[<<v, k>>] = (x * v) % m
    OBVIOUS
  <2> HIDE DEF part, step
  <2>3. PICK g : Follows(g, o, Int, 1, part)
    <3>1. 1 \in Int
      OBVIOUS
    <3> QED
      BY <2>1, <3>1, RecursiveFunction, Zenon
  <2>4. g \in [0 .. o -> Int] /\ g[0] = 1 /\ \A k \in 1 .. o : g[k] = part[<<g[k - 1], k>>]
    BY <2>3 DEF Follows
  <2>5. \A k \in 1 .. o : g[k] = (x * g[k - 1]) % m
    <3>1. \A k \in 1 .. o : g[k - 1] \in Int
      BY <2>4
    <3> QED
      BY <2>2, <2>4, <3>1
  <2>6. g = [k \in 0 .. o |-> IF k = 0 THEN 1 ELSE (x * g[k - 1]) % m]
    <3>1. \A k \in 0 .. o : k = 0 \/ k \in 1 .. o
      OBVIOUS
    <3> QED
      BY <2>4, <2>5, <3>1, Zenon
  <2> DEFINE h == Powers(o)
  <2>7. h = [k \in 0 .. o |-> IF k = 0 THEN 1 ELSE (x * h[k - 1]) % m]
    BY <2>6, Zenon
  <2>8. PowerMod(x, o, m) = h[o]
    BY Zenon DEF PowerMod
  <2> HIDE DEF h
  <2> DEFINE Typed == {k \in 0 .. o : h[k] \in Int}
  <2>9. h[0] = 1
    BY <2>7
  <2>10. \A k \in 0 .. o - 1 : h[k + 1] = (x * h[k]) % m
    <3>1. \A k \in 0 .. o - 1 : k + 1 \in 0 .. o /\ k + 1 # 0 /\ (k + 1) - 1 = k
      OBVIOUS
    <3>2. \A k \in 0 .. o : k # 0 => h[k] = (x * h[k - 1]) % m
      BY <2>7
    <3> QED
      BY <3>1, <3>2
  <2>11. \A k \in 0 .. o : h[k] \in Int
    <3>1. 0 \in Typed
      BY <2>9
    <3>2. \A k \in 0 .. o - 1 : k \in Typed => k + 1 \in Typed
      <4>1. ASSUME NEW k \in 0 .. o - 1, h[k] \in Int
            PROVE  h[k + 1] \in Int
        <5>1. x * h[k] \in Int
          BY ONLY <4>1, x \in Int
        <5>2. (x * h[k]) % m \in Int
          BY <5>1, Division
        <5> QED
          BY <2>10, <5>2
      <4> QED
        BY <4>1
    <3> HIDE DEF Typed
    <3>3. \A k \in 0 .. o : k \in Typed
      BY <3>1, <3>2, UpTo
    <3> QED
      BY <3>3 DEF Typed
  <2>12. h \in [0 .. o -> Int]
    BY <2>7, <2>11
  <2>13. ASSUME NEW k \in 1 .. o
         PROVE  h[k] = step[<<h[k - 1], k>>]
    <3>1. k - 1 \in 0 .. o - 1 /\ (k - 1) + 1 = k /\ k - 1 \in 0 .. o
      OBVIOUS
    <3> QED
      BY <2>2, <2>10, <2>11, <3>1
  <2> QED
    BY <2>8, <2>9, <2>12, <2>13 DEF Follows, h
<1>3. \A v \in Int, k \in Nat : step[<<v, k>>] = (x * v) % m
  OBVIOUS
<1> HIDE DEF step, Powers
<1>4. PowerMod(x, 0, m) = 1
  <2>1. 0 \in Nat
    OBVIOUS
  <2> QED
    BY <1>2, <2>1 DEF Follows
<1>5. n + 1 \in Nat /\ n <= n + 1 /\ n \in 0 .. n /\ n + 1 \in 1 .. n + 1 /\ (n + 1) - 1 = n
  OBVIOUS
<1>6. Powers(n)[n] = Powers(n + 1)[n]
  <2>1. \A j \in 0 .. n : Powers(n)[j] = Powers(n + 1)[j]
    BY <1>2, <1>5, FollowsOnce
  <2> QED
    BY <1>5, <2>1
<1>7. Powers(n)[n] \in Int
  BY <1>2, <1>5 DEF Follows
<1>8. Powers(n + 1)[n + 1] = step[<<Powers(n + 1)[n], n + 1>>]
  BY <1>2, <1>5 DEF Follows
<1> QED
  BY <1>2, <1>3, <1>4, <1>5, <1>6, <1>7, <1>8

LEMMA PowerOfSum ==
  ASSUME NEW x \in Int, NEW m \in Nat \ {0}, NEW n \in Nat, NEW o \in Nat
  PROVE  Mod(m, PowerMod(x, n + o, m)) = Mod(m, PowerMod(x, n, m) * PowerMod(x, o, m))
<1> DEFINE P(j) == PowerMod(x, j, m)
           S == {j \in 0 .. o : Mod(m, P(n + j)) = Mod(m, P(n) * P(j))}
<1>1. \A j \in Nat : P(j) \in Int /\ P(j + 1) = (x * P(j)) % m /\ P(0) = 1
  BY PowerSteps
<1> HIDE DEF P
<1>2. 0 \in S
  <2>1. n + 0 = n /\ P(n) * P(0) = P(n)
    BY <1>1
  <2> QED
    BY <2>1
<1>3. ASSUME NEW j \in 0 .. o - 1, j \in S
      PROVE  j + 1 \in S
  <2> DEFINE u == P(n + j)  v == P(n)  w == P(j)
  <2>1. u \in Int /\ v \in Int /\ w \in Int /\ P(n + (j + 1)) = (x * u) % m /\ P(j + 1) = (x * w) % m
    <3>1. n + j \in Nat /\ j \in Nat /\ n + (j + 1) = (n + j) + 1
      OBVIOUS
    <3> QED
      BY <1>1, <3>1
  <2>2. Mod(m, u) = Mod(m, v * w)
    BY <1>3
  <2>3. P(n + (j + 1)) = (x * u) % m /\ P(j + 1) = (x * w) % m
    BY <2>1
  <2> HIDE DEF u, w, v
  <2> DEFINE p == x * u  r == x * w
  <2>4. Mod(m, p) = Mod(m, x * (v * w))
    <3>1. v * w \in Int
      BY <2>1
    <3> QED
      BY ONLY <2>1, <2>2, <3>1, ModScale, x \in Int, m \in Nat \ {0}
  <2>5. p \in Int /\ r \in Int
    BY ONLY <2>1, x \in Int
  <2>6. Mod(m, v * (r % m)) = Mod(m, v * r) /\ Mod(m, p % m) = Mod(m, p)
    <3> HIDE DEF p, r
    <3> DEFINE c == r % m
    <3>1. Mod(m, c) = Mod(m, r) /\ Mod(m, p % m) = Mod(m, p)
      BY ONLY <2>5, ModOfRemainder, m \in Nat \ {0}
    <3>2. c \in Int
      BY ONLY <2>5, Division, m \in Nat \ {0}
    <3> HIDE DEF c
    <3>3. v \in Int /\ r \in Int /\ Mod(m, c) = Mod(m, r)
      BY <2>1, <2>5, <3>1
    <3>4. Mod(m, v * c) = Mod(m, v * r)
      BY ONLY <3>2, <3>3, ModScale, m \in Nat \ {0}
    <3> QED
      BY <3>1, <3>4 DEF c
  <2>7. v * (x * w) = x * (v * w)
    BY ONLY <2>1, x \in Int
  <2>8. Mod(m, P(n + (j + 1))) = Mod(m, v * P(j + 1))
    BY <2>3, <2>4, <2>5, <2>6, <2>7
  <2> QED
    BY <2>8 DEF v
<1> HIDE DEF S
<1>4. o \in S
  <2>1. \A j \in 0 .. o : j \in S
    BY <1>2, <1>3, UpTo
  <2> QED
    BY <2>1
<1> QED
  BY <1>4 DEF S, P
=============================================================================
