--------------------------- MODULE CoefficientsProofs ---------------------------
(***************************************************************************)
(* What becomes of a coefficient: it is split into high and low bits and   *)
(* repaired by a hint (Rounding), it is one of a product in the union of   *)
(* c-lowram (PolyBuffer), it grows in the transforms and in what their     *)
(* callers add between them (Butterflies and Transforms), and it becomes   *)
(* bits of a string of bytes and is read from them (BitPacking).  Each     *)
(* part has its own specification, its own invariant and its own theorems. *)
(***************************************************************************)
EXTENDS MCCoefficients, IntegerLemmas

-----------------------------------------------------------------------------
(***************************************************************************)
(* Rounding, with the modulus and the two rounding ranges of the code, for *)
(* every coefficient of w, c*s2 and c*t0.  The arithmetic is linear once   *)
(* the range is known, and Splits is the one fact about it that the rest   *)
(* needs: a residue has one high and one low part, so that whoever finds   *)
(* parts finds the same.                                                   *)
(***************************************************************************)
(* The number of high parts, and what a high part h and a low part l are:   *)
(* only the high part 0 has a low part -g, of the residues next to Q.       *)
Top(g) == (Q - 1) \div (2 * g)
Part(g, h, l) ==
  /\ h \in Int /\ 0 <= h /\ h < Top(g)
  /\ l \in Int /\ -g <= l /\ l <= g
  /\ l = -g => h = 0

LEMMA Ranges == \A g \in Gamma2 : g = 95232 \/ g = 261888
<1>1. Q - 1 = 8380416
  BY SMT DEF Q
<1>2. 8380416 \div 88 = 95232 /\ 8380416 \div 32 = 261888
  BY SMT
<1>3. Gamma2 \subseteq {95232, 261888}
  BY SMT, <1>1, <1>2, RoundingAssumption
<1> QED
  BY <1>3

LEMMA Tops == Top(95232) = 44 /\ Top(261888) = 16 /\ Q = 8380417
<1>1. Q - 1 = 8380416
  BY SMT DEF Q
<1>2. 8380416 \div (2 * 95232) = 44 /\ 8380416 \div (2 * 261888) = 16
  BY SMT
<1> QED
  BY SMT, <1>1, <1>2 DEF Top, Q

(* h and l are the parts of a modulo Q. *)
Splits(g, a, h, l) == Part(g, h, l) /\ \E e \in Int : a = 2 * g * h + l + e * Q

LEMMA SplitsUnique ==
  ASSUME NEW g \in Gamma2, NEW a \in Int, NEW h, NEW l, NEW i, NEW m,
         Splits(g, a, h, l), Splits(g, a, i, m)
  PROVE  h = i /\ l = m
<1>1. Part(g, h, l) /\ Part(g, i, m)
  BY DEF Splits
<1>2. PICK e \in Int : a = 2 * g * h + l + e * Q
  BY DEF Splits
<1>3. PICK f \in Int : a = 2 * g * i + m + f * Q
  BY DEF Splits
<1>4. CASE g = 95232
  BY SMT, <1>1, <1>2, <1>3, <1>4, Tops DEF Part
<1>5. CASE g = 261888
  BY SMT, <1>1, <1>2, <1>3, <1>5, Tops DEF Part
<1> QED
  BY <1>4, <1>5, Ranges

(* decompose multiplies by an approximation of 1/(2g).  c is a in units of *)
(* 128, and k the nearest multiple of 2g: the error of the approximation   *)
(* is too small to lead to another one.                                    *)
LEMMA High44 ==
  ASSUME NEW a \in Int, -95231 <= a, a <= 8475648, NEW c \in Int, NEW k \in Int,
         c = (a + 127) \div 128,
         k = (c * 11275 + 8388608) \div 16777216
  PROVE  0 <= k /\ k <= 44 /\ -95232 < a - 190464 * k /\ a - 190464 * k <= 95232
<1>1. 128 * c <= a + 127 /\ a <= 128 * c
  BY SMT
<1>2. 16777216 * k <= 11275 * c + 8388608 /\ 11275 * c < 16777216 * k + 8388608
  BY SMT
<1>a. 0 <= k /\ k <= 44
  BY SMT, <1>1, <1>2
<1>3. PICK d \in Int : d = c - 1488 * k
  BY SMT
<1>4. -744 <= d /\ d <= 744 /\ (k > 0 => -743 <= d)
  BY SMT, <1>2, <1>3, <1>a
<1> QED
  BY SMT, <1>1, <1>3, <1>4, <1>a

LEMMA High16 ==
  ASSUME NEW a \in Int, -261887 <= a, a <= 8642304, NEW c \in Int, NEW k \in Int,
         c = (a + 127) \div 128,
         k = (c * 1025 + 2097152) \div 4194304
  PROVE  0 <= k /\ k <= 16 /\ -261888 < a - 523776 * k /\ a - 523776 * k <= 261888
<1>1. 128 * c <= a + 127 /\ a <= 128 * c
  BY SMT
<1>2. 4194304 * k <= 1025 * c + 2097152 /\ 1025 * c < 4194304 * k + 2097152
  BY SMT
<1>a. 0 <= k /\ k <= 16
  BY SMT, <1>1, <1>2
<1>3. PICK d \in Int : d = c - 4092 * k
  BY SMT
<1>4. -2046 <= d /\ d <= 2046 /\ (k > 0 => -2045 <= d)
  BY SMT, <1>2, <1>3, <1>a
<1> QED
  BY SMT, <1>1, <1>3, <1>4, <1>a

LEMMA QNat == Q \in Nat \ {0}
BY SMT, Tops

LEMMA Powers == 2^7 = 128 /\ 2^21 = 2097152 /\ 2^22 = 4194304 /\ 2^23 = 8388608 /\ 2^24 = 16777216
BY SMT

LEMMA HighBits44 ==
  ASSUME NEW a \in Int, -95232 < a, a < 8475649
  PROVE  \E k \in Int : /\ 0 <= k /\ k <= 44
                        /\ -95232 < a - 190464 * k /\ a - 190464 * k <= 95232
                        /\ HighBits(95232, a) = IF k = 44 THEN 0 ELSE k
<1>1. PICK c \in Int : c = (a + 127) \div 128
  BY SMT
<1>2. PICK k \in Int : k = (c * 11275 + 8388608) \div 16777216
  BY SMT
<1>3. 0 <= k /\ k <= 44 /\ -95232 < a - 190464 * k /\ a - 190464 * k <= 95232
  BY SMT, <1>1, <1>2, High44
<1>4. 95232 # (Q - 1) \div 32
  BY SMT DEF Q
<1>5. HighBits(95232, a) = IF k > 43 THEN 0 ELSE k
  BY SMT, <1>1, <1>2, <1>4, Powers DEF HighBits
<1> QED
  BY SMT, <1>3, <1>5

LEMMA HighBits16 ==
  ASSUME NEW a \in Int, -261888 < a, a < 8642305
  PROVE  \E k \in Int : /\ 0 <= k /\ k <= 16
                        /\ -261888 < a - 523776 * k /\ a - 523776 * k <= 261888
                        /\ HighBits(261888, a) = IF k = 16 THEN 0 ELSE k
<1>1. PICK c \in Int : c = (a + 127) \div 128
  BY SMT
<1>2. PICK k \in Int : k = (c * 1025 + 2097152) \div 4194304
  BY SMT
<1>3. 0 <= k /\ k <= 16 /\ -261888 < a - 523776 * k /\ a - 523776 * k <= 261888
  BY SMT, <1>1, <1>2, High16
<1>4. 261888 = (Q - 1) \div 32
  BY SMT DEF Q
<1>5. HighBits(261888, a) = k % 16
  BY SMT, <1>1, <1>2, <1>4, Powers DEF HighBits
<1> QED
  BY SMT, <1>3, <1>5

(* highbits is right a step beyond both ends of 0..Q-1 as well: c-lowram   *)
(* hands it a sum that it did not reduce.                                  *)
LEMMA HighPart ==
  ASSUME NEW g \in Gamma2, NEW a \in Int, -g < a, a < Q + g
  PROVE  \E l \in Int, e \in 0..1 :
           Part(g, HighBits(g, a), l) /\ a = 2 * g * HighBits(g, a) + l + e * Q
<1>1. CASE g = 95232
  <2>1. PICK k \in Int : /\ 0 <= k /\ k <= 44
                         /\ -95232 < a - 190464 * k /\ a - 190464 * k <= 95232
                         /\ HighBits(95232, a) = IF k = 44 THEN 0 ELSE k
    BY SMT, <1>1, HighBits44, Tops
  <2>2. CASE k = 44
    <3>1. PICK l \in Int : l = a - Q
      BY SMT, Tops
    <3>2. Part(g, HighBits(g, a), l) /\ a = 2 * g * HighBits(g, a) + l + 1 * Q
      BY SMT, <1>1, <2>1, <2>2, <3>1, Tops DEF Part
    <3> QED
      BY <3>2
  <2>3. CASE k # 44
    <3>1. PICK l \in Int : l = a - 190464 * k
      BY SMT
    <3>2. Part(g, HighBits(g, a), l) /\ a = 2 * g * HighBits(g, a) + l + 0 * Q
      BY SMT, <1>1, <2>1, <2>3, <3>1, Tops DEF Part
    <3> QED
      BY <3>2
  <2> QED
    BY <2>2, <2>3
<1>2. CASE g = 261888
  <2>1. PICK k \in Int : /\ 0 <= k /\ k <= 16
                         /\ -261888 < a - 523776 * k /\ a - 523776 * k <= 261888
                         /\ HighBits(261888, a) = IF k = 16 THEN 0 ELSE k
    BY SMT, <1>2, HighBits16, Tops
  <2>2. CASE k = 16
    <3>1. PICK l \in Int : l = a - Q
      BY SMT, Tops
    <3>2. Part(g, HighBits(g, a), l) /\ a = 2 * g * HighBits(g, a) + l + 1 * Q
      BY SMT, <1>2, <2>1, <2>2, <3>1, Tops DEF Part
    <3> QED
      BY <3>2
  <2>3. CASE k # 16
    <3>1. PICK l \in Int : l = a - 523776 * k
      BY SMT
    <3>2. Part(g, HighBits(g, a), l) /\ a = 2 * g * HighBits(g, a) + l + 0 * Q
      BY SMT, <1>2, <2>1, <2>3, <3>1, Tops DEF Part
    <3> QED
      BY <3>2
  <2> QED
    BY <2>2, <2>3
<1> QED
  BY SMT, <1>1, <1>2, Ranges

(* The two halves of a residue in C. *)
LEMMA Decomposed ==
  ASSUME NEW g \in Gamma2, NEW a \in Int, 0 <= a, a < Q
  PROVE  Splits(g, a, HighBits(g, a), LowBits(g, a))
<1>1. PICK l \in Int, e \in 0..1 :
        Part(g, HighBits(g, a), l) /\ a = 2 * g * HighBits(g, a) + l + e * Q
  BY SMT, HighPart, Ranges, Tops
<1>2. LowBits(g, a) = l
  <2>1. CASE g = 95232
    BY SMT, <1>1, <2>1, Tops DEF LowBits, Part
  <2>2. CASE g = 261888
    BY SMT, <1>1, <2>2, Tops DEF LowBits, Part
  <2> QED
    BY SMT, <2>1, <2>2, Ranges
<1> QED
  BY <1>1, <1>2 DEF Splits

(* The same in the contracts and in Python. *)
LEMMA Residues ==
  ASSUME NEW r \in Int
  PROVE  r % Q \in Int /\ 0 <= r % Q /\ r % Q < Q /\ \E n \in Int : r = Q * n + (r % Q)
<1>1. Q \in Nat \ {0}
  BY QNat
<1>2. r \div Q \in Int /\ r % Q \in 0 .. Q - 1 /\ r = Q * (r \div Q) + (r % Q)
  BY <1>1, Division
<1>3. PICK n \in Int : n = r \div Q
  BY <1>2
<1>4. r = Q * n + (r % Q)
  BY <1>2, <1>3
<1> QED
  <2>1. r % Q \in Int /\ 0 <= r % Q /\ r % Q < Q
    BY <1>1, <1>2
  <2> QED
    BY <1>4, <2>1, Zenon

LEMMA ExactQuotient ==
  ASSUME NEW n \in Nat \ {0}, NEW k \in Int
  PROVE  (n * k) \div n = k
<1> DEFINE x == n * k
<1>1. x \in Int /\ x = n * k + 0
  OBVIOUS
<1>2. x \div n \in Int /\ x % n \in 0 .. n - 1 /\ x = n * (x \div n) + (x % n)
  BY <1>1, Division
<1> HIDE DEF x
<1>3. x \div n = k
  <2> DEFINE q == x \div n  t == x % n
  <2>1. q \in Int /\ t \in 0 .. n - 1 /\ 0 \in 0 .. n - 1 /\ n * q + t = n * k + 0
    BY <1>1, <1>2
  <2> HIDE DEF q, t
  <2>2. q = k
    BY <2>1, DivisionUnique
  <2> QED
    BY <2>2 DEF q
<1> QED
  BY <1>3 DEF x

LEMMA PyDecomposeNearest ==
  ASSUME NEW g \in Gamma2, NEW r \in Int
  PROVE  \E k \in Int, l \in Int :
           /\ 0 <= k /\ k <= Top(g) /\ -g < l /\ l <= g /\ r % Q = 2 * g * k + l
           /\ PyDecompose(g, r) = IF k = Top(g) THEN <<0, l - 1>> ELSE <<k, l>>
<1>1. PICK p \in Int : p = r % Q /\ 0 <= p /\ p < Q
  BY Residues
<1>2. PICK n \in Nat \ {0} : n = 2 * g
  BY SMT, Ranges
<1>3. /\ n \div 2 = g
      /\ \/ g = 95232 /\ n = 190464 /\ Top(g) = 44
         \/ g = 261888 /\ n = 523776 /\ Top(g) = 16
  <2>1. CASE g = 95232
    <3>1. n = 190464
      BY SMT, <2>1, <1>2
    <3>2. 190464 \div 2 = 95232
      BY SMT
    <3> QED
      BY SMT, <2>1, <3>1, <3>2, Tops
  <2>2. CASE g = 261888
    <3>1. n = 523776
      BY SMT, <2>2, <1>2
    <3>2. 523776 \div 2 = 261888
      BY SMT
    <3> QED
      BY SMT, <2>2, <3>1, <3>2, Tops
  <2> QED
    BY <2>1, <2>2, Ranges
<1>4. PICK q \in Int, t \in Int : t = p % n /\ q = p \div n /\ p = n * q + t /\ 0 <= t /\ t < n
  <2>1. p \div n \in Int /\ p % n \in 0 .. n - 1 /\ p = n * (p \div n) + (p % n)
    BY Division
  <2> QED
    BY <2>1
<1>5. 0 <= q /\ q <= Top(g) /\ (q = Top(g) => t = 0)
  BY SMT, <1>1, <1>3, <1>4, Tops
<1>6. ReduceModPm(p, n) = IF t > g THEN t - n ELSE t
  BY <1>3, <1>4 DEF ReduceModPm
<1> DEFINE k == IF t > g THEN q + 1 ELSE q
           l == IF t > g THEN t - n ELSE t
<1>7. /\ k \in Int /\ k = IF t > g THEN q + 1 ELSE q
      /\ l \in Int /\ l = IF t > g THEN t - n ELSE t
  OBVIOUS
<1> HIDE DEF k, l
<1>8. p - l = n * k /\ p = n * k + l /\ 0 <= k /\ k <= Top(g) /\ -g < l /\ l <= g
  BY SMT, <1>3, <1>4, <1>5, <1>7
<1>9. PyDecompose(g, r) = IF n * k = Q - 1 THEN <<0, l - 1>> ELSE <<(n * k) \div n, l>>
  <2>1. ReduceModPm(r % Q, 2 * g) = l
    BY <1>1, <1>2, <1>6, <1>7
  <2>2. (r % Q) - l = n * k
    BY <1>1, <1>8
  <2> QED
    BY <1>2, <2>1, <2>2 DEF PyDecompose
<1>10. (n * k = Q - 1 <=> k = Top(g)) /\ (n * k) \div n = k
  <2>1. (n * k = Q - 1 <=> k = Top(g))
    <3>1. CASE n = 190464 /\ Top(g) = 44
      BY SMT, <3>1, <1>7, Tops
    <3>2. CASE n = 523776 /\ Top(g) = 16
      BY SMT, <3>2, <1>7, Tops
    <3> QED
      BY <1>3, <3>1, <3>2
  <2>2. k \in Int
    BY <1>7
  <2> QED
    BY <2>1, <2>2, ExactQuotient
<1>11. r % Q = 2 * g * k + l
  BY <1>1, <1>2, <1>8
<1> QED
  <2>1. PyDecompose(g, r) = IF k = Top(g) THEN <<0, l - 1>> ELSE <<k, l>>
    BY <1>9, <1>10
  <2>2. k \in Int /\ l \in Int
    BY <1>7
  <2> QED
    BY <1>8, <1>11, <2>1, <2>2, Zenon

LEMMA PyDecomposed ==
  ASSUME NEW g \in Gamma2, NEW r \in Int
  PROVE  /\ Splits(g, r, PyDecompose(g, r)[1], PyDecompose(g, r)[2])
         /\ PyDecompose(g, r) = <<PyDecompose(g, r)[1], PyDecompose(g, r)[2]>>
<1>1. PICK k \in Int, l \in Int :
           /\ 0 <= k /\ k <= Top(g) /\ -g < l /\ l <= g /\ r % Q = 2 * g * k + l
           /\ PyDecompose(g, r) = IF k = Top(g) THEN <<0, l - 1>> ELSE <<k, l>>
  BY PyDecomposeNearest
<1>2. r % Q < Q
  BY Residues
<1>3. PICK n \in Int : r = Q * n + (r % Q)
  BY Residues
<1> DEFINE h == IF k = Top(g) THEN 0 ELSE k
           m == IF k = Top(g) THEN l - 1 ELSE l
           e == IF k = Top(g) THEN n + 1 ELSE n
<1>4. /\ h \in Int /\ h = IF k = Top(g) THEN 0 ELSE k
      /\ m \in Int /\ m = IF k = Top(g) THEN l - 1 ELSE l
      /\ e \in Int /\ e = IF k = Top(g) THEN n + 1 ELSE n
  OBVIOUS
<1>5. PyDecompose(g, r) = <<h, m>>
  BY <1>1, <1>4
<1> HIDE DEF h, m, e
<1>6. Part(g, h, m) /\ r = 2 * g * h + m + e * Q
  <2>1. CASE g = 95232
    BY SMT, <2>1, <1>1, <1>2, <1>3, <1>4, Tops DEF Part
  <2>2. CASE g = 261888
    BY SMT, <2>2, <1>1, <1>2, <1>3, <1>4, Tops DEF Part
  <2> QED
    BY <2>1, <2>2, Ranges
<1>7. Splits(g, r, h, m)
  BY <1>4, <1>6 DEF Splits
<1> QED
  BY <1>5, <1>7

(* C and Python split a residue in the same parts. *)
LEMMA SameParts ==
  ASSUME NEW g \in Gamma2, NEW a \in Int, 0 <= a, a < Q
  PROVE  PyDecompose(g, a) = <<HighBits(g, a), LowBits(g, a)>>
<1>1. Splits(g, a, HighBits(g, a), LowBits(g, a))
  BY Decomposed
<1>2. Splits(g, a, PyDecompose(g, a)[1], PyDecompose(g, a)[2])
  BY PyDecomposed
<1>3. PyDecompose(g, a)[1] = HighBits(g, a) /\ PyDecompose(g, a)[2] = LowBits(g, a)
  BY <1>1, <1>2, SplitsUnique
<1> QED
  BY <1>3, PyDecomposed

LEMMA Power2RoundsAgree ==
  ASSUME NEW a \in Int, 0 <= a, a < Q
  PROVE  PyPower2Round(a) = Power2Round(a)
<1>1. 2^D = 8192 /\ 2^(D - 1) = 4096 /\ 8192 \div 2 = 4096
  BY SMT DEF D
<1>2. a % Q = a
  BY QNat, RemainderOfSmall
<1>3. PICK k \in Int : k = (a + 4096 - 1) \div 8192
  BY SMT
<1>4. PICK l \in Int : l = a - k * 8192
  BY SMT
<1>5. ReduceModPm(a, 8192) = l
  BY SMT, <1>1, <1>3, <1>4 DEF ReduceModPm
<1>6. (a - l) \div 8192 = k
  BY SMT, <1>4
<1>7. PyPower2Round(a) = <<k, l>>
  BY <1>1, <1>2, <1>5, <1>6, SMT DEF PyPower2Round
<1>8. Power2Round(a) = <<k, l>>
  BY <1>1, <1>3, <1>4, SMT DEF Power2Round
<1> QED
  BY <1>7, <1>8

LEMMA RangeFacts ==
  ASSUME NEW g \in Gamma2
  PROVE  /\ g \in Int /\ 95232 <= g /\ g <= 261888
         /\ BetaOf(g) \in Int /\ 0 <= BetaOf(g) /\ BetaOf(g) < g
         /\ Top(g) \in Int /\ Top(g) = (Q - 1) \div (2 * g) /\ 16 <= Top(g)
         /\ 2 * g * Top(g) = Q - 1
<1>1. /\ g \in Int /\ 95232 <= g /\ g <= 261888
      /\ Top(g) \in Int /\ 16 <= Top(g) /\ 2 * g * Top(g) = Q - 1
  <2>1. CASE g = 95232
    BY SMT, <2>1, Tops
  <2>2. CASE g = 261888
    BY SMT, <2>2, Tops
  <2> QED
    BY <2>1, <2>2, Ranges
<1>2. BetaOf(g) \in Nat /\ BetaOf(g) < g
  BY RoundingAssumption
<1>3. Top(g) = (Q - 1) \div (2 * g)
  BY DEF Top
<1> QED
  BY <1>1, <1>2, <1>3

LEMMA SplitsAlike ==
  ASSUME NEW g \in Gamma2, NEW a \in Int, NEW b \in Int, NEW n \in Int, a = b + n * Q,
         NEW h, NEW l, Splits(g, b, h, l)
  PROVE  Splits(g, a, h, l)
<1>1. PICK e \in Int : b = 2 * g * h + l + e * Q
  BY DEF Splits
<1>2. PICK f \in Int : f = e + n
  OBVIOUS
<1>3. h \in Int /\ l \in Int /\ Q \in Int /\ g \in Int
  BY QNat, RangeFacts DEF Splits, Part
<1>4. a = 2 * g * h + l + f * Q
  BY <1>1, <1>2, <1>3
<1> QED
  BY <1>4 DEF Splits

LEMMA SplitsRemainder ==
  ASSUME NEW g \in Gamma2, NEW a \in Int, NEW h, NEW l
  PROVE  Splits(g, a % Q, h, l) <=> Splits(g, a, h, l)
<1>1. PICK n \in Int : a % Q \in Int /\ a = Q * n + (a % Q)
  BY Residues
<1>2. a = (a % Q) + n * Q /\ a % Q = a + (-n) * Q /\ -n \in Int
  BY <1>1, QNat
<1>3. Splits(g, a % Q, h, l) => Splits(g, a, h, l)
  BY <1>1, <1>2, SplitsAlike
<1>4. Splits(g, a, h, l) => Splits(g, a % Q, h, l)
  BY <1>1, <1>2, SplitsAlike
<1> QED
  BY <1>3, <1>4

(* Subtracting a small c moves the low part by c, unless it leaves the     *)
(* range that is checked -- seen from either side.                         *)
LEMMA LowParts ==
  ASSUME NEW g \in Gamma2, NEW a \in Int, NEW c \in Int, NEW r \in Int, NEW n \in Int,
         r = a - c + n * Q, 
         NEW B \in Int, -(g - B) <= c, c <= g - B,
         NEW h, NEW v, Splits(g, a, h, v), NEW i, NEW m, Splits(g, r, i, m)
  PROVE  /\ Magnitude(v - c) < B <=> Magnitude(m) < B
         /\ Magnitude(v - c) < B => i = h /\ m = v - c
<1>1. /\ h \in Int /\ v \in Int /\ i \in Int /\ m \in Int /\ g \in Int /\ Q \in Int
      /\ Part(g, h, v) /\ Part(g, i, m)
  BY RangeFacts, QNat DEF Splits, Part
<1>2. ASSUME Magnitude(v - c) < B
      PROVE  i = h /\ m = v - c
  <2>1. Part(g, h, v - c)
    BY <1>1, <1>2 DEF Part, Magnitude
  <2>2. PICK e \in Int : a = 2 * g * h + v + e * Q
    BY DEF Splits
  <2>3. PICK f \in Int : f = e + n
    OBVIOUS
  <2>4. r = 2 * g * h + (v - c) + f * Q
    BY <1>1, <2>2, <2>3
  <2>5. Splits(g, r, h, v - c)
    BY <2>1, <2>4 DEF Splits
  <2> QED
    BY <2>5, SplitsUnique
<1>3. ASSUME Magnitude(m) < B
      PROVE  v = m + c
  <2>1. Part(g, i, m + c)
    BY <1>1, <1>3 DEF Part, Magnitude
  <2>2. PICK e \in Int : r = 2 * g * i + m + e * Q
    BY DEF Splits
  <2>3. PICK f \in Int : f = e - n
    OBVIOUS
  <2>4. a = 2 * g * i + (m + c) + f * Q
    BY <1>1, <2>2, <2>3
  <2>5. Splits(g, a, i, m + c)
    BY <2>1, <2>4 DEF Splits
  <2> QED
    BY <2>5, SplitsUnique
<1> QED
  BY <1>1, <1>2, <1>3

(* The three comparisons of a norm with a bound.                           *)
LEMMA Norms ==
  ASSUME NEW g \in Gamma2, NEW B \in Int, B <= g, NEW a \in Int, -4190208 <= a, a <= 4190208
  PROVE  /\ ChkNorm(a, B) <=> Magnitude(a) >= B
         /\ PyNorm(a, B) <=> Magnitude(a) >= B
         /\ PyNorm(a % Q, B) <=> Magnitude(a) >= B
<1>1. B <= 261888
  BY SMT, Ranges
<1>2. (Q - 1) \div 8 = 1047552 /\ (Q - 1) \div 2 = 4190208
  BY SMT DEF Q
<1>3. a % Q = IF a < 0 THEN a + Q ELSE a
  BY SMT, Tops
<1>4. (a % Q) % Q = a % Q
  BY SMT, <1>3, Tops
<1> QED
  BY SMT, <1>1, <1>2, <1>3, <1>4, Tops DEF ChkNorm, PyNorm, Magnitude

LEMMA Reduce32Near ==
  ASSUME NEW x \in Int, -4186112 <= x, x <= 4186112
  PROVE  Reduce32(x) = x /\ Reduce32(x - Q) = x /\ Reduce32(x + Q) = x
BY SMT, Tops, Powers DEF Reduce32

(* freeze stays in 0..Q-1 and keeps the residue.                           *)
LEMMA Frozen ==
  ASSUME NEW x \in Int, -2000000 <= x, x < Q + 2000000
  PROVE  /\ Freeze(x) \in Int /\ 0 <= Freeze(x) /\ Freeze(x) < Q
         /\ \E n \in Int : Freeze(x) = x + n * Q
<1>1. PICK k \in Int : k = (x + 4194304) \div 8388608
  BY SMT
<1>2. k = 0 \/ k = 1
  BY SMT, <1>1, Tops
<1>3. Reduce32(x) = x - k * Q
  BY <1>1, Powers DEF Reduce32
<1>4. PICK n \in Int : n = IF x - k * Q < 0 THEN 1 - k ELSE -k
  OBVIOUS
<1>5. Freeze(x) = x + n * Q
  BY SMT, <1>2, <1>3, <1>4, Tops DEF Freeze, Caddq
<1>6. 0 <= x + n * Q /\ x + n * Q < Q
  BY SMT, <1>1, <1>2, <1>4, Tops
<1> QED
  BY <1>5, <1>6, QNat

-----------------------------------------------------------------------------
(* The hint.  u is what is left of w - c*s2 + c*t0 when the high part h is *)
(* taken away: it may have left the range of the low parts, on either side *)
(* and by at most one step.                                                *)
LEMMA HintMoves ==
  ASSUME NEW g \in Gamma2, NEW h \in Int, 0 <= h, h < Top(g),
         NEW u \in Int, -2 * g + 2 <= u, u <= 2 * g - 2,
         NEW a \in Int, NEW n \in Int, a = 2 * g * h + u + n * Q,
         NEW i, NEW m, Splits(g, a, i, m)
  PROVE  /\ MakeHint(g, u, h) <=> i # h
         /\ i # h /\ m > 0 => h = IF i = Top(g) - 1 THEN 0 ELSE i + 1
         /\ i # h /\ ~(m > 0) => h = IF i = 0 THEN Top(g) - 1 ELSE i - 1
<1>1. /\ g \in Int /\ 95232 <= g /\ Top(g) \in Int /\ 16 <= Top(g) /\ Q \in Int
      /\ 2 * g * Top(g) = Q - 1
  BY RangeFacts, QNat
<1>2. CASE ~MakeHint(g, u, h)
  <2>1. Part(g, h, u)
    BY <1>1, <1>2 DEF MakeHint, Part
  <2>2. Splits(g, a, h, u)
    BY <2>1 DEF Splits
  <2>3. i = h
    BY <2>2, SplitsUnique
  <2> QED
    BY <1>2, <2>3
<1>3. CASE u > g /\ h + 1 < Top(g)
  <2>1. PICK k \in Int, l \in Int : k = h + 1 /\ l = u - 2 * g
    BY <1>1
  <2>2. Part(g, k, l)
    BY <1>1, <1>3, <2>1 DEF Part
  <2>3. 2 * g * k = 2 * g * h + 2 * g
    BY <1>1, <2>1
  <2>4. a = 2 * g * k + l + n * Q
    BY <1>1, <2>1, <2>3
  <2>5. i = k /\ m = l
    BY <2>2, <2>4, SplitsUnique DEF Splits
  <2> QED
    BY <1>1, <1>3, <2>1, <2>5 DEF MakeHint
<1>4. CASE u > g /\ h + 1 = Top(g)
  <2>1. PICK k \in Int, l \in Int : k = 0 /\ l = u - 2 * g - 1
    BY <1>1
  <2>2. Part(g, k, l)
    BY <1>1, <1>4, <2>1 DEF Part
  <2>3. 2 * g * k = 0 /\ 2 * g * h = Q - 1 - 2 * g
    <3>1. 2 * g * Top(g) = 2 * g * h + 2 * g
      BY <1>1, <1>4
    <3> QED
      BY <1>1, <2>1, <3>1
  <2>4. a = 2 * g * k + l + (n + 1) * Q
    BY <1>1, <2>1, <2>3
  <2>5. i = k /\ m = l
    BY <2>2, <2>4, SplitsUnique DEF Splits
  <2> QED
    BY <1>1, <1>4, <2>1, <2>5 DEF MakeHint
<1>5. CASE MakeHint(g, u, h) /\ ~(u > g) /\ h > 0
  <2>1. PICK k \in Int, l \in Int : k = h - 1 /\ l = u + 2 * g
    BY <1>1
  <2>2. Part(g, k, l)
    BY <1>1, <1>5, <2>1 DEF Part, MakeHint
  <2>3. 2 * g * k = 2 * g * h - 2 * g
    BY <1>1, <2>1
  <2>4. a = 2 * g * k + l + n * Q
    BY <1>1, <2>1, <2>3
  <2>5. i = k /\ m = l
    BY <2>2, <2>4, SplitsUnique DEF Splits
  <2> QED
    BY <1>1, <1>5, <2>1, <2>5
<1>6. CASE MakeHint(g, u, h) /\ ~(u > g) /\ h = 0
  <2>1. PICK k \in Int, l \in Int : k = Top(g) - 1 /\ l = u + 2 * g + 1
    BY <1>1
  <2>2. Part(g, k, l)
    BY <1>1, <1>6, <2>1 DEF Part, MakeHint
  <2>3. 2 * g * k = Q - 1 - 2 * g /\ 2 * g * h = 0
    BY <1>1, <1>6, <2>1
  <2>4. a = 2 * g * k + l + (n - 1) * Q
    BY <1>1, <2>1, <2>3
  <2>5. i = k /\ m = l
    BY <2>2, <2>4, SplitsUnique DEF Splits
  <2> QED
    BY <1>1, <1>6, <2>1, <2>5
<1> QED
  BY <1>1, <1>2, <1>3, <1>4, <1>5, <1>6

LEMMA HighSplits ==
  ASSUME NEW g \in Gamma2, NEW a \in Int, -g < a, a < Q + g
  PROVE  \E l \in Int : Splits(g, a, HighBits(g, a), l)
<1>1. PICK l \in Int, e \in 0..1 :
        Part(g, HighBits(g, a), l) /\ a = 2 * g * HighBits(g, a) + l + e * Q
  BY HighPart
<1>2. e \in Int
  OBVIOUS
<1> QED
  BY <1>1, <1>2 DEF Splits

(* What the verifiers make of the hint. *)
LEMMA HintUsed ==
  ASSUME NEW g \in Gamma2, NEW a \in Int, 0 <= a, a < Q, NEW h \in Int,
         NEW b \in BOOLEAN, b <=> HighBits(g, a) # h,
         b /\ LowBits(g, a) > 0 =>
           h = IF HighBits(g, a) = Top(g) - 1 THEN 0 ELSE HighBits(g, a) + 1,
         b /\ ~(LowBits(g, a) > 0) =>
           h = IF HighBits(g, a) = 0 THEN Top(g) - 1 ELSE HighBits(g, a) - 1
  PROVE  UseHint(g, a, b) = h /\ PyUseHint(g, b, a) = h
<1> DEFINE i == HighBits(g, a)  m == Top(g)
<1>1. PyDecompose(g, a)[1] = i /\ PyDecompose(g, a)[2] = LowBits(g, a)
  BY SameParts
<1>2. m = (Q - 1) \div (2 * g) /\ m \in Int /\ 16 <= m
  BY RangeFacts
<1>3. i \in Int /\ 0 <= i /\ i < m
  BY Decomposed DEF Splits, Part
<1>4. UseHint(g, a, b) = h
  BY <1>2 DEF UseHint
<1>5. /\ (i + 1) % m = IF i = m - 1 THEN 0 ELSE i + 1
      /\ (i + m - 1) % m = IF i = 0 THEN m - 1 ELSE i - 1
  <2>1. m = 44 \/ m = 16
    BY Ranges, Tops, SMT
  <2> HIDE DEF i, m
  <2>2. CASE m = 44
    BY SMT, <1>3, <2>2
  <2>3. CASE m = 16
    BY SMT, <1>3, <2>3
  <2> QED
    BY <2>1, <2>2, <2>3
<1>6. PyUseHint(g, b, a) = h
  BY <1>1, <1>2, <1>5 DEF PyUseHint
<1> QED
  BY <1>4, <1>6

-----------------------------------------------------------------------------
(* The path of one coefficient.                                            *)

Inputs ==
  /\ gamma2 \in Gamma2
  /\ w \in Residue
  /\ cs2 \in Int /\ Magnitude(cs2) <= BetaOf(gamma2)
  /\ ct0 \in Large
  /\ lift \in {0, Q}

Committed == at \in {"check", "hint", "verify"} => w1 = HighBits(gamma2, w)

Decomposing == at = "check" => w0 = LowBits(gamma2, w) /\ wcomp = w

LowGood ==
  at = "hint" =>
    /\ w0 = LowBits(gamma2, w) - cs2
    /\ Magnitude(w0) < gamma2 - BetaOf(gamma2)
    /\ wcomp = Freeze(w - cs2)

OneHint == at \in {"verify", "done"} => \A s, t \in Signer : hint[s] = hint[t]

(* What the variables hold between the steps.  HintRecovers is established *)
(* by the step that makes the hint, from what LowGood says of w0.          *)
RoundingInv ==
  /\ Inputs
  /\ Committed
  /\ Decomposing
  /\ LowGood
  /\ OneHint
  /\ HintRecovers

LEMMA InputFacts ==
  ASSUME Inputs
  PROVE  /\ gamma2 \in Gamma2
         /\ w \in Int /\ 0 <= w /\ w < Q
         /\ cs2 \in Int /\ -BetaOf(gamma2) <= cs2 /\ cs2 <= BetaOf(gamma2)
         /\ -261888 < cs2 /\ cs2 < 261888
         /\ ct0 \in Int /\ -4190208 <= ct0 /\ ct0 <= 4190208
         /\ Splits(gamma2, w, HighBits(gamma2, w), LowBits(gamma2, w))
         /\ LowBits(gamma2, w) \in Int
         /\ -gamma2 <= LowBits(gamma2, w) /\ LowBits(gamma2, w) <= gamma2
<1>1. gamma2 \in Gamma2 /\ w \in 0 .. Q - 1 /\ cs2 \in Int /\ Magnitude(cs2) <= BetaOf(gamma2)
  BY RoundingAssumption DEF Inputs
<1>2. w \in Int /\ 0 <= w /\ w < Q
  BY <1>1, QNat
<1>3. -BetaOf(gamma2) <= cs2 /\ cs2 <= BetaOf(gamma2) /\ -261888 < cs2 /\ cs2 < 261888
  BY SMT, <1>1, RangeFacts DEF Magnitude
<1>4. ct0 \in Int /\ -4190208 <= ct0 /\ ct0 <= 4190208
  <2>1. (Q - 1) \div 2 \in Int /\ (Q - 1) \div 2 = 4190208
    BY SMT DEF Q
  <2>2. ct0 \in (-((Q - 1) \div 2)) .. ((Q - 1) \div 2)
    BY RoundingAssumption DEF Inputs
  <2>3. ct0 \in Int /\ -((Q - 1) \div 2) <= ct0 /\ ct0 <= (Q - 1) \div 2
    BY <2>1, <2>2
  <2> QED
    BY SMT, <2>1, <2>3
<1>5. Splits(gamma2, w, HighBits(gamma2, w), LowBits(gamma2, w))
  BY <1>1, <1>2, Decomposed
<1>6. LowBits(gamma2, w) \in Int
         /\ -gamma2 <= LowBits(gamma2, w) /\ LowBits(gamma2, w) <= gamma2
  BY <1>5 DEF Splits, Part
<1> QED
  BY <1>1, <1>2, <1>3, <1>4, <1>5, <1>6

(* c-ref may have either representative of y: reduce32 gives the small one. *)
LEMMA LiftedReduced ==
  ASSUME Inputs, NEW x \in Int, -261888 <= x, x <= 261888, NEW y \in Int, -261888 <= y,
         y <= 261888
  PROVE  Reduce32(x - Lifted(y)) = x - y
<1>1. PICK z \in Int : z = x - y
  OBVIOUS
<1>2. Reduce32(z) = z /\ Reduce32(z - Q) = z /\ Reduce32(z + Q) = z
  BY SMT, <1>1, Reduce32Near
<1>3. x - Lifted(y) = z \/ x - Lifted(y) = z - Q \/ x - Lifted(y) = z + Q
  BY SMT, <1>1, QNat DEF Lifted, Inputs
<1> QED
  BY <1>1, <1>2, <1>3

(* "check": what the three signers compare with the bound. *)
LEMMA LowChecks ==
  ASSUME Inputs, Decomposing, at = "check"
  PROVE  /\ RefRemainder = LowBits(gamma2, w) - cs2
         /\ LowramRemainder = Freeze(w - cs2)
         /\ RefLowGood <=> Magnitude(LowBits(gamma2, w) - cs2) < gamma2 - BetaOf(gamma2)
         /\ RefLowGood <=> LowramLowGood
         /\ RefLowGood <=> PyLowGood
<1> DEFINE v == LowBits(gamma2, w)  B == gamma2 - BetaOf(gamma2)  r == Freeze(w - cs2)
           m == LowBits(gamma2, r)
<1>1. w0 = v /\ wcomp = w
  BY DEF Decomposing
<1>2. /\ gamma2 \in Int /\ gamma2 <= 261888 /\ 95232 <= gamma2
      /\ BetaOf(gamma2) \in Int /\ 0 <= BetaOf(gamma2)
      /\ v \in Int /\ -gamma2 <= v /\ v <= gamma2
      /\ B \in Int /\ B <= gamma2 /\ -(gamma2 - B) <= cs2 /\ cs2 <= gamma2 - B
      /\ cs2 \in Int /\ -261888 <= cs2 /\ cs2 <= 261888
  BY SMT, InputFacts, RangeFacts
<1>3. r \in Int /\ 0 <= r /\ r < Q /\ \E n \in Int : r = w - cs2 + n * Q
  <2>1. w - cs2 \in Int /\ -2000000 <= w - cs2 /\ w - cs2 < Q + 2000000
    BY SMT, InputFacts, <1>2, QNat
  <2> QED
    BY <2>1, Frozen
<1>4. Splits(gamma2, r, HighBits(gamma2, r), m)
  BY <1>3, InputFacts, Decomposed
<1>5. m \in Int /\ -gamma2 <= m /\ m <= gamma2
  BY <1>4 DEF Splits, Part
<1> HIDE DEF v, B, r, m
<1>6. RefRemainder = v - cs2
  <2>1. -261888 <= v /\ v <= 261888
    BY SMT, <1>2
  <2> QED
    BY <1>1, <1>2, <2>1, LiftedReduced DEF RefRemainder
<1>7. LowramRemainder = r
  BY <1>1 DEF LowramRemainder, r
<1>8. Magnitude(v - cs2) < B <=> Magnitude(m) < B
  <2>1. PICK n \in Int : r = w - cs2 + n * Q
    BY <1>3
  <2>2. Splits(gamma2, w, HighBits(gamma2, w), v)
    BY InputFacts DEF v
  <2> QED
    <3>1. PICK g \in Gamma2, a \in Int, c \in Int, x \in Int, b \in Int :
            g = gamma2 /\ a = w /\ c = cs2 /\ x = r /\ b = B
      BY <1>2, <1>3, InputFacts
    <3>2. x = a - c + n * Q /\ -(g - b) <= c /\ c <= g - b
      BY <1>2, <2>1, <3>1
    <3>3. Splits(g, a, HighBits(gamma2, w), v) /\ Splits(g, x, HighBits(gamma2, r), m)
      BY <1>4, <2>2, <3>1
    <3>4. Magnitude(v - c) < b <=> Magnitude(m) < b
      BY <3>2, <3>3, LowParts
    <3> QED
      BY <3>1, <3>4
<1>9. Magnitude(v - cs2) \in Int /\ Magnitude(m) \in Int
  BY <1>2, <1>5 DEF Magnitude
<1>10. RefLowGood <=> Magnitude(v - cs2) < B
  <2>1. v - cs2 \in Int /\ -4190208 <= v - cs2 /\ v - cs2 <= 4190208
    BY SMT, <1>2
  <2>2. ChkNorm(v - cs2, B) <=> Magnitude(v - cs2) >= B
    BY <2>1, <1>2, InputFacts, Norms
  <2> QED
    BY <1>2, <1>6, <1>9, <2>2 DEF RefLowGood, B
<1>11. -4190208 <= m /\ m <= 4190208
  BY SMT, <1>2, <1>5
<1>12. LowramLowGood <=> Magnitude(m) < B
  <2>1. Reduce32(m) = m
    BY SMT, <1>2, <1>5, Reduce32Near
  <2>2. ChkNorm(m, B) <=> Magnitude(m) >= B
    BY <1>2, <1>5, <1>11, InputFacts, Norms
  <2>3. LowramLowGood <=> ~ChkNorm(m, B)
    BY <1>7, <2>1 DEF LowramLowGood, m, B
  <2> QED
    BY <1>2, <1>9, <2>2, <2>3
<1>13. PyLowGood <=> Magnitude(m) < B
  <2>1. PyDecompose(gamma2, (w - cs2) % Q)[2] = m
    <3>1. w - cs2 \in Int /\ (w - cs2) % Q \in Int
      BY InputFacts, Residues
    <3>2. PICK n \in Int : r = w - cs2 + n * Q
      BY <1>3
    <3> DEFINE p == (w - cs2) % Q
    <3>3. Splits(gamma2, p, PyDecompose(gamma2, p)[1], PyDecompose(gamma2, p)[2])
      BY <3>1, InputFacts, PyDecomposed
    <3>4. Splits(gamma2, w - cs2, PyDecompose(gamma2, p)[1], PyDecompose(gamma2, p)[2])
      BY <3>1, <3>3, InputFacts, SplitsRemainder
    <3> HIDE DEF p
    <3>5. Splits(gamma2, r, PyDecompose(gamma2, p)[1], PyDecompose(gamma2, p)[2])
      BY <1>3, <3>1, <3>2, <3>4, InputFacts, SplitsAlike
    <3>6. PyDecompose(gamma2, p)[2] = m
      BY <1>3, <1>4, <3>5, InputFacts, SplitsUnique
    <3> QED
      BY <3>6 DEF p
  <2>2. PyNorm(m, B) <=> Magnitude(m) >= B
    BY <1>2, <1>5, <1>11, InputFacts, Norms
  <2>3. PyLowGood <=> ~PyNorm(m, B)
    BY <2>1 DEF PyLowGood, B
  <2> QED
    BY <1>2, <1>9, <2>2, <2>3
<1> QED
  BY <1>6, <1>7, <1>8, <1>10, <1>12, <1>13 DEF v, B, r

(* "hint": the bound on c*t0. *)
LEMMA Ct0Checks ==
  ASSUME Inputs
  PROVE  /\ RefCt0Good <=> Magnitude(ct0) < gamma2
         /\ LowramCt0Good <=> Magnitude(ct0) < gamma2
         /\ PyCt0Good <=> Magnitude(ct0) < gamma2
         /\ RefCt0Good => Reduce32(Lifted(ct0)) = ct0
<1>1. /\ gamma2 \in Int /\ gamma2 <= 261888 /\ gamma2 <= gamma2
      /\ ct0 \in Int /\ -4190208 <= ct0 /\ ct0 <= 4190208
  BY SMT, InputFacts, RangeFacts
<1>2. PICK y \in Int :
        y = Lifted(ct0) /\ (y = ct0 \/ (y = ct0 - Q /\ ct0 > 0) \/ (y = ct0 + Q /\ ct0 < 0))
  BY SMT, <1>1, QNat DEF Lifted, Inputs
<1>3. PICK x \in Int :
        /\ x = Reduce32(y)
        /\ \/ x = ct0
           \/ /\ ~(-4186112 <= ct0 /\ ct0 <= 4186112)
              /\ ~(-4186112 <= x /\ x <= 4186112)
              /\ -4194304 <= x /\ x <= 4194304
  <2>1. CASE -4186112 <= ct0 /\ ct0 <= 4186112
    BY SMT, <1>1, <1>2, <2>1, Reduce32Near
  <2>2. CASE ~(-4186112 <= ct0 /\ ct0 <= 4186112)
    <3>1. y + 4194304 >= 0 /\ y + 4194304 <= 8388608 /\ ~(-4186112 <= y /\ y <= 4186112)
      BY SMT, <1>1, <1>2, <2>2, Tops
    <3>2. PICK k \in Int : k = (y + 4194304) \div 8388608
      BY SMT
    <3>3. Reduce32(y) = y - k * Q
      BY <3>2, Powers DEF Reduce32
    <3>4. k = 0 \/ (k = 1 /\ y = 4194304)
      BY SMT, <3>1, <3>2
    <3>5. y = 4194304 => ct0 = 4194304 - Q
      BY SMT, <1>1, <1>2, Tops
    <3>6. Reduce32(y) = y \/ Reduce32(y) = ct0
      BY SMT, <3>3, <3>4, <3>5, Tops
    <3>7. -4194304 <= y /\ y <= 4194304
      BY SMT, <3>1
    <3>8. CASE Reduce32(y) = y
      BY SMT, <2>2, <3>1, <3>7, <3>8
    <3>9. CASE Reduce32(y) = ct0
      BY <1>1, <3>9
    <3> QED
      BY <3>6, <3>8, <3>9
  <2> QED
    BY <2>1, <2>2
<1>5. ChkNorm(x, gamma2) <=> Magnitude(x) >= gamma2
  <2>1. (Q - 1) \div 8 = 1047552
    BY SMT DEF Q
  <2> QED
    BY SMT, <1>1, <2>1 DEF ChkNorm
<1>6. ChkNorm(ct0, gamma2) <=> Magnitude(ct0) >= gamma2
  BY <1>1, InputFacts, Norms
<1>7. PyNorm(ct0 % Q, gamma2) <=> Magnitude(ct0) >= gamma2
  BY <1>1, InputFacts, Norms
<1>8. Magnitude(ct0) \in Int /\ Magnitude(x) \in Int
  BY <1>1 DEF Magnitude
<1>9. Magnitude(x) < gamma2 <=> Magnitude(ct0) < gamma2
  BY SMT, <1>1, <1>3 DEF Magnitude
<1>10. Magnitude(x) < gamma2 => x = ct0
  BY SMT, <1>1, <1>3 DEF Magnitude
<1> QED
  BY <1>1, <1>2, <1>3, <1>5, <1>6, <1>7, <1>8, <1>9, <1>10
    DEF RefCt0Good, LowramCt0Good, PyCt0Good

(* "hint": the hints and what the verifiers find with them. *)
LEMMA HintsAgree ==
  ASSUME RoundingInv, Hint
  PROVE  OneHint' /\ HintRecovers'
<1> DEFINE g == gamma2  v == LowBits(gamma2, w)  x == w - cs2 + ct0  A == Approximation
           i == HighBits(gamma2, A)  m == LowBits(gamma2, A)
<1>1. /\ at = "hint" /\ RefCt0Good /\ at' = "verify"
      /\ w0' = w0 + Reduce32(Lifted(ct0))
      /\ hint' = [ref    |-> MakeHint(gamma2, w0', w1),
                  lowram |-> MakeHintLowram(gamma2, -ct0, wcomp + ct0),
                  python |-> PyMakeHint(gamma2, (-ct0) % Q, (w - cs2 + ct0) % Q)]
      /\ UNCHANGED <<inputVars, w1, wcomp>>
  BY DEF Hint
<1>2. /\ Inputs /\ w1 = HighBits(gamma2, w) /\ w0 = v - cs2 /\ wcomp = Freeze(w - cs2)
      /\ Magnitude(w0) < gamma2 - BetaOf(gamma2)
  BY <1>1 DEF RoundingInv, Committed, LowGood
<1>3. Magnitude(ct0) < gamma2 /\ Reduce32(Lifted(ct0)) = ct0
  BY <1>1, <1>2, Ct0Checks
<1>4. /\ g \in Gamma2 /\ g \in Int /\ 95232 <= g /\ g <= 261888
      /\ w \in Int /\ 0 <= w /\ w < Q /\ cs2 \in Int /\ -261888 < cs2 /\ cs2 < 261888
      /\ ct0 \in Int /\ -g < ct0 /\ ct0 < g /\ v \in Int /\ -g < v - cs2 /\ v - cs2 < g
      /\ x \in Int /\ w - cs2 \in Int
  BY <1>2, <1>3, InputFacts, RangeFacts DEF Magnitude
<1>5. PICK e \in Int : w = 2 * g * w1 + v + e * Q
  BY <1>2, InputFacts DEF Splits
<1>6. /\ w1 \in Int /\ 0 <= w1 /\ w1 < Top(g)
      /\ Top(g) \in Int
  BY <1>2, <1>4, InputFacts, RangeFacts DEF Splits, Part
<1>7. PICK n \in Int : A \in Int /\ 0 <= A /\ A < Q /\ A = x + n * Q
  <2>1. -2000000 <= x /\ x < Q + 2000000
    BY SMT, <1>4, QNat
  <2> QED
    BY <1>4, <2>1, Frozen DEF Approximation
<1>8. Splits(g, A, i, m)
  BY <1>4, <1>7, Decomposed
<1>9. Splits(g, w - cs2, w1, v - cs2)
  <2>1. Part(g, w1, v - cs2)
    BY <1>4, <1>6 DEF Part
  <2>2. w - cs2 = 2 * g * w1 + (v - cs2) + e * Q
    <3>1. PICK s \in Int, t \in Int : s = 2 * g * w1 /\ t = e * Q
      BY <1>4, <1>6, QNat
    <3> QED
      BY <1>4, <1>5, <3>1
  <2> QED
    BY <2>1, <2>2 DEF Splits
<1>10. w0' = v - cs2 + ct0
  BY <1>1, <1>2, <1>3
<1> DEFINE ref == MakeHint(g, v - cs2 + ct0, w1)
           lowram == MakeHintLowram(g, -ct0, wcomp + ct0)
           python == PyMakeHint(g, (-ct0) % Q, x % Q)
<1>11. hint' = [ref |-> ref, lowram |-> lowram, python |-> python]
  BY <1>1, <1>10
<1> HIDE DEF g, v, x, A, i, m
<1>12. /\ ref <=> i # w1
       /\ i # w1 /\ m > 0 => w1 = IF i = Top(g) - 1 THEN 0 ELSE i + 1
       /\ i # w1 /\ ~(m > 0) => w1 = IF i = 0 THEN Top(g) - 1 ELSE i - 1
  <2>1. PICK u \in Int, a \in Int, h \in Int, f \in Int :
          u = v - cs2 + ct0 /\ a = A /\ h = w1 /\ f = e + n
    BY <1>4, <1>6, <1>7
  <2>2. a = 2 * g * h + u + f * Q
    BY <1>4, <1>5, <1>6, <1>7, <2>1, QNat DEF x
  <2>3. -2 * g + 2 <= u /\ u <= 2 * g - 2 /\ 0 <= h /\ h < Top(g)
    BY <1>4, <1>6, <2>1
  <2>4. Splits(g, a, i, m)
    BY <1>8, <2>1
  <2>5. /\ MakeHint(g, u, h) <=> i # h
        /\ i # h /\ m > 0 => h = IF i = Top(g) - 1 THEN 0 ELSE i + 1
        /\ i # h /\ ~(m > 0) => h = IF i = 0 THEN Top(g) - 1 ELSE i - 1
    BY <1>4, <2>2, <2>3, <2>4, HintMoves
  <2> QED
    BY <2>1, <2>5
<1>13. lowram <=> i # w1
  <2>1. PICK k \in Int : wcomp \in Int /\ 0 <= wcomp /\ wcomp < Q /\ wcomp = w - cs2 + k * Q
    <3>1. -2000000 <= w - cs2 /\ w - cs2 < Q + 2000000
      BY SMT, <1>4, QNat
    <3> QED
      BY <1>2, <1>4, <3>1, Frozen
  <2>2. HighBits(g, wcomp) = w1
    <3>1. Splits(g, wcomp, w1, v - cs2)
      BY <1>4, <1>9, <2>1, SplitsAlike
    <3>2. Splits(g, wcomp, HighBits(g, wcomp), LowBits(g, wcomp))
      BY <1>4, <2>1, Decomposed
    <3> QED
      BY <1>4, <2>1, <3>1, <3>2, SplitsUnique
  <2>3. HighBits(g, wcomp + ct0) = i
    <3>1. PICK y \in Int : y = wcomp + ct0
      BY <1>4, <2>1
    <3>2. -g < y /\ y < Q + g
      BY <1>4, <2>1, <3>1, QNat
    <3>3. PICK l \in Int : Splits(g, y, HighBits(g, y), l)
      BY <1>4, <3>2, HighSplits
    <3>4. PICK f \in Int : f = n - k
      OBVIOUS
    <3>5. A = y + f * Q
      BY <1>4, <1>7, <2>1, <3>1, <3>4, QNat DEF x
    <3>6. Splits(g, A, HighBits(g, y), l)
      BY <1>4, <1>7, <3>3, <3>5, SplitsAlike
    <3> QED
      BY <1>4, <1>7, <1>8, <3>1, <3>6, SplitsUnique
  <2>4. wcomp + ct0 + -ct0 = wcomp
    BY <1>4, <2>1
  <2> QED
    BY <2>2, <2>3, <2>4 DEF MakeHintLowram
<1>14. python <=> i # w1
  <2> DEFINE R == x % Q  Z == (-ct0) % Q
  <2>1. PICK p \in Int, q \in Int : R \in Int /\ Z \in Int /\ x = Q * p + R /\ -ct0 = Q * q + Z
    <3>1. -ct0 \in Int
      BY <1>4
    <3> QED
      BY <1>4, <3>1, Residues
  <2> HIDE DEF R, Z
  <2>2. PyDecompose(g, R)[1] = i
    <3>1. Splits(g, R, PyDecompose(g, R)[1], PyDecompose(g, R)[2])
      BY <1>4, <2>1, PyDecomposed
    <3>2. PICK f \in Int : f = n + p
      OBVIOUS
    <3>3. A = R + f * Q
      BY <1>7, <2>1, <3>2, QNat
    <3>4. Splits(g, A, PyDecompose(g, R)[1], PyDecompose(g, R)[2])
      BY <1>4, <1>7, <2>1, <3>1, <3>3, SplitsAlike
    <3> QED
      BY <1>4, <1>7, <1>8, <3>4, SplitsUnique
  <2>3. PyDecompose(g, R + Z)[1] = w1
    <3>1. PICK y \in Int, b \in Int, f \in Int : y = R + Z /\ b = w - cs2 /\ f = p + q
      BY <1>4, <2>1
    <3>2. Splits(g, y, PyDecompose(g, y)[1], PyDecompose(g, y)[2])
      BY <1>4, PyDecomposed
    <3>3. b = y + f * Q
      BY <1>4, <2>1, <3>1, QNat DEF x
    <3>4. Splits(g, b, PyDecompose(g, y)[1], PyDecompose(g, y)[2])
      BY <1>4, <3>2, <3>3, SplitsAlike
    <3>5. Splits(g, b, w1, v - cs2)
      BY <1>9, <3>1
    <3> QED
      BY <1>4, <3>1, <3>4, <3>5, SplitsUnique
  <2> QED
    BY <2>2, <2>3 DEF PyMakeHint, R, Z
<1>15. ref \in BOOLEAN /\ lowram \in BOOLEAN /\ python \in BOOLEAN
  BY DEF MakeHint, MakeHintLowram, PyMakeHint
<1>16. ref = lowram /\ ref = python
  BY <1>12, <1>13, <1>14, <1>15
<1>17. OneHint'
  BY <1>11, <1>16 DEF OneHint, Signer
<1>18. UseHint(g, A, ref) = w1 /\ PyUseHint(g, ref, A) = w1
  <2>1. HighBits(g, A) = i /\ LowBits(g, A) = m
    BY DEF g, i, m
  <2> HIDE DEF ref
  <2> QED
    BY <1>4, <1>6, <1>7, <1>12, <1>15, <2>1, HintUsed
<1>19. /\ Approximation' = A /\ gamma2' = g /\ w1' = w1
       /\ hint'["ref"] = ref /\ hint'["lowram"] = ref /\ hint'["python"] = ref
  BY <1>1, <1>11, <1>16 DEF Approximation, inputVars, A, g
<1>20. HintRecovers'
  BY <1>18, <1>19 DEF HintRecovers, Recovered, Signer
<1> QED
  BY <1>17, <1>20

LEMMA InvImpliesSignersAgree ==
  ASSUME RoundingInv
  PROVE  SignersAgree
<1>1. Inputs /\ Decomposing /\ OneHint
  BY DEF RoundingInv
<1>2. at = "check" => (RefLowGood <=> LowramLowGood) /\ (RefLowGood <=> PyLowGood)
  BY <1>1, LowChecks
<1>3. (RefCt0Good <=> LowramCt0Good) /\ (RefCt0Good <=> PyCt0Good)
  BY <1>1, Ct0Checks
<1> QED
  BY <1>1, <1>2, <1>3 DEF SignersAgree, OneHint

LEMMA RoundingInitial ==
  ASSUME RoundingInit
  PROVE  RoundingInv
<1>1. /\ gamma2 \in Gamma2 /\ w \in Residue
         /\ cs2 \in {a \in Small : Magnitude(a) <= BetaOf(gamma2)}
      /\ ct0 \in Large /\ lift \in {0, Q} /\ at = "commit"
  BY DEF RoundingInit
<1>2. Inputs
  BY <1>1, RoundingAssumption DEF Inputs
<1> QED
  BY <1>1, <1>2 DEF RoundingInv, Committed, Decomposing, LowGood, OneHint, HintRecovers

LEMMA InputsKept ==
  ASSUME Inputs, UNCHANGED inputVars
  PROVE  Inputs'
BY DEF Inputs, inputVars

LEMMA RoundingStep ==
  ASSUME RoundingInv, [RoundingNext]_roundingVars
  PROVE  RoundingInv'
<1>1. Inputs'
  <2>1. UNCHANGED inputVars
    BY DEF RoundingNext, Commit, CheckLowBits, RejectCt0, Hint, Verify, roundingVars
  <2> QED
    BY <2>1, InputsKept DEF RoundingInv
<1>2. CASE Commit
  <2>1. /\ at' = "check" /\ w1' = HighBits(gamma2, w) /\ w0' = LowBits(gamma2, w)
        /\ wcomp' = Freeze(w) /\ UNCHANGED inputVars
    BY <1>2 DEF Commit, Decompose
  <2>2. Freeze(w) = w
    <3>1. w \in Int /\ 0 <= w /\ w < Q
      BY InputFacts DEF RoundingInv
    <3>2. -2000000 <= w /\ w < Q + 2000000
      BY SMT, <3>1, QNat
    <3>3. PICK n \in Int : Freeze(w) \in Int /\ 0 <= Freeze(w) /\ Freeze(w) < Q
          /\ Freeze(w) = w + n * Q
      BY <3>1, <3>2, Frozen
    <3>4. PICK a \in Int, f \in Int : a = w /\ f = Freeze(w)
      BY <3>1, <3>3
    <3>5. n = 0
      BY SMT, <3>1, <3>3, <3>4, Tops
    <3>6. n * Q = 0
      BY <3>5, QNat
    <3> QED
      BY <3>1, <3>3, <3>6
  <2>3. Committed' /\ Decomposing'
    BY <2>1, <2>2 DEF Committed, Decomposing, inputVars
  <2> QED
    BY <1>1, <2>1, <2>3 DEF RoundingInv, LowGood, OneHint, HintRecovers
<1>3. CASE CheckLowBits
  <2>1. /\ at = "check" /\ w0' = RefRemainder /\ wcomp' = LowramRemainder
        /\ at' = IF RefLowGood THEN "hint" ELSE "rejected"
        /\ UNCHANGED <<inputVars, w1, hint>>
    BY <1>3 DEF CheckLowBits
  <2>2. /\ RefRemainder = LowBits(gamma2, w) - cs2
        /\ LowramRemainder = Freeze(w - cs2)
        /\ RefLowGood <=> Magnitude(LowBits(gamma2, w) - cs2) < gamma2 - BetaOf(gamma2)
    BY <2>1, LowChecks DEF RoundingInv
  <2>3. LowGood' /\ Committed'
    BY <2>1, <2>2 DEF LowGood, Committed, RoundingInv, inputVars
  <2>4. at' \in {"hint", "rejected"}
    BY <2>1
  <2> QED
    BY <1>1, <2>3, <2>4 DEF RoundingInv, Decomposing, OneHint, HintRecovers
<1>4. CASE RejectCt0
  <2>1. at' = "rejected"
    BY <1>4 DEF RejectCt0
  <2> QED
    BY <1>1, <2>1 DEF RoundingInv, Committed, Decomposing, LowGood, OneHint, HintRecovers
<1>5. CASE Hint
  <2>1. at = "hint" /\ at' = "verify" /\ UNCHANGED <<inputVars, w1>>
    BY <1>5 DEF Hint
  <2>2. Committed'
    BY <2>1 DEF RoundingInv, Committed, inputVars
  <2>3. OneHint' /\ HintRecovers'
    BY <1>5, HintsAgree
  <2> QED
    BY <1>1, <2>1, <2>2, <2>3 DEF RoundingInv, Decomposing, LowGood
<1>6. CASE Verify
  <2>1. at = "verify" /\ at' = "done" /\ UNCHANGED <<inputVars, hint>>
    BY <1>6 DEF Verify
  <2>2. OneHint'
    BY <2>1 DEF RoundingInv, OneHint
  <2> QED
    BY <1>1, <2>1, <2>2 DEF RoundingInv, Committed, Decomposing, LowGood, HintRecovers
<1>7. CASE UNCHANGED roundingVars
  BY <1>1, <1>7
  DEF RoundingInv, Committed, Decomposing, LowGood, OneHint, HintRecovers, Recovered,
      Approximation, roundingVars, inputVars
<1> QED
  BY <1>2, <1>3, <1>4, <1>5, <1>6, <1>7 DEF RoundingNext

LEMMA RoundingInvariant == RoundingSpec => []RoundingInv
BY RoundingInitial, RoundingStep, PTL DEF RoundingSpec

(* rounding.c, lowram.c, ZKNOX_hint.sol and utils.py split every residue   *)
(* in the same two parts, within the range the comment of decompose gives. *)
THEOREM DecompositionsCorrect == RoundingSpec => []DecompositionsAgree
<1>1. ASSUME RoundingInv
      PROVE  DecompositionsAgree
  <2> DEFINE r1 == HighBits(gamma2, w)  r0 == LowBits(gamma2, w)
  <2>1. /\ gamma2 \in Gamma2 /\ w \in Int /\ 0 <= w /\ w < Q /\ w \in 0 .. Q - 1
        /\ Splits(gamma2, w, r1, r0)
    <3>1. /\ gamma2 \in Gamma2 /\ w \in Int /\ 0 <= w /\ w < Q
          /\ Splits(gamma2, w, r1, r0)
      BY SMT, <1>1, InputFacts DEF RoundingInv
    <3>2. w \in 0 .. Q - 1
      BY <1>1, RoundingAssumption DEF RoundingInv, Inputs
    <3> QED
      BY <3>1, <3>2
  <2>2. Decompose(gamma2, w)[1] = r1 /\ Decompose(gamma2, w)[2] = r0
    BY DEF Decompose
  <2>3. PyDecompose(gamma2, w) = <<r1, r0>>
    BY <2>1, SameParts
  <2>4. PyPower2Round(w) = Power2Round(w)
    BY <2>1, Power2RoundsAgree
  <2>5. Part(gamma2, r1, r0) /\ \E e \in Int : w = 2 * gamma2 * r1 + r0 + e * Q
    BY <2>1 DEF Splits
  <2>6. /\ gamma2 \in Int /\ Top(gamma2) \in Int /\ Top(gamma2) = (Q - 1) \div (2 * gamma2)
    BY <2>1, RangeFacts
  <2> HIDE DEF r1, r0
  <2>7. /\ r0 \in (-gamma2) .. gamma2 /\ (r0 = -gamma2 => r1 = 0)
        /\ r1 \in 0 .. ((Q - 1) \div (2 * gamma2) - 1)
    BY <2>5, <2>6 DEF Part
  <2>8. (r1 * 2 * gamma2 + r0) % Q = w
    <3>1. PICK e \in Int : w = 2 * gamma2 * r1 + r0 + e * Q
      BY <2>5
    <3>2. PICK k \in Int, s \in Int : k = -e /\ s = r1 * 2 * gamma2 + r0
      BY <2>5, <2>6 DEF Part
    <3>3. s = w + Q * k
      BY <2>1, <2>5, <2>6, <3>1, <3>2, QNat DEF Part
    <3>4. s % Q = w % Q /\ w % Q = w
      BY <2>1, <3>3, QNat, RemainderOfSum, RemainderOfSmall
    <3> QED
      BY <3>2, <3>4
  <2> QED
    BY <2>2, <2>3, <2>4, <2>7, <2>8 DEF DecompositionsAgree
<1> QED
  BY <1>1, RoundingInvariant, PTL

(* c-ref, c-lowram and Python accept the same coefficients and set the     *)
(* same hint, for every w, c*s2 and c*t0.                                  *)
THEOREM SignersCorrect == RoundingSpec => []SignersAgree
BY InvImpliesSignersAgree, RoundingInvariant, PTL

(* With the hint each verifier finds the high bits that were committed to. *)
THEOREM HintCorrect == RoundingSpec => []HintRecovers
<1>1. RoundingInv => HintRecovers
  BY DEF RoundingInv
<1> QED
  BY <1>1, RoundingInvariant, PTL

-----------------------------------------------------------------------------
(***************************************************************************)
(* The product is right for every even number of coefficients.  Each loop  *)
(* has its own conjunct: what lies in front of its index is still the      *)
(* input, and what lies behind it is the output already.                   *)
(***************************************************************************)

Coeff == 0..(N - 1)

Shape == DOMAIN cell = Cells

NarrowingInv ==
  step = "narrow" =>
    /\ index \in Coeff
    /\ \A i \in 0..index : cell[2 * i] = <<"c", i>>
    /\ \A i \in (index + 1)..(N - 1) : cell[N + i] = <<"c", i>>

NarrowedInv == step = "transform c" => \A i \in Coeff : cell[N + i] = <<"c", i>>

ChallengeReady ==
  step \in {"unpack s", "multiply"} => \A i \in Coeff : cell[N + i] = <<"chat", i>>

MultiplyingInv ==
  step = "multiply" =>
    /\ index \in Coeff
    /\ index % 2 = 0
    /\ \A i \in 0..(index - 1) : cell[i] = <<"prod", i>>
    /\ \A i \in index..(N - 1) : cell[i] = <<"shat", i>>

MultipliedInv == step = "invert" => \A i \in Coeff : cell[i] = <<"prod", i>>

WideningInv ==
  step = "widen" =>
    /\ index \in Coeff
    /\ \A i \in 0..index : cell[i] = <<"p", i>>
    /\ \A i \in (index + 1)..(N - 1) :
         cell[2 * i] = <<"p", i>> /\ cell[2 * i + 1] = <<"sign of p", i>>

BufferInv ==
  /\ Shape
  /\ NarrowingInv
  /\ NarrowedInv
  /\ ChallengeReady
  /\ MultiplyingInv
  /\ MultipliedInv
  /\ WideningInv
  /\ ProductInPlace

LEMMA NPositive == N \in Nat /\ N > 0
BY BufferAssumption

LEMMA UpperChoice ==
  ASSUME NEW n \in Coeff
  PROVE  (CHOOSE i \in 0..(N - 1) : Upper(i) = N + n) = n
BY BufferAssumption DEF Coeff, Upper

LEMMA LowerChoice ==
  ASSUME NEW n \in Coeff
  PROVE  (CHOOSE i \in 0..(N - 1) : Lower(i) = n) = n
BY BufferAssumption DEF Coeff, Lower

(* A transform of the upper half of right inputs. *)
LEMMA UpperTransform ==
  ASSUME \A i \in Coeff : cell[N + i] = <<"c", i>>
  PROVE  /\ DOMAIN Transformed("c", "chat", Upper) = Cells
         /\ \A i \in Coeff : Transformed("c", "chat", Upper)[N + i] = <<"chat", i>>
<1>1. \A i \in 0..(N - 1) : cell[Upper(i)] = <<"c", i>>
  BY DEF Coeff, Upper
<1>2. ASSUME NEW i \in Coeff
      PROVE  N + i \in Cells /\ \E n \in 0..(N - 1) : Upper(n) = N + i
  BY <1>2, BufferAssumption DEF Coeff, Cells, Upper
<1> QED
  BY <1>1, <1>2, UpperChoice DEF Transformed

(* The same of the lower half. *)
LEMMA LowerTransform ==
  ASSUME \A i \in Coeff : cell[i] = <<"prod", i>>
  PROVE  /\ DOMAIN Transformed("prod", "p", Lower) = Cells
         /\ \A i \in Coeff : Transformed("prod", "p", Lower)[i] = <<"p", i>>
<1>1. \A i \in 0..(N - 1) : cell[Lower(i)] = <<"prod", i>>
  BY DEF Coeff, Lower
<1>2. ASSUME NEW i \in Coeff
      PROVE  i \in Cells /\ \E n \in 0..(N - 1) : Lower(n) = i
  BY <1>2, BufferAssumption DEF Coeff, Cells, Lower
<1> QED
  BY <1>1, <1>2, LowerChoice DEF Transformed

LEMMA InvInit == BufferInit => BufferInv
<1> SUFFICES ASSUME BufferInit PROVE BufferInv
  OBVIOUS
<1>1. \A i \in 0..(N - 1) : 2 * i \in Cells /\ (2 * i) % 2 = 0 /\ (2 * i) \div 2 = i
  BY NPositive DEF Cells
<1>2. \A i \in 0..(N - 1) : cell[2 * i] = <<"c", i>>
  BY <1>1 DEF BufferInit
<1>3. N - 1 \in Coeff /\ ((N - 1) + 1)..(N - 1) = {}
  BY NPositive DEF Coeff
<1>4. Shape /\ NarrowingInv
  BY <1>2, <1>3 DEF BufferInit, Shape, NarrowingInv
<1> QED
  BY <1>4
  DEF BufferInit, BufferInv, NarrowedInv, ChallengeReady, MultiplyingInv, MultipliedInv, WideningInv,
      ProductInPlace

LEMMA InvNext == BufferInv /\ [BufferNext]_bufferVars => BufferInv'
<1> SUFFICES ASSUME BufferInv, [BufferNext]_bufferVars
             PROVE  BufferInv'
  OBVIOUS
<1> USE NPositive DEF BufferInv
<1>1. CASE Narrow
  <2>1. /\ step = "narrow"
        /\ cell' = [cell EXCEPT ![N + index] = cell[2 * index]]
        /\ index' = IF index = 0 THEN N - 1 ELSE index - 1
        /\ step' = IF index = 0 THEN "transform c" ELSE step
    BY <1>1 DEF Narrow, Upper, LowHalf, NarrowAt
  <2>2. index \in Coeff /\ Shape
    BY <2>1 DEF NarrowingInv
  <2>3. Shape' /\ \A x \in Cells : cell'[x] = IF x = N + index THEN <<"c", index>> ELSE cell[x]
    <3>1. cell[2 * index] = <<"c", index>>
      <4>1. index \in 0..index
        BY <2>2 DEF Coeff
      <4> QED
        BY <2>1, <4>1 DEF NarrowingInv
    <3> QED
      BY <2>1, <2>2, <3>1 DEF Shape
  <2>4. \A i \in index..(N - 1) : cell'[N + i] = <<"c", i>>
    <3>1. ASSUME NEW i \in index..(N - 1)
          PROVE  N + i \in Cells /\ (i # index => i \in (index + 1)..(N - 1) /\ N + i # N + index)
      BY <2>2 DEF Cells, Coeff
    <3> QED
      BY <2>1, <2>3, <3>1 DEF NarrowingInv
  <2>5. \A i \in 0..(index - 1) : cell'[2 * i] = <<"c", i>>
    <3>1. ASSUME NEW i \in 0..(index - 1)
          PROVE  2 * i \in Cells /\ i \in 0..index /\ 2 * i # N + index
      BY <2>2 DEF Cells, Coeff
    <3> QED
      BY <2>1, <2>3, <3>1 DEF NarrowingInv
  <2>6. NarrowingInv'
    BY <2>1, <2>2, <2>4, <2>5 DEF NarrowingInv, Coeff
  <2>7. NarrowedInv'
    BY <2>1, <2>2, <2>4 DEF NarrowedInv, Coeff
  <2> QED
    BY <2>1, <2>3, <2>6, <2>7
    DEF ChallengeReady, MultiplyingInv, MultipliedInv, WideningInv, ProductInPlace
<1>2. CASE TransformChallenge
  <2>1. /\ step = "transform c"
        /\ cell' = Transformed("c", "chat", Upper)
        /\ step' = "unpack s"
    BY <1>2 DEF TransformChallenge
  <2>2. Shape' /\ ChallengeReady'
    BY <2>1, UpperTransform DEF Shape, ChallengeReady, NarrowedInv
  <2> QED
    BY <2>1, <2>2 DEF NarrowingInv, NarrowedInv, MultiplyingInv, MultipliedInv, WideningInv, ProductInPlace
<1>3. CASE UnpackSecret
  <2>1. /\ step = "unpack s"
        /\ cell' = [x \in Cells |-> IF x < N THEN <<"shat", x>> ELSE cell[x]]
        /\ index' = 0
        /\ step' = "multiply"
    BY <1>3 DEF UnpackSecret
  <2>2. ChallengeReady'
    <3>1. \A i \in Coeff : N + i \in Cells /\ ~(N + i < N)
      BY DEF Coeff, Cells
    <3> QED
      BY <2>1, <3>1 DEF ChallengeReady
  <2>3. MultiplyingInv'
    <3>1. \A i \in 0..(N - 1) : cell'[i] = <<"shat", i>>
      <4>1. \A i \in 0..(N - 1) : i \in Cells /\ i < N
        BY DEF Cells
      <4> QED
        BY <2>1, <4>1
    <3>2. 0 \in Coeff /\ 0 % 2 = 0 /\ 0..(0 - 1) = {}
      BY DEF Coeff
    <3> QED
      BY <2>1, <3>1, <3>2 DEF MultiplyingInv
  <2> QED
    BY <2>1, <2>2, <2>3 DEF Shape, NarrowingInv, NarrowedInv, MultipliedInv, WideningInv, ProductInPlace
<1>4. CASE Multiply
  <2>1. step = "multiply" /\ Shape
    BY <1>4 DEF Multiply
  <2>2. index \in Coeff /\ index + 1 \in Coeff /\ (index + 2) % 2 = 0
    <3>1. index \in Coeff /\ index % 2 = 0
      BY <2>1 DEF MultiplyingInv
    <3>2. index \in Nat /\ index < N /\ N \in Nat /\ N % 2 = 0
      BY <3>1, BufferAssumption DEF Coeff
    <3>3. index + 1 # N /\ (index + 2) % 2 = 0
      BY <3>1, <3>2
    <3> QED
      BY <3>1, <3>2, <3>3 DEF Coeff
  <2>3. Factors(index) = [a |-> <<"chat", index>>, a1 |-> <<"chat", index + 1>>,
                          b |-> <<"shat", index>>, b1 |-> <<"shat", index + 1>>]
    <3>1. cell[N + index] = <<"chat", index>> /\ cell[N + (index + 1)] = <<"chat", index + 1>>
      BY <2>1, <2>2 DEF ChallengeReady
    <3>2. cell[index] = <<"shat", index>> /\ cell[index + 1] = <<"shat", index + 1>>
      BY <2>1, <2>2 DEF MultiplyingInv, Coeff
    <3> QED
      BY <3>1, <3>2 DEF Factors, Upper, Lower
  <2>4. /\ cell' = [cell EXCEPT ![index] = <<"prod", index>>,
                                ![index + 1] = <<"prod", index + 1>>]
        /\ index' = index + 2
        /\ step' = IF index + 2 = N THEN "invert" ELSE step
    BY <1>4, <2>3 DEF Multiply, Lower
  <2>5. /\ Shape'
        /\ \A x \in Cells : cell'[x] = IF x = index THEN <<"prod", index>>
                                       ELSE IF x = index + 1 THEN <<"prod", index + 1>>
                                       ELSE cell[x]
    BY <2>1, <2>2, <2>4 DEF Shape, Coeff
  <2>6. \A i \in Coeff : cell'[N + i] = <<"chat", i>>
    <3>1. ASSUME NEW i \in Coeff
          PROVE  N + i \in Cells /\ N + i # index /\ N + i # index + 1
      BY <2>2 DEF Cells, Coeff
    <3> QED
      BY <2>1, <2>5, <3>1 DEF ChallengeReady
  <2>7. \A i \in 0..(index + 1) : cell'[i] = <<"prod", i>>
    <3>1. ASSUME NEW i \in 0..(index + 1)
          PROVE  i \in Cells /\ (i # index /\ i # index + 1 => i \in 0..(index - 1))
      BY <2>2 DEF Cells, Coeff
    <3> QED
      BY <2>1, <2>5, <3>1 DEF MultiplyingInv
  <2>8. \A i \in (index + 2)..(N - 1) : cell'[i] = <<"shat", i>>
    <3>1. ASSUME NEW i \in (index + 2)..(N - 1)
          PROVE  i \in Cells /\ i # index /\ i # index + 1 /\ i \in index..(N - 1)
      BY <2>2 DEF Cells, Coeff
    <3> QED
      BY <2>1, <2>5, <3>1 DEF MultiplyingInv
  <2>9. MultiplyingInv'
    <3>1. CASE index + 2 = N
      BY <2>1, <2>4, <3>1 DEF MultiplyingInv
    <3>2. CASE index + 2 # N
      <4>1. index' \in Coeff /\ index' % 2 = 0 /\ index' - 1 = index + 1
        BY <2>2, <2>4, <3>2 DEF Coeff
      <4> QED
        BY <2>4, <2>7, <2>8, <4>1 DEF MultiplyingInv
    <3> QED
      BY <3>1, <3>2
  <2>10. MultipliedInv'
    <3>1. CASE index + 2 = N
      <4>1. \A i \in Coeff : i \in 0..(index + 1)
        BY <2>2, <3>1 DEF Coeff
      <4> QED
        BY <2>7, <4>1 DEF MultipliedInv
    <3>2. CASE index + 2 # N
      BY <2>1, <2>4, <3>2 DEF MultipliedInv
    <3> QED
      BY <3>1, <3>2
  <2> QED
    BY <2>1, <2>4, <2>5, <2>6, <2>9, <2>10
    DEF ChallengeReady, NarrowingInv, NarrowedInv, WideningInv, ProductInPlace
<1>5. CASE Invert
  <2>1. /\ step = "invert"
        /\ cell' = Transformed("prod", "p", Lower)
        /\ index' = N - 1
        /\ step' = "widen"
    BY <1>5 DEF Invert
  <2>2. Shape' /\ \A i \in Coeff : cell'[i] = <<"p", i>>
    BY <2>1, LowerTransform DEF Shape, MultipliedInv
  <2>3. WideningInv'
    <3>1. index' \in Coeff /\ 0..index' = Coeff /\ (index' + 1)..(N - 1) = {}
      BY <2>1 DEF Coeff
    <3> QED
      BY <2>2, <3>1 DEF WideningInv
  <2> QED
    BY <2>1, <2>2, <2>3
    DEF NarrowingInv, NarrowedInv, ChallengeReady, MultiplyingInv, MultipliedInv, ProductInPlace
<1>6. CASE Widen
  <2>1. /\ step = "widen"
        /\ cell' = [cell EXCEPT ![2 * index + 1] = <<"sign of p", cell[index][2]>>,
                                ![2 * index] = cell[index]]
        /\ index' = IF index = 0 THEN 0 ELSE index - 1
        /\ step' = IF index = 0 THEN "done" ELSE step
    BY <1>6 DEF Widen, Lower, LowHalf, HighHalf
  <2>2. index \in Coeff /\ Shape /\ cell[index] = <<"p", index>>
    <3>1. index \in Coeff
      BY <2>1 DEF WideningInv
    <3>2. index \in 0..index
      BY <3>1 DEF Coeff
    <3> QED
      BY <2>1, <3>1, <3>2 DEF WideningInv
  <2>3. /\ Shape'
        /\ \A x \in Cells : cell'[x] = IF x = 2 * index THEN <<"p", index>>
                                       ELSE IF x = 2 * index + 1 THEN <<"sign of p", index>>
                                       ELSE cell[x]
    <3>1. <<"p", index>>[2] = index
      OBVIOUS
    <3>2. cell[index][2] = index
      BY <2>2, <3>1
    <3>3. 2 * index # 2 * index + 1
      BY <2>2 DEF Coeff
    <3> QED
      BY <2>1, <2>2, <3>2, <3>3 DEF Shape
  <2>5. \A i \in index..(N - 1) :
          cell'[2 * i] = <<"p", i>> /\ cell'[2 * i + 1] = <<"sign of p", i>>
    <3>1. ASSUME NEW i \in index..(N - 1)
          PROVE  /\ 2 * i \in Cells /\ 2 * i + 1 \in Cells
                 /\ 2 * i # 2 * index + 1 /\ 2 * i + 1 # 2 * index
                 /\ i # index => /\ i \in (index + 1)..(N - 1)
                                 /\ 2 * i # 2 * index /\ 2 * i + 1 # 2 * index + 1
      BY <2>2 DEF Cells, Coeff
    <3> QED
      BY <2>1, <2>3, <3>1 DEF WideningInv
  <2>6. \A i \in 0..(index - 1) : cell'[i] = <<"p", i>>
    <3>1. ASSUME NEW i \in 0..(index - 1)
          PROVE  i \in Cells /\ i \in 0..index /\ i # 2 * index /\ i # 2 * index + 1
      BY <2>2 DEF Cells, Coeff
    <3> QED
      BY <2>1, <2>3, <3>1 DEF WideningInv
  <2>7. WideningInv'
    <3>1. CASE index = 0
      BY <2>1, <3>1 DEF WideningInv
    <3>2. CASE index # 0
      <4>1. index - 1 \in Coeff /\ (index - 1) + 1 = index
        BY <2>2, <3>2 DEF Coeff
      <4>2. index' = index - 1
        BY <2>1, <3>2
      <4>3. WideningInv' = (step' = "widen" =>
                           /\ index - 1 \in Coeff
                           /\ \A i \in 0..(index - 1) : cell'[i] = <<"p", i>>
                           /\ \A i \in index..(N - 1) :
                                cell'[2 * i] = <<"p", i>>
                                /\ cell'[2 * i + 1] = <<"sign of p", i>>)
        BY <4>1, <4>2 DEF WideningInv
      <4> QED
        BY <4>3, <2>5, <2>6, <4>1 DEF WideningInv
    <3> QED
      BY <3>1, <3>2
  <2>8. ProductInPlace'
    BY <2>1, <2>2, <2>5 DEF ProductInPlace, Coeff, LowHalf, HighHalf
  <2> QED
    BY <2>1, <2>3, <2>7, <2>8 DEF NarrowingInv, NarrowedInv, ChallengeReady, MultiplyingInv, MultipliedInv
<1>7. CASE UNCHANGED bufferVars
  BY <1>7 DEF bufferVars, Shape, NarrowingInv, NarrowedInv, ChallengeReady, MultiplyingInv,
              MultipliedInv, WideningInv, ProductInPlace
<1> QED
  BY <1>1, <1>2, <1>3, <1>4, <1>5, <1>6, <1>7 DEF BufferNext

(***************************************************************************)
(* For every even N, the loops over the union end with the product in all  *)
(* coefficients: no value is overwritten before it was read                *)
(* (poly_small_ntt_copy, poly_small_basemul_invntt of smallpoly.c).        *)
(***************************************************************************)
THEOREM ProductCorrect == BufferSpec => []ProductInPlace
<1>1. BufferInv => ProductInPlace
  BY DEF BufferInv
<1> QED
  BY <1>1, InvInit, InvNext, PTL DEF BufferSpec

-----------------------------------------------------------------------------
(***************************************************************************)
(* invntt_tomont does not overflow, for every degree that DegreeAssumption *)
(* admits and all inputs below Q in absolute value, and gives coefficients *)
(* below Q again.  The invariant follows the loops: a coefficient that the *)
(* layer `len` has still to read is at most len * (Q - 1), and one that it *)
(* has written at most twice that.                                         *)
(***************************************************************************)

(* What butterfly j of the current block, and the ones after it, read.     *)
Pending(i) == i >= j /\ ~(start + len <= i /\ i < j + len)

TypeInv ==
  /\ width = 32
  /\ loop \in {"inverse", "scale", "none"}
  /\ bound \in [Index -> 0..IntMax]

LoopInv ==
  loop \in {"forward", "inverse"} =>
    /\ len \in Nat /\ start \in Nat /\ j \in Nat
    /\ 1 <= len /\ len < Degree /\ Divides(len, Degree)
    /\ start < Degree /\ Divides(2 * len, start)
    /\ start <= j /\ j < start + len

GrowthInv ==
  loop = "inverse" =>
    \A i \in Index :
      /\ bound[i] <= 2 * len * (Q - 1)
      /\ Pending(i) => bound[i] <= len * (Q - 1)

InverseInv == TypeInv /\ LoopInv /\ GrowthInv /\ BelowQ

-----------------------------------------------------------------------------
(* Multiples                                                               *)

(* After one multiple of d below another, there is room for d more: a      *)
(* block that starts below Degree ends there at the latest.                *)
LEMMA NextMultiple ==
  ASSUME NEW d \in Nat \ {0}, NEW x \in Nat, NEW n \in Nat,
         Divides(d, x), Divides(d, n), x < n
  PROVE  x + d <= n /\ Divides(d, x + d)
<1>1. PICK k \in 0..x : x = k * d
  BY DEF Divides
<1>2. PICK m \in 0..n : n = m * d
  BY DEF Divides
<1>3. k < m
  <2>1. SUFFICES ASSUME m <= k PROVE FALSE
    OBVIOUS
  <2>2. m * d <= k * d
    BY <2>1
  <2> QED
    BY <2>2, <1>1, <1>2
<1>4. (k + 1) * d = x + d
  BY <1>1
<1>5. (k + 1) * d <= m * d
  BY <1>3
<1>6. k + 1 \in 0..(x + d)
  <2>1. k <= x
    BY <1>1
  <2> QED
    BY <2>1
<1> QED
  BY <1>2, <1>4, <1>5, <1>6 DEF Divides

(* Zero is a multiple of everything. *)
LEMMA ZeroMultiple ==
  ASSUME NEW d \in Nat PROVE Divides(d, 0)
<1>1. 0 = 0 * d
  OBVIOUS
<1> QED
  BY <1>1 DEF Divides

(* Within the loops, a block of 2 * len coefficients fits.                 *)
LEMMA BlockFits ==
  ASSUME LoopInv, loop \in {"forward", "inverse"}
  PROVE  /\ Divides(2 * len, Degree)
         /\ start + 2 * len <= Degree
         /\ Divides(2 * len, start + 2 * len)
         /\ 2 * len <= Degree
         /\ j \in Index /\ j + len \in Index /\ j # j + len
<1>1. Divides(2 * len, Degree)
  BY DegreeAssumption DEF LoopInv
<1>2. start + 2 * len <= Degree /\ Divides(2 * len, start + 2 * len)
  <2>1. 2 * len \in Nat \ {0}
    BY DEF LoopInv
  <2> QED
    BY <2>1, <1>1, NextMultiple, DegreeAssumption DEF LoopInv
<1> QED
  BY <1>1, <1>2, DegreeAssumption DEF LoopInv, Index

(* Within a layer the loops go on to coefficients that are still pending. *)
LEMMA LoopAdvances ==
  ASSUME LoopInv, loop \in {"forward", "inverse"}, NextButterfly \/ NextBlock
  PROVE  /\ loop' = loop /\ len' = len /\ LoopInv'
         /\ \A i \in Index : Pending(i)' => Pending(i) /\ i # j /\ i # j + len
<1>1. /\ len \in Nat /\ start \in Nat /\ j \in Nat /\ 1 <= len
      /\ start <= j /\ j < start + len /\ len < Degree /\ Divides(len, Degree)
  BY DEF LoopInv
<1>2. /\ Divides(2 * len, start + 2 * len) /\ start + 2 * len <= Degree
  BY BlockFits
<1>3. CASE NextButterfly
  <2>1. /\ loop' = loop /\ len' = len /\ start' = start /\ j' = j + 1
        /\ j + 1 < start + len
    BY <1>3 DEF NextButterfly
  <2>2. LoopInv'
    BY <2>1, <1>1 DEF LoopInv, Divides
  <2>3. \A i \in Index : Pending(i)' => Pending(i) /\ i # j /\ i # j + len
    BY <2>1, <1>1 DEF Pending, Index
  <2> QED
    BY <2>1, <2>2, <2>3
<1>4. CASE NextBlock
  <2>1. /\ loop' = loop /\ len' = len /\ start' = start + 2 * len /\ j' = start'
        /\ j + 1 = start + len /\ start + 2 * len < Degree
    BY <1>4 DEF NextBlock
  <2>2. LoopInv'
    <3>1. /\ Divides(len, Degree)' <=> Divides(len, Degree)
          /\ Divides(2 * len, start)' <=> Divides(2 * len, start + 2 * len)
      BY <2>1 DEF Divides
    <3>2. /\ len' \in Nat /\ start' \in Nat /\ j' \in Nat /\ 1 <= len' /\ len' < Degree
          /\ start' < Degree /\ start' <= j' /\ j' < start' + len'
      BY <2>1, <1>1
    <3> QED
      BY <3>1, <3>2, <1>1, <1>2 DEF LoopInv
  <2>3. \A i \in Index : Pending(i)' => Pending(i) /\ i # j /\ i # j + len
    BY <2>1, <1>1 DEF Pending, Index
  <2> QED
    BY <2>1, <2>2, <2>3
<1> QED
  BY <1>3, <1>4

(* The next layer of an inverse transform. *)
LEMMA InverseLayer ==
  ASSUME LoopInv, loop = "inverse", NextInverseLayer
  PROVE  /\ len' = 2 * len /\ loop' \in {"inverse", "scale"} /\ LoopInv'
<1>1. len \in Nat /\ 1 <= len /\ Divides(2 * len, Degree) /\ 2 * len <= Degree
  BY BlockFits DEF LoopInv
<1>2. /\ len' = 2 * len /\ start' = 0 /\ j' = 0
      /\ loop' = IF 2 * len < Degree THEN "inverse" ELSE "scale"
  BY DEF NextInverseLayer
<1>3. Divides(2 * (2 * len), 0)
  BY <1>1, ZeroMultiple
<1>4. LoopInv'
  BY <1>1, <1>2, <1>3, DegreeAssumption DEF LoopInv, Divides
<1> QED
  BY <1>2, <1>4

-----------------------------------------------------------------------------
(* Arithmetic                                                              *)

(* What is used of the two constants where they are not expanded. *)
LEMMA Numbers ==
  /\ Q \in Nat /\ Q > 1 /\ IntMax \in Nat /\ Q - 1 <= IntMax /\ Lost \notin Nat
  BY SMT DEF Q, IntMax, Lost

LEMMA ProductMonotonic ==
  ASSUME NEW a \in Nat, NEW b \in Nat, NEW c \in Nat, a <= b
  PROVE  a * c <= b * c
<1>1. b * c - a * c = (b - a) * c
  OBVIOUS
<1>2. (b - a) * c \in Nat
  OBVIOUS
<1> QED
  BY <1>1, <1>2

LEMMA Doubled ==
  ASSUME NEW a \in Nat, NEW c \in Nat
  PROVE  /\ 2 * a * c = a * c + a * c
         /\ a * c \in Nat
         /\ 1 <= a => c <= a * c
<1>1. 2 * a * c = a * c + a * c /\ a * c \in Nat
  OBVIOUS
<1>2. 1 <= a => 1 * c <= a * c
  BY ProductMonotonic
<1> QED
  BY <1>1, <1>2

(* montgomery_reduce of a 32-bit integer times a root of unity, or times   *)
(* the factor of the last loop, stays below Q.                             *)
LEMMA MontgomeryBelowQ ==
  ASSUME NEW x \in Nat, x <= IntMax
  PROVE  /\ Montgomery((Q - 1) \div 2, x) \in Nat
         /\ Montgomery((Q - 1) \div 2, x) <= Q - 1
         /\ Montgomery(41978, x) \in Nat
         /\ Montgomery(41978, x) <= Q - 1
<1>1. Pieces(x) \in Nat /\ Pieces(x) <= 32768
  BY SMT DEF Pieces, IntMax
<1>2. Pieces((Q - 1) \div 2) = 64 /\ Pieces(41978) = 1
  BY SMT DEF Pieces, Q
<1>3. x # Lost /\ (Q - 1) \div 2 # Lost /\ 41978 # Lost
  BY SMT DEF Lost, Q
<1>4. (Q - 1) \div 2 = 4190208 /\ (Q + 1) \div 2 = 4190209
  BY SMT DEF Q
<1>5. /\ Montgomery((Q - 1) \div 2, x) = 64 * Pieces(x) + 4190209
      /\ Montgomery(41978, x) = Pieces(x) + 4190209
  BY <1>1, <1>2, <1>3, <1>4, SMT DEF Montgomery
<1> QED
  BY <1>1, <1>5, SMT DEF Q

(* The two results of a butterfly on coefficients that are not too large.  *)
LEMMA ButterflyBounds ==
  ASSUME width = 32, NEW x \in Nat, NEW y \in Nat, x + y <= IntMax
  PROVE  /\ Collected(x, y) = x + y
         /\ Difference(x, y) \in Nat
         /\ Difference(x, y) <= Q - 1
<1>1. Plus(x, y) = x + y
  BY Numbers DEF Plus, Limit
<1>2. Collected(x, y) = x + y /\ Difference(x, y) = Montgomery((Q - 1) \div 2, x + y)
  BY <1>1 DEF Collected, Difference, TimesZeta
<1> QED
  BY <1>2, MontgomeryBelowQ

-----------------------------------------------------------------------------
(* The invariant                                                           *)

LEMMA InverseInitial == InverseInit => InverseInv
<1> SUFFICES ASSUME InverseInit PROVE InverseInv
  OBVIOUS
<1>1. TypeInv
  BY Numbers DEF InverseInit, TypeInv
<1>2. LoopInv
  <2>1. Degree = Degree * 1 /\ Degree \in 0..Degree
    BY DegreeAssumption
  <2>2. Divides(1, Degree)
    BY <2>1 DEF Divides
  <2>3. Divides(2 * 1, 0)
    BY ZeroMultiple
  <2> QED
    BY <2>2, <2>3, DegreeAssumption DEF InverseInit, LoopInv
<1>3. GrowthInv
  <2>1. \A i \in Index : bound[i] <= 1 * (Q - 1) /\ bound[i] <= 2 * 1 * (Q - 1)
    BY Numbers DEF InverseInit
  <2> QED
    BY <2>1 DEF InverseInit, GrowthInv
<1> QED
  BY <1>1, <1>2, <1>3 DEF InverseInv, BelowQ, InverseInit

(* One butterfly: it reads two coefficients that the layer has not         *)
(* written, and doubles their bound at most.                               *)
LEMMA ButterflyStep ==
  ASSUME InverseInv, InverseButterfly
  PROVE  InverseInv'
<1> USE DEF InverseInv
<1>1. loop = "inverse" /\ width = 32 /\ width' = 32
  BY DEF InverseButterfly, TypeInv
<1>2. /\ len \in Nat /\ start \in Nat /\ j \in Nat /\ 1 <= len
      /\ start <= j /\ j < start + len
  BY <1>1 DEF LoopInv
<1>3. /\ Divides(2 * len, Degree) /\ Divides(2 * len, start + 2 * len)
      /\ start + 2 * len <= Degree /\ 2 * len <= Degree
      /\ j \in Index /\ j + len \in Index /\ j # j + len
  BY <1>1, BlockFits
<1>4. /\ bound[j] \in 0..IntMax /\ bound[j + len] \in 0..IntMax
      /\ bound[j] <= len * (Q - 1) /\ bound[j + len] <= len * (Q - 1)
  <2>1. Pending(j) /\ Pending(j + len)
    BY <1>2 DEF Pending
  <2> QED
    BY <2>1, <1>1, <1>3 DEF TypeInv, GrowthInv
<1>5. /\ 2 * len * (Q - 1) \in Nat /\ 2 * len * (Q - 1) <= IntMax
      /\ Q - 1 <= 2 * len * (Q - 1)
      /\ 2 * len * (Q - 1) = len * (Q - 1) + len * (Q - 1)
  <2>1. (2 * len) * (Q - 1) <= Degree * (Q - 1)
    BY <1>2, <1>3, Numbers, DegreeAssumption, ProductMonotonic
  <2>2. Q - 1 <= (2 * len) * (Q - 1) /\ (2 * len) * (Q - 1) \in Nat
    BY <1>2, Numbers, Doubled
  <2>3. 2 * len * (Q - 1) = len * (Q - 1) + len * (Q - 1)
    BY <1>2, Numbers, Doubled
  <2> QED
    BY <2>1, <2>2, <2>3, <1>2, Numbers, DegreeAssumption
<1>6. bound[j] + bound[j + len] <= 2 * len * (Q - 1)
  BY <1>2, <1>4, <1>5, Numbers, Doubled
<1>7. /\ Collected(bound[j], bound[j + len]) = bound[j] + bound[j + len]
      /\ Difference(bound[j], bound[j + len]) \in 0..(Q - 1)
  BY <1>1, <1>4, <1>5, <1>6, Numbers, ButterflyBounds
<1>8. bound' = [bound EXCEPT ![j] = Collected(bound[j], bound[j + len]),
                            ![j + len] = Difference(bound[j], bound[j + len])]
  BY DEF InverseButterfly
<1>9. /\ bound' \in [Index -> 0..IntMax]
      /\ \A i \in Index : bound'[i] <= 2 * len * (Q - 1)
      /\ \A i \in Index : Pending(i) /\ i # j /\ i # j + len => bound'[i] <= len * (Q - 1)
  <2>1. bound'[j] \in 0..IntMax /\ bound'[j] <= 2 * len * (Q - 1)
    BY <1>3, <1>4, <1>5, <1>6, <1>7, <1>8, Numbers DEF TypeInv
  <2>2. bound'[j + len] \in 0..IntMax /\ bound'[j + len] <= 2 * len * (Q - 1)
    BY <1>3, <1>5, <1>7, <1>8, Numbers DEF TypeInv
  <2>3. \A i \in Index : i # j /\ i # j + len => bound'[i] = bound[i]
    BY <1>3, <1>8 DEF TypeInv
  <2>4. bound' \in [Index -> 0..IntMax]
    BY <2>1, <2>2, <2>3, <1>3, <1>8 DEF TypeInv
  <2> QED
    BY <2>1, <2>2, <2>3, <2>4, <1>1 DEF GrowthInv
<1>10. TypeInv'
  <2>1. loop' \in {"inverse", "scale", "none"}
    BY <1>1 DEF InverseButterfly, NextButterfly, NextBlock, NextInverseLayer
  <2> QED
    BY <2>1, <1>1, <1>9 DEF TypeInv, Index
<1>11. CASE NextButterfly \/ NextBlock
  <2>1. /\ loop' = loop /\ len' = len /\ LoopInv'
        /\ \A i \in Index : Pending(i)' => Pending(i) /\ i # j /\ i # j + len
    BY <1>1, <1>11, LoopAdvances
  <2>2. GrowthInv'
    BY <2>1, <1>9 DEF GrowthInv, Index
  <2> QED
    BY <2>1, <2>2, <1>1, <1>10 DEF BelowQ
<1>12. CASE NextInverseLayer
  <2>1. len' = 2 * len /\ loop' \in {"inverse", "scale"} /\ LoopInv'
    BY <1>1, <1>12, InverseLayer
  <2>2. GrowthInv'
    <3>1. /\ len' * (Q - 1) = 2 * len * (Q - 1)
          /\ 2 * len' * (Q - 1) = len' * (Q - 1) + len' * (Q - 1)
      BY <2>1, <1>2, Numbers, Doubled
    <3>2. \A i \in Index : bound'[i] <= len' * (Q - 1) /\ bound'[i] <= 2 * len' * (Q - 1)
      <4> TAKE i \in Index
      <4>1. bound'[i] \in Nat
        BY <1>9, Numbers
      <4>2. bound'[i] <= len' * (Q - 1)
        BY <3>1, <1>9
      <4> QED
        BY <4>1, <4>2, <3>1, <1>5
    <3> QED
      BY <3>2 DEF GrowthInv, Index
  <2>3. BelowQ'
    BY <2>1 DEF BelowQ
  <2> QED
    BY <2>1, <2>2, <2>3, <1>10
<1> QED
  BY <1>11, <1>12, <1>12 DEF InverseButterfly

(* The last loop, which multiplies every coefficient by f.                 *)
LEMMA ScaleStep ==
  ASSUME InverseInv, Scale
  PROVE  InverseInv'
<1>1. width = 32 /\ width' = 32 /\ loop' = "none" /\ bound \in [Index -> 0..IntMax]
  BY DEF Scale, InverseInv, TypeInv
<1>2. \A i \in Index : Scaled(bound[i]) \in 0..(Q - 1)
  <2> TAKE i \in Index
  <2>1. bound[i] \in Nat /\ bound[i] <= IntMax
    BY <1>1, Numbers
  <2>2. Montgomery(41978, bound[i]) \in Nat /\ Montgomery(41978, bound[i]) <= Q - 1
    BY <2>1, MontgomeryBelowQ
  <2> QED
    BY <2>2, <1>1, Numbers DEF Scaled
<1>3. bound' \in [Index -> 0..(Q - 1)]
  BY <1>2 DEF Scale
<1>4. \A i \in Index : bound'[i] < Q /\ bound'[i] \in 0..IntMax
  BY <1>3, Numbers
<1>5. TypeInv'
  BY <1>1, <1>3, <1>4 DEF TypeInv, Index
<1>6. BelowQ'
  BY <1>4 DEF BelowQ, Index
<1> QED
  BY <1>1, <1>5, <1>6 DEF InverseInv, LoopInv, GrowthInv

(* A step that changes nothing. *)
LEMMA StutterStep ==
  ASSUME InverseInv, UNCHANGED butterflyVars
  PROVE  InverseInv'
<1> USE DEF butterflyVars, loopVars
<1>1. TypeInv' /\ BelowQ'
  BY DEF InverseInv, TypeInv, BelowQ, Index
<1>2. LoopInv'
  BY DEF InverseInv, LoopInv, Divides
<1>3. GrowthInv'
  BY DEF InverseInv, GrowthInv, Pending, Index
<1> QED
  BY <1>1, <1>2, <1>3 DEF InverseInv

LEMMA InverseInvariant == InverseSpec => []InverseInv
<1>1. InverseInv /\ [InverseButterfly \/ Scale]_butterflyVars => InverseInv'
  BY ButterflyStep, ScaleStep, StutterStep
<1> QED
  BY <1>1, InverseInitial, PTL DEF InverseSpec

(***************************************************************************)
(* invntt_tomont (c-ref/ntt.c) never computes a sum or a difference that   *)
(* does not fit 32 bits, nor reduces a product that is too large: for      *)
(* every degree within the assumption and all inputs below Q.              *)
(***************************************************************************)
THEOREM InverseInRange == InverseSpec => []InRange
<1>1. InverseInv => InRange
  BY Numbers DEF InverseInv, TypeInv, InRange
<1> QED
  BY <1>1, InverseInvariant, PTL

(* What its comment says of the output: "smaller than Q in absolute value" *)
(* again, so that it may be added to and handed to caddq as it is.         *)
THEOREM InverseBelowQ == InverseSpec => []BelowQ
<1>1. InverseInv => BelowQ
  BY DEF InverseInv
<1> QED
  BY <1>1, InverseInvariant, PTL

-----------------------------------------------------------------------------
(***************************************************************************)
(* Classes of polynomials                                                  *)
(***************************************************************************)
WideClass == {"half", "low", "sum", "total", "hat"}
SmallClass == {"short", "small_hat", "pair", "centred"}
Class == WideClass \cup SmallClass
WidthOf(c) == IF c \in SmallClass THEN 16 ELSE 32

Most(c) ==
  CASE c = "half" -> Q - 1 - 2^20
    [] c = "low" -> Q - 1
    [] c = "sum" -> 60 * (Q - 1)
    [] c = "total" -> 62 * (Q - 1)
    [] c = "hat" -> 9 * (Q - 1)
    [] c = "short" -> 16
    [] c = "small_hat" -> 17495
    [] c = "pair" -> 16383
    [] c = "centred" -> 1664
    [] c = "product" -> 6335   \* of two coefficients, by small_basemul

Within(v, c) == v \in [Index -> Nat] /\ \A i \in Index : v[i] <= Most(c)

LEMMA MostOnce == Most("half") = 7331840 /\ Most("low") = 8380416
BY SMT DEF Most, Q

LEMMA MostSums ==
  Most("sum") = 502824960 /\ Most("total") = 519585792 /\ Most("hat") = 75423744
BY SMT DEF Most, Q

LEMMA MostShort ==
  /\ Most("short") = 16 /\ Most("small_hat") = 17495
  /\ Most("pair") = 16383 /\ Most("centred") = 1664 /\ Most("product") = 6335
BY SMT DEF Most

LEMMA Numerals == Q = 8380417 /\ IntMax = 2147483647 /\ Lost = -1
BY SMT DEF Q, IntMax, Lost

LEMMA ProductBound ==
  ASSUME NEW x \in Nat, NEW y \in Nat, NEW m \in Nat, x <= m, y <= m
  PROVE  x * y \in Nat /\ x * y <= m * m
<1>1. x * y <= m * y
  BY ProductMonotonic
<1>2. y * m <= m * m
  BY ProductMonotonic
<1> QED
  BY <1>1, <1>2

(* montgomery_reduce of a product of two polynomials that were transformed. *)
LEMMA MontgomeryHalf ==
  ASSUME NEW x \in Nat, NEW y \in Nat, x <= Most("hat"), y <= Most("hat")
  PROVE  Montgomery(x, y) \in Nat /\ Montgomery(x, y) <= Most("half")
<1>0. x <= 75423744 /\ y <= 75423744
  BY MostSums, SMT
<1>1. /\ Pieces(x) \in Nat /\ Pieces(x) <= 1151
      /\ Pieces(y) \in Nat /\ Pieces(y) <= 1151
  BY <1>0, SMT DEF Pieces
<1>2. Pieces(x) * Pieces(y) \in Nat /\ Pieces(x) * Pieces(y) <= 1151 * 1151
  BY <1>1, ProductBound
<1> DEFINE n == Pieces(x) * Pieces(y)
<1>3. Montgomery(x, y) = IF n > 4190208 THEN Lost ELSE n + 4190209
  <2>1. (Q - 1) \div 2 = 4190208 /\ (Q + 1) \div 2 = 4190209 /\ x # Lost /\ y # Lost
    BY SMT DEF Q, Lost
  <2> QED
    BY <2>1, SMT DEF Montgomery
<1> HIDE DEF n
<1>4. n \in Nat /\ n <= 1324801
  BY <1>2, SMT DEF n
<1> QED
  BY <1>3, <1>4, MostOnce, SMT

LEMMA MontgomeryZeta ==
  ASSUME NEW x \in Nat, x <= 2147483647
  PROVE  /\ Montgomery((Q - 1) \div 2, x) \in Nat /\ Montgomery((Q - 1) \div 2, x) <= 8380416
         /\ Montgomery(41978, x) \in Nat /\ Montgomery(41978, x) <= 7331840
<1>1. Pieces(x) \in Nat /\ Pieces(x) <= 32768
  BY SMT DEF Pieces
<1>2. Pieces((Q - 1) \div 2) = 64 /\ Pieces(41978) = 1
  BY SMT DEF Pieces, Q
<1>3. x # Lost /\ (Q - 1) \div 2 # Lost /\ 41978 # Lost
  BY SMT DEF Lost, Q
<1>4. (Q - 1) \div 2 = 4190208 /\ (Q + 1) \div 2 = 4190209
  BY SMT DEF Q
<1>5. /\ Montgomery((Q - 1) \div 2, x) = 64 * Pieces(x) + 4190209
      /\ Montgomery(41978, x) = Pieces(x) + 4190209
  BY <1>1, <1>2, <1>3, <1>4, SMT DEF Montgomery
<1> QED
  BY <1>1, <1>5, SMT

LEMMA ReducedHalf ==
  ASSUME NEW x \in Nat, x <= Most("total")
  PROVE  Reduced(x) \in Nat /\ Reduced(x) <= Most("half")
<1>0. x <= 519585792
  BY MostSums, SMT
<1>1. /\ 2^22 = 4194304 /\ 2^23 = 8388608 /\ 8388608 - Q = 8191 /\ x # Lost
      /\ IntMax - 4194304 = 2143289343
  BY SMT DEF Q, Lost, IntMax
<1>2. Reduced(x) = ((x + 4194304) \div 8388608) * 8191 + 4194304
  BY <1>0, <1>1, SMT DEF Reduced
<1>3. (x + 4194304) \div 8388608 \in Nat /\ (x + 4194304) \div 8388608 <= 62
  BY <1>0, SMT
<1> QED
  BY <1>2, <1>3, MostOnce, SMT

(* 16 bits. *)
LEMMA FqmulZeta ==
  ASSUME NEW x \in Nat, x <= 32767
  PROVE  /\ Fqmul((SMALL_Q - 1) \div 2, x) \in Nat /\ Fqmul((SMALL_Q - 1) \div 2, x) <= 2497
         /\ Fqmul(x, (SMALL_Q - 1) \div 2) \in Nat /\ Fqmul(x, (SMALL_Q - 1) \div 2) <= 2497
         /\ Fqmul(x, 1441) \in Nat /\ Fqmul(x, 1441) <= 2497
<1>1. (SMALL_Q - 1) \div 2 = 1664 /\ 2^15 * SMALL_Q = 109084672 /\ 2^16 = 65536
  BY SMT DEF SMALL_Q
<1>2. x # Lost /\ 1664 # Lost /\ 1441 # Lost
  BY SMT DEF Lost
<1>3. /\ Fqmul(1664, x) = (1664 * x + 109084672) \div 65536
      /\ Fqmul(x, 1664) = (x * 1664 + 109084672) \div 65536
      /\ Fqmul(x, 1441) = (x * 1441 + 109084672) \div 65536
  BY <1>1, <1>2, SMT DEF Fqmul
<1> QED
  BY <1>1, <1>3, SMT

LEMMA FqmulHats ==
  ASSUME NEW x \in Nat, NEW y \in Nat, x <= Most("small_hat"), y <= Most("small_hat")
  PROVE  Fqmul(x, y) \in Nat /\ Fqmul(x, y) <= Most("product")
<1>0. x <= 17495 /\ y <= 17495
  BY MostShort
<1>1. x * y \in Nat /\ x * y <= 17495 * 17495
  BY <1>0, ProductBound
<1>2. 2^15 * SMALL_Q = 109084672 /\ 2^16 = 65536 /\ x # Lost /\ y # Lost
  BY SMT DEF SMALL_Q, Lost
<1> DEFINE n == x * y
<1>3. Fqmul(x, y) = (n + 109084672) \div 65536
  BY <1>2, SMT DEF Fqmul
<1> HIDE DEF n
<1>4. n \in Nat /\ n <= 306075025
  BY <1>1, SMT DEF n
<1> QED
  BY <1>3, <1>4, MostShort, SMT

-----------------------------------------------------------------------------
(* The forward transforms.                                                 *)

LEMMA Degrees == Degree \in {4, 8, 16, 32, 64, 128, 256}
<1>1. Degree \in Nat /\ Degree > 2
  BY DegreeAssumption, PairAssumption
<1>2. Degree <= 256
  <2>1. SUFFICES ASSUME 257 <= Degree PROVE FALSE
    BY <1>1, SMT
  <2>2. Degree * (Q - 1) <= 2147483647 /\ Q - 1 = 8380416
    BY DegreeAssumption, SMT DEF Q, IntMax
  <2>3. Degree * 8380416 <= 2147483647
    BY <2>2, SMT
  <2> QED
    BY <1>1, <2>1, <2>3, SMT
<1>3. Divides(1, Degree)
  <2>1. Degree = Degree * 1 /\ Degree \in 0..Degree
    BY <1>1
  <2> QED
    BY <2>1 DEF Divides
<1>4. ASSUME NEW d \in Nat \ {0}, Divides(d, Degree), d < Degree
      PROVE  Divides(2 * d, Degree) /\ 2 * d <= Degree
  <2>1. d \in 1..(Degree - 1)
    BY <1>1, <1>4
  <2>2. Divides(2 * d, Degree)
    BY <2>1, <1>4, DegreeAssumption
  <2>3. PICK k \in 0..Degree : Degree = k * (2 * d)
    BY <2>2 DEF Divides
  <2>4. 1 <= k
    <3>1. k # 0
      BY <1>1, <2>3
    <3> QED
      BY <3>1
  <2>5. 1 * (2 * d) <= k * (2 * d)
    BY <2>4, ProductMonotonic
  <2> QED
    BY <2>2, <2>3, <2>5
<1>5. Divides(2, Degree)
  BY <1>1, <1>3, <1>4
<1>6. Divides(4, Degree) /\ 4 <= Degree
  BY <1>1, <1>4, <1>5
<1>7. Degree = 4 \/ (Divides(8, Degree) /\ 8 <= Degree)
  BY <1>1, <1>4, <1>6
<1>8. Degree \in {4, 8} \/ (Divides(16, Degree) /\ 16 <= Degree)
  BY <1>1, <1>4, <1>7
<1>9. Degree \in {4, 8, 16} \/ (Divides(32, Degree) /\ 32 <= Degree)
  BY <1>1, <1>4, <1>8
<1>10. Degree \in {4, 8, 16, 32} \/ (Divides(64, Degree) /\ 64 <= Degree)
  BY <1>1, <1>4, <1>9
<1>11. Degree \in {4, 8, 16, 32, 64} \/ (Divides(128, Degree) /\ 128 <= Degree)
  BY <1>1, <1>4, <1>10
<1>12. Degree \in {4, 8, 16, 32, 64, 128} \/ 256 <= Degree
  BY <1>1, <1>4, <1>11
<1> QED
  BY <1>1, <1>2, <1>12

(* The block length of each layer. *)
LayerLen(k) ==
  CASE k = 0 -> Degree \div 2
    [] k = 1 -> Degree \div 4
    [] k = 2 -> Degree \div 8
    [] k = 3 -> Degree \div 16
    [] k = 4 -> Degree \div 32
    [] k = 5 -> Degree \div 64
    [] k = 6 -> Degree \div 128
    [] k = 7 -> Degree \div 256

LEMMA LayerLengths ==
  ASSUME NEW k \in 0..7
  PROVE  /\ LayerLen(k) \in Nat /\ LayerLen(k) < Degree
         /\ LayerLen(k) >= 1 => Divides(LayerLen(k), Degree)
         /\ LayerLen(k) >= 2 => k <= 6 /\ LayerLen(k) \div 2 = LayerLen(k + 1)
         /\ k = 7 => LayerLen(k) <= 1
<1> DEFINE l == LayerLen(k)
<1>1. /\ LayerLen(0) = Degree \div 2 /\ LayerLen(1) = Degree \div 4
      /\ LayerLen(2) = Degree \div 8 /\ LayerLen(3) = Degree \div 16
      /\ LayerLen(4) = Degree \div 32 /\ LayerLen(5) = Degree \div 64
      /\ LayerLen(6) = Degree \div 128 /\ LayerLen(7) = Degree \div 256
  BY SMT DEF LayerLen
<1>2. k \in {0, 1, 2, 3, 4, 5, 6, 7}
  OBVIOUS
<1>3. l \in Nat /\ l < Degree /\ (l >= 2 => k <= 6 /\ l \div 2 = LayerLen(k + 1)) /\ (k = 7 => l <= 1)
  BY <1>1, <1>2, Degrees, SMT
<1>4. ASSUME l >= 1
      PROVE  Divides(l, Degree)
  <2>1. \E m \in {2, 4, 8, 16, 32, 64, 128, 256} : m <= Degree /\ Degree = m * l
    BY <1>1, <1>2, <1>4, Degrees, SMT
  <2> QED
    BY <2>1, <1>3, DegreeAssumption DEF Divides
<1> QED
  BY <1>3, <1>4

(* Every layer adds a product with a root of unity to the coefficients.    *)
LayerInv(base, z) ==
  loop = "forward" =>
    \E k \in 0..7 :
      /\ len = LayerLen(k) /\ SmallestLen <= len
      /\ \A i \in Index :
           /\ bound[i] <= base + (k + 1) * z
           /\ Pending(i) => bound[i] <= base + k * z

LEMMA PlusSum ==
  ASSUME NEW x \in Nat, NEW y \in Nat, x + y <= Limit
  PROVE  Plus(x, y) = x + y
<1>1. x # Lost /\ y # Lost /\ Limit \in Int
  BY Numbers, SMT DEF Lost, Limit, IntMax
<1>2. ~(x > Limit - y)
  BY <1>1
<1> QED
  BY <1>1, <1>2 DEF Plus

LEMMA ForwardStep ==
  ASSUME loop = "forward", LoopInv, bound \in [Index -> Nat], ForwardButterfly,
         NEW base \in Nat, NEW z \in Nat, NEW top \in Nat, LayerInv(base, z),
         width \in {16, 32}, top = IF width = 16 THEN 7 ELSE 8, base + top * z <= Limit,
         \A x \in Nat : x <= Limit => TimesZeta(x) \in Nat /\ TimesZeta(x) <= z
  PROVE  /\ width' = width /\ bound' \in [Index -> Nat]
         /\ loop' \in {"forward", "none"} /\ LoopInv' /\ LayerInv(base, z)'
         /\ loop' = "none" => \A i \in Index : bound'[i] <= base + top * z
<1>1. PICK k \in 0..7 :
        /\ len = LayerLen(k) /\ SmallestLen <= len
        /\ \A i \in Index :
             /\ bound[i] <= base + (k + 1) * z
             /\ Pending(i) => bound[i] <= base + k * z
  BY DEF LayerInv
<1>2. /\ len \in Nat /\ start \in Nat /\ j \in Nat /\ 1 <= len
      /\ start <= j /\ j < start + len
      /\ j \in Index /\ j + len \in Index /\ j # j + len
  BY BlockFits DEF LoopInv
<1>3. k + 1 <= top
  <2>1. width = 16 => 2 <= len
    BY <1>1 DEF SmallestLen
  <2> QED
    BY <2>1, <1>1, LayerLengths
<1> DEFINE a == base + k * z  b == base + (k + 1) * z  c == base + top * z
<1>4. a \in Nat /\ b = a + z /\ b <= c /\ c \in Nat
  <2>1. (k + 1) * z <= top * z
    BY <1>3, ProductMonotonic
  <2>2. (k + 1) * z = k * z + z /\ k * z \in Nat /\ top * z \in Nat
    OBVIOUS
  <2> QED
    BY <2>1, <2>2
<1>5. c <= Limit /\ Limit \in Nat
  BY Numbers DEF Limit
<1>6. \A i \in Index : bound[i] \in Nat /\ bound[i] <= b /\ (Pending(i) => bound[i] <= a)
  BY <1>1
<1>7. bound[j] <= a /\ bound[j + len] <= a
  <2>1. Pending(j) /\ Pending(j + len)
    BY <1>2 DEF Pending
  <2> QED
    BY <2>1, <1>2, <1>6
<1> DEFINE t == TimesZeta(bound[j + len])
<1>8. LayerInv(base, z)' <=>
        (loop' = "forward" =>
          \E n \in 0..7 :
            /\ len' = LayerLen(n) /\ SmallestLen' <= len'
            /\ \A i \in Index :
                 /\ bound'[i] <= base + (n + 1) * z
                 /\ Pending(i)' => bound'[i] <= base + n * z)
  BY DEF LayerInv, LayerLen, Index
<1> HIDE DEF a, b, c
<1>9. t \in Nat /\ t <= z
  BY <1>2, <1>4, <1>5, <1>6, <1>7
<1> HIDE DEF t
<1>10. Plus(bound[j], t) \in Nat /\ Plus(bound[j], t) <= b
  <2>1. bound[j] \in Nat /\ bound[j] + t <= Limit /\ bound[j] + t <= b
    BY <1>2, <1>4, <1>5, <1>6, <1>7, <1>9
  <2>2. Plus(bound[j], t) = bound[j] + t
    BY <2>1, <1>9, PlusSum
  <2> QED
    BY <2>1, <2>2, <1>9
<1>11. bound' = [bound EXCEPT ![j] = Plus(bound[j], t), ![j + len] = Plus(bound[j], t)]
  BY DEF ForwardButterfly, t
<1>12. /\ bound' \in [Index -> Nat]
       /\ \A i \in Index : bound'[i] <= b
       /\ \A i \in Index : Pending(i) /\ i # j /\ i # j + len => bound'[i] <= a
  BY <1>2, <1>6, <1>10, <1>11
<1>13. width' = width /\ SmallestLen' = SmallestLen
  BY DEF ForwardButterfly, SmallestLen
<1>14. CASE NextButterfly \/ NextBlock
  <2>1. /\ loop' = loop /\ len' = len /\ LoopInv'
        /\ \A i \in Index : Pending(i)' => Pending(i) /\ i # j /\ i # j + len
    BY <1>14, LoopAdvances
  <2>2. \A i \in Index : /\ bound'[i] <= base + (k + 1) * z
                         /\ Pending(i)' => bound'[i] <= base + k * z
    BY <2>1, <1>12 DEF a, b
  <2>3. LayerInv(base, z)'
    <3>1. len' = LayerLen(k) /\ SmallestLen' <= len' /\ k \in 0..7
      BY <2>1, <1>1, <1>13
    <3> QED
      BY <3>1, <2>2, <1>8, Zenon
  <2> QED
    BY <2>1, <2>3, <1>12, <1>13
<1>15. CASE NextForwardLayer
  <2>1. /\ len' = len \div 2 /\ start' = 0 /\ j' = 0
        /\ loop' = IF len \div 2 < SmallestLen THEN "none" ELSE "forward"
    BY <1>13, <1>15 DEF NextForwardLayer, SmallestLen
  <2>2. CASE len \div 2 < SmallestLen
    <3>1. loop' = "none"
      BY <2>1, <2>2
    <3>2. \A i \in Index : bound'[i] <= c
      BY <1>4, <1>12
    <3> QED
      BY <3>1, <3>2, <1>8, <1>12, <1>13 DEF LoopInv, c
  <2>3. CASE ~(len \div 2 < SmallestLen)
    <3>1. loop' = "forward" /\ SmallestLen <= len' /\ 1 <= len' /\ 2 <= len /\ len' \in Nat
      BY <2>1, <2>3, <1>2 DEF SmallestLen
    <3>2. k <= 6 /\ len' = LayerLen(k + 1) /\ len' < Degree /\ Divides(len', Degree)
      <4>1. k <= 6 /\ len' = LayerLen(k + 1)
        BY <2>1, <3>1, <1>1, LayerLengths
      <4>2. k + 1 \in 0..7
        BY <4>1
      <4> QED
        BY <4>1, <4>2, <3>1, LayerLengths
    <3>3. LoopInv'
      <4> DEFINE h == len \div 2  d == 2 * h
      <4>1. d \in Nat /\ len' = h
        BY <2>1, <1>2
      <4>2. 2 * len' = d
        BY <4>1, Zenon
      <4> HIDE DEF d, h
      <4>3. Divides(d, 0)
        BY <4>1, ZeroMultiple
      <4>4. Divides(2 * len', start')
        BY <4>2, <4>3, <2>1, Zenon
      <4>5. start' \in Nat /\ j' \in Nat /\ start' < Degree /\ start' <= j' /\ j' < start' + len'
        BY <2>1, <3>1, DegreeAssumption
      <4> QED
        BY <4>4, <4>5, <3>1, <3>2 DEF LoopInv, Divides
    <3>4. \A i \in Index : /\ bound'[i] <= base + ((k + 1) + 1) * z
                           /\ bound'[i] <= base + (k + 1) * z
      <4>1. base + ((k + 1) + 1) * z = b + z /\ base + (k + 1) * z = b
        BY DEF b
      <4>2. \A i \in Index : bound'[i] \in Nat
        BY <1>12
      <4> QED
        BY <4>1, <4>2, <1>4, <1>12
    <3>5. LayerInv(base, z)'
      <4>1. k + 1 \in 0..7
        BY <3>2
      <4> QED
        BY <4>1, <3>1, <3>2, <3>4, <1>8, <1>13
    <3> QED
      BY <3>1, <3>3, <3>5, <1>12, <1>13
  <2> QED
    BY <2>2, <2>3
<1> QED
  BY <1>14, <1>15 DEF ForwardButterfly

LEMMA ForwardBegins ==
  ASSUME EnterForward, bound' = bound, bound \in [Index -> Nat], width' = width,
         NEW base \in Nat, NEW z \in Nat, \A i \in Index : bound[i] <= base
  PROVE  LoopInv' /\ LayerInv(base, z)'
<1>1. loop' = "forward" /\ len' = LayerLen(0) /\ start' = 0 /\ j' = 0
  BY DEF EnterForward, LayerLen
<1>2. LayerLen(0) \in Nat /\ LayerLen(0) >= 2 /\ LayerLen(0) < Degree /\ Divides(LayerLen(0), Degree)
  <2>1. LayerLen(0) = Degree \div 2
    BY DEF LayerLen
  <2>2. Degree \div 2 >= 2
    BY Degrees, SMT
  <2> QED
    BY <2>1, <2>2, LayerLengths
<1> DEFINE l == LayerLen(0)
<1>3. Divides(2 * l, 0)
  <2>1. 2 * l \in Nat
    BY <1>2
  <2> HIDE DEF l
  <2> QED
    BY <2>1, ZeroMultiple
<1>4. LoopInv'
  <2>1. LoopInv' <=> (loop' \in {"forward", "inverse"} =>
          /\ len' \in Nat /\ start' \in Nat /\ j' \in Nat
          /\ 1 <= len' /\ len' < Degree /\ Divides(len', Degree)
          /\ start' < Degree /\ Divides(2 * len', start')
          /\ start' <= j' /\ j' < start' + len')
    BY DEF LoopInv, Divides
  <2>2. Divides(2 * len', start') /\ Divides(len', Degree)
    BY <1>1, <1>2, <1>3, Zenon
  <2>3. /\ l \in Nat /\ 0 \in Nat /\ 1 <= l /\ l < Degree /\ 0 < Degree /\ 0 <= 0 /\ 0 < 0 + l
    BY <1>2, DegreeAssumption
  <2>4. /\ len' \in Nat /\ start' \in Nat /\ j' \in Nat
        /\ 1 <= len' /\ len' < Degree /\ start' < Degree
        /\ start' <= j' /\ j' < start' + len'
    BY <2>3, <1>1, Zenon
  <2> QED
    BY <2>1, <2>2, <2>4, Zenon
<1>5. LayerInv(base, z)'
  <2>1. LayerInv(base, z)' <=>
          (loop' = "forward" =>
            \E n \in 0..7 :
              /\ len' = LayerLen(n) /\ SmallestLen' <= len'
              /\ \A i \in Index :
                   /\ bound'[i] <= base + (n + 1) * z
                   /\ Pending(i)' => bound'[i] <= base + n * z)
    BY DEF LayerInv, LayerLen, Index
  <2>2. SmallestLen' <= len'
    <3>1. SmallestLen' \in {1, 2}
      BY DEF SmallestLen
    <3>2. SmallestLen' <= l
      BY <3>1, <1>2
    <3> QED
      BY <3>2, <1>1, Zenon
  <2>3. \A i \in Index : bound'[i] <= base + (0 + 1) * z /\ bound'[i] <= base + 0 * z
    OBVIOUS
  <2> QED
    BY <1>1, <2>1, <2>2, <2>3
<1> QED
  BY <1>4, <1>5

LEMMA Zetas ==
  /\ width = 32 => \A x \in Nat : x <= Limit => TimesZeta(x) \in Nat /\ TimesZeta(x) <= Most("low")
  /\ width = 16 => \A x \in Nat : x <= Limit => TimesZeta(x) \in Nat /\ TimesZeta(x) <= 2497
<1>1. ASSUME width = 32, NEW x \in Nat, x <= Limit
      PROVE  TimesZeta(x) \in Nat /\ TimesZeta(x) <= Most("low")
  <2>1. x <= 2147483647
    BY <1>1, SMT DEF Limit, IntMax
  <2>2. TimesZeta(x) = Montgomery((Q - 1) \div 2, x)
    BY <1>1 DEF TimesZeta
  <2> QED
    BY <2>1, <2>2, MontgomeryZeta, MostOnce, SMT
<1>2. ASSUME width = 16, NEW x \in Nat, x <= Limit
      PROVE  TimesZeta(x) \in Nat /\ TimesZeta(x) <= 2497
  <2>1. x <= 32767
    BY <1>2 DEF Limit
  <2>2. TimesZeta(x) = Fqmul((SMALL_Q - 1) \div 2, x)
    BY <1>2 DEF TimesZeta
  <2> QED
    BY <2>1, <2>2, FqmulZeta
<1> QED
  BY <1>1, <1>2

-----------------------------------------------------------------------------
(* The inverse transform of 16-bit coefficients, and the last loop of both. *)

(* barrett_reduce (c-lowram/smallntt_3329.c) centres every 16-bit integer: *)
(* its result is within 1664 of zero and congruent to the input, which is  *)
(* what Barrett and Scaled say of the bounds.                              *)
THEOREM BarrettCentred ==
  ASSUME NEW a \in Int, -32768 <= a, a <= 32767
  PROVE  /\ -1664 <= BarrettReduce(a) /\ BarrettReduce(a) <= 1664
         /\ \E k \in Int : a - BarrettReduce(a) = k * SMALL_Q
<1> DEFINE k == (20159 * a + 33554432) \div 67108864
<1>1. (2^26 + SMALL_Q \div 2) \div SMALL_Q = 20159 /\ 2^25 = 33554432 /\ 2^26 = 67108864
  BY SMT DEF SMALL_Q
<1>2. BarrettReduce(a) = a - k * 3329
  BY <1>1, SMT DEF BarrettReduce, SMALL_Q
<1>3. k \in Int /\ 67108864 * k <= 20159 * a + 33554432 /\ 20159 * a + 33554432 < 67108864 * k + 67108864
  BY SMT
<1> HIDE DEF k
<1>4. -1664 <= a - k * 3329 /\ a - k * 3329 <= 1664
  BY <1>3, SMT
<1> QED
  BY <1>2, <1>3, <1>4, SMT DEF SMALL_Q

LEMMA ShortInverse ==
  ASSUME width = 16, NEW x \in Nat, NEW y \in Nat, x <= 16383, y <= 16383
  PROVE  /\ Collected(x, y) \in Nat /\ Collected(x, y) <= 16383
         /\ Difference(x, y) \in Nat /\ Difference(x, y) <= 16383
<1>1. Plus(x, y) = x + y /\ x + y <= 32767 /\ x + y # Lost
  <2>1. x + y <= Limit
    BY DEF Limit
  <2> QED
    BY <2>1, PlusSum, SMT DEF Lost
<1>2. Collected(x, y) = 1664
  BY <1>1, SMT DEF Collected, Barrett, SMALL_Q
<1>3. Difference(x, y) = TimesZeta(x + y)
  BY <1>1 DEF Difference
<1>4. TimesZeta(x + y) \in Nat /\ TimesZeta(x + y) <= 2497
  <2>1. x + y \in Nat /\ x + y <= Limit
    BY DEF Limit
  <2> QED
    BY <2>1, Zetas
<1> QED
  BY <1>2, <1>3, <1>4

LEMMA ShortInverseStep ==
  ASSUME width = 16, loop = "inverse", LoopInv, Within(bound, "pair"), InverseButterfly
  PROVE  /\ width' = 16 /\ loop' \in {"inverse", "scale"} /\ LoopInv'
         /\ Within(bound', "pair")
<1>1. width' = 16
  BY DEF InverseButterfly
<1>2. j \in Index /\ j + len \in Index /\ j # j + len
  BY BlockFits
<1>3. bound \in [Index -> Nat] /\ \A i \in Index : bound[i] <= 16383
  BY MostShort DEF Within
<1> DEFINE s == Collected(bound[j], bound[j + len])  t == Difference(bound[j], bound[j + len])
<1>4. s \in Nat /\ s <= 16383 /\ t \in Nat /\ t <= 16383
  BY <1>2, <1>3, ShortInverse
<1>5. bound' = [bound EXCEPT ![j] = s, ![j + len] = t]
  BY DEF InverseButterfly
<1> HIDE DEF s, t
<1>6. bound' \in [Index -> Nat] /\ \A i \in Index : bound'[i] <= 16383
  BY <1>2, <1>3, <1>4, <1>5
<1>7. Within(bound', "pair")
  BY <1>6, MostShort DEF Within
<1>8. loop' \in {"inverse", "scale"} /\ LoopInv'
  BY LoopAdvances, InverseLayer DEF InverseButterfly
<1> QED
  BY <1>1, <1>7, <1>8

LEMMA ShortScale ==
  ASSUME width = 16, Within(bound, "pair"), Scale
  PROVE  width' = 16 /\ loop' = "none" /\ Within(bound', "centred")
<1>1. \A i \in Index : bound[i] \in Nat /\ bound[i] <= 16383
  BY MostShort DEF Within
<1>2. \A i \in Index : Scaled(bound[i]) = 1664
  <2> TAKE i \in Index
  <2>1. bound[i] \in Nat /\ bound[i] <= 32767
    BY <1>1
  <2>2. Fqmul(bound[i], 1441) \in Nat
    BY <2>1, FqmulZeta
  <2>3. Fqmul(bound[i], 1441) # Lost
    BY <2>2, Numbers
  <2>4. Scaled(bound[i]) = (SMALL_Q - 1) \div 2
    BY <2>3 DEF Scaled, Barrett
  <2> QED
    BY <2>4, SMT DEF SMALL_Q
<1>3. bound' = [i \in Index |-> Scaled(bound[i])]
  BY DEF Scale
<1>4. Within(bound', "centred")
  BY <1>2, <1>3, MostShort DEF Within
<1> QED
  BY <1>4 DEF Scale

LEMMA WideScale ==
  ASSUME InverseInv, Scale
  PROVE  width' = 32 /\ loop' = "none" /\ Within(bound', "half")
<1>1. width = 32 /\ \A i \in Index : bound[i] \in Nat /\ bound[i] <= IntMax
  BY Numbers DEF InverseInv, TypeInv
<1>2. ASSUME NEW i \in Index
      PROVE  Scaled(bound[i]) \in Nat /\ Scaled(bound[i]) <= Most("half")
  <2>1. bound[i] \in Nat /\ bound[i] <= 2147483647
    BY <1>1, Numerals, SMT
  <2>2. Scaled(bound[i]) = Montgomery(41978, bound[i])
    BY <1>1 DEF Scaled
  <2> QED
    BY <2>1, <2>2, MontgomeryZeta, MostOnce, SMT
<1>3. bound' = [i \in Index |-> Scaled(bound[i])]
  BY DEF Scale
<1>4. Within(bound', "half")
  BY <1>2, <1>3 DEF Within
<1> QED
  BY <1>1, <1>4 DEF Scale

-----------------------------------------------------------------------------
(* What an operation may be applied to, and what it gives: a class of the  *)
(* polynomial and one of the factor that is kept.                          *)
Single == {"half", "low"}

Allowed(o, c, d, c2, d2) ==
  \/ o.op = "load" /\ o.by <= Most("low") /\ c2 = "low" /\ d2 = d
  \/ o.op = "narrowed" /\ o.by <= Most("short") /\ c2 = "short" /\ d2 = d
  \/ o.op = "keep" /\ c2 = c /\ d2 = c
  \/ o.op = "times" /\ c = "hat" /\ o.by <= Most("low") /\ c2 = "half" /\ d2 = d
  \/ o.op = "times_kept" /\ c = "hat" /\ d = "hat" /\ c2 = "half" /\ d2 = d
  \/ o.op = "sum" /\ c \in Single /\ o.by <= 60 /\ c2 = "sum" /\ d2 = d
  \/ o.op = "add" /\ c = "half" /\ o.by <= 2^20 /\ c2 = "low" /\ d2 = d
  \/ o.op = "add" /\ c \in Single \cup {"sum"} /\ o.by <= Most("low") /\ c2 = "total" /\ d2 = d
  \/ o.op = "add_kept" /\ c \in Single \cup {"sum"} /\ d \in Single /\ c2 = "total" /\ d2 = d
  \/ o.op = "reduce" /\ c \in Single \cup {"sum", "total"} /\ c2 = "half" /\ d2 = d
  \/ o.op = "caddq" /\ c \in Single /\ c2 = "low" /\ d2 = d
  \/ o.op = "split" /\ c \in Single /\ c2 = c /\ d2 = d
  \/ o.op = "ntt" /\ c \in Single /\ c2 = "hat" /\ d2 = d
  \/ o.op = "ntt" /\ c = "short" /\ c2 = "small_hat" /\ d2 = d
  \/ o.op = "invntt" /\ c \in Single /\ c2 = "half" /\ d2 = d
  \/ o.op = "invntt" /\ c = "pair" /\ c2 = "centred" /\ d2 = d
  \/ o.op = "basemul" /\ c = "small_hat" /\ d = "small_hat" /\ c2 = "pair" /\ d2 = d
  \/ o.op = "widen" /\ c = "centred" /\ o.by <= Most("centred") /\ c2 = "half" /\ d2 = d

OpName ==
  {"load", "narrowed", "keep", "times", "times_kept", "sum", "add", "add_kept", "reduce", "caddq",
   "split", "ntt", "invntt", "basemul", "widen"}
Operation == [op : OpName, by : Nat]

(* Operations lead from two classes to two others when classes can be      *)
(* given to the polynomials between them.                                  *)
Leads(s, c, d, c9, d9) ==
  /\ s \in Seq(Operation)
  /\ \E e, f :
       /\ e[1] = c /\ f[1] = d /\ e[Len(s) + 1] = c9 /\ f[Len(s) + 1] = d9
       /\ \A i \in 1 .. Len(s) + 1 : e[i] \in Class /\ f[i] \in Class
       /\ \A i \in 1 .. Len(s) : Allowed(s[i], e[i], f[i], e[i + 1], f[i + 1])

LEMMA LeadsTail ==
  ASSUME NEW s, NEW c, NEW d, NEW c9, NEW d9, Leads(s, c, d, c9, d9), s # <<>>
  PROVE  /\ c \in Class /\ d \in Class /\ Head(s) \in Operation
         /\ \E c2, d2 \in Class : Allowed(Head(s), c, d, c2, d2) /\ Leads(Tail(s), c2, d2, c9, d9)
<1>1. s \in Seq(Operation) /\ Len(s) \in Nat /\ Len(s) >= 1 /\ Head(s) = s[1] /\ s[1] \in Operation
  BY DEF Leads
<1>2. PICK e, f :
       /\ e[1] = c /\ f[1] = d /\ e[Len(s) + 1] = c9 /\ f[Len(s) + 1] = d9
       /\ \A i \in 1 .. Len(s) + 1 : e[i] \in Class /\ f[i] \in Class
       /\ \A i \in 1 .. Len(s) : Allowed(s[i], e[i], f[i], e[i + 1], f[i + 1])
  BY Zenon DEF Leads
<1> DEFINE r == Tail(s)  n == Len(s)
           e2 == [i \in 1 .. n |-> e[i + 1]]  f2 == [i \in 1 .. n |-> f[i + 1]]
<1>3. /\ r \in Seq(Operation) /\ Len(r) = n - 1
      /\ \A i \in 1 .. Len(r) : r[i] = s[i + 1]
  BY <1>1
<1>4. 1 \in 1 .. n /\ 1 + 1 \in 1 .. n + 1 /\ 1 \in 1 .. n + 1 /\ 1 + 1 = 2
  BY <1>1
<1>5. Allowed(s[1], e[1], f[1], e[2], f[2]) /\ e[2] \in Class /\ f[2] \in Class /\ c \in Class /\ d \in Class
  BY <1>2, <1>4
<1>6. e2[1] = e[2] /\ f2[1] = f[2] /\ e2[Len(r) + 1] = c9 /\ f2[Len(r) + 1] = d9
  <2>1. Len(r) + 1 = n /\ n \in 1 .. n
    BY <1>1, <1>3
  <2>2. e2[n] = e[n + 1] /\ f2[n] = f[n + 1]
    BY <2>1
  <2> QED
    BY <1>2, <1>4, <2>1, <2>2
<1>7. \A i \in 1 .. Len(r) + 1 : e2[i] \in Class /\ f2[i] \in Class
  <2> TAKE i \in 1 .. Len(r) + 1
  <2>1. i \in 1 .. n /\ i + 1 \in 1 .. n + 1
    BY <1>1, <1>3
  <2>2. e2[i] = e[i + 1] /\ f2[i] = f[i + 1]
    BY <2>1
  <2> QED
    BY <1>2, <2>1, <2>2, Zenon
<1>8. \A i \in 1 .. Len(r) : Allowed(r[i], e2[i], f2[i], e2[i + 1], f2[i + 1])
  <2> TAKE i \in 1 .. Len(r)
  <2>1. i \in 1 .. n /\ i + 1 \in 1 .. n
    BY <1>1, <1>3
  <2>2. e2[i] = e[i + 1] /\ f2[i] = f[i + 1] /\ e2[i + 1] = e[(i + 1) + 1] /\ f2[i + 1] = f[(i + 1) + 1]
    BY <2>1
  <2>3. r[i] = s[i + 1]
    BY <1>3
  <2>4. Allowed(s[i + 1], e[i + 1], f[i + 1], e[(i + 1) + 1], f[(i + 1) + 1])
    BY <1>2, <2>1, Zenon
  <2> QED
    BY <2>2, <2>3, <2>4, Zenon
<1> HIDE DEF r, e2, f2
<1>9. Leads(r, e[2], f[2], c9, d9)
  BY <1>3, <1>6, <1>7, <1>8, Zenon DEF Leads
<1> QED
  BY <1>1, <1>2, <1>5, <1>9, Zenon DEF r

LEMMA LeadsOn ==
  ASSUME NEW s, NEW t, NEW c, NEW d, NEW c2, NEW d2, NEW c9, NEW d9,
         Leads(s, c, d, c2, d2), Leads(t, c2, d2, c9, d9)
  PROVE  Leads(s \o t, c, d, c9, d9)
<1> DEFINE m == Len(s)  n == Len(t)  r == s \o t
<1>1. s \in Seq(Operation) /\ t \in Seq(Operation) /\ m \in Nat /\ n \in Nat
  BY DEF Leads
<1>2. /\ r \in Seq(Operation) /\ Len(r) = m + n
      /\ \A i \in 1 .. m + n : r[i] = IF i <= m THEN s[i] ELSE t[i - m]
  BY <1>1
<1>3. PICK e, f :
       /\ e[1] = c /\ f[1] = d /\ e[m + 1] = c2 /\ f[m + 1] = d2
       /\ \A i \in 1 .. m + 1 : e[i] \in Class /\ f[i] \in Class
       /\ \A i \in 1 .. m : Allowed(s[i], e[i], f[i], e[i + 1], f[i + 1])
  BY Zenon DEF Leads
<1>4. PICK g, h :
       /\ g[1] = c2 /\ h[1] = d2 /\ g[n + 1] = c9 /\ h[n + 1] = d9
       /\ \A i \in 1 .. n + 1 : g[i] \in Class /\ h[i] \in Class
       /\ \A i \in 1 .. n : Allowed(t[i], g[i], h[i], g[i + 1], h[i + 1])
  BY Zenon DEF Leads
<1> DEFINE e2 == [i \in 1 .. m + n + 1 |-> IF i <= m THEN e[i] ELSE g[i - m]]
           f2 == [i \in 1 .. m + n + 1 |-> IF i <= m THEN f[i] ELSE h[i - m]]
<1> HIDE DEF m, n, r
<1>5. /\ \A i \in 1 .. m + 1 : e2[i] = e[i] /\ f2[i] = f[i]
      /\ \A i \in 1 .. n + 1 : e2[m + i] = g[i] /\ f2[m + i] = h[i]
  <2>1. ASSUME NEW i \in 1 .. m + 1
        PROVE  e2[i] = e[i] /\ f2[i] = f[i]
    <3>1. i \in 1 .. m + n + 1
      BY <1>1
    <3>2. CASE i <= m
      BY <3>1, <3>2
    <3>3. CASE i = m + 1
      <4>1. i - m = 1 /\ ~(i <= m)
        BY <1>1, <3>3
      <4>2. e2[i] = g[1] /\ f2[i] = h[1]
        BY <3>1, <4>1
      <4> QED
        BY <4>2, <3>3, <1>3, <1>4
    <3> QED
      BY <3>2, <3>3, <1>1
  <2>2. ASSUME NEW i \in 1 .. n + 1
        PROVE  e2[m + i] = g[i] /\ f2[m + i] = h[i]
    <3>1. m + i \in 1 .. m + n + 1 /\ ~(m + i <= m) /\ (m + i) - m = i
      BY <1>1
    <3> QED
      BY <3>1
  <2> QED
    BY <2>1, <2>2
<1> HIDE DEF e2, f2
<1>6. /\ e2[1] = c /\ f2[1] = d /\ e2[Len(r) + 1] = c9 /\ f2[Len(r) + 1] = d9
  <2>1. 1 \in 1 .. m + 1 /\ n + 1 \in 1 .. n + 1 /\ Len(r) + 1 = m + (n + 1)
    BY <1>1, <1>2
  <2> QED
    BY <2>1, <1>3, <1>4, <1>5
<1>7. \A i \in 1 .. Len(r) + 1 : e2[i] \in Class /\ f2[i] \in Class
  <2> TAKE i \in 1 .. Len(r) + 1
  <2>1. CASE i \in 1 .. m + 1
    BY <2>1, <1>3, <1>5
  <2>2. CASE i > m + 1
    <3>1. i - m \in 1 .. n + 1 /\ m + (i - m) = i
      BY <2>2, <1>1, <1>2
    <3>2. e2[m + (i - m)] = g[i - m] /\ f2[m + (i - m)] = h[i - m]
      BY <3>1, <1>5
    <3>3. g[i - m] \in Class /\ h[i - m] \in Class
      BY <3>1, <1>4
    <3> QED
      BY <3>1, <3>2, <3>3
  <2> QED
    BY <2>1, <2>2, <1>1, <1>2
<1>8. \A i \in 1 .. Len(r) : Allowed(r[i], e2[i], f2[i], e2[i + 1], f2[i + 1])
  <2> TAKE i \in 1 .. Len(r)
  <2>1. CASE i <= m
    <3>1. i \in 1 .. m /\ i \in 1 .. m + 1 /\ i + 1 \in 1 .. m + 1 /\ i \in 1 .. m + n
      BY <2>1, <1>1, <1>2
    <3>2. /\ e2[i] = e[i] /\ f2[i] = f[i] /\ e2[i + 1] = e[i + 1] /\ f2[i + 1] = f[i + 1]
          /\ r[i] = s[i]
      BY <3>1, <2>1, <1>2, <1>5
    <3>3. Allowed(s[i], e[i], f[i], e[i + 1], f[i + 1])
      BY <3>1, <1>3
    <3> QED
      BY <3>2, <3>3, Zenon
  <2>2. CASE ~(i <= m)
    <3> DEFINE k == i - m
    <3>1. k \in 1 .. n /\ k \in 1 .. n + 1 /\ k + 1 \in 1 .. n + 1 /\ m + k = i /\ m + (k + 1) = i + 1
          /\ i \in 1 .. m + n
      BY <2>2, <1>1, <1>2
    <3>2. r[i] = t[k]
      BY <3>1, <2>2, <1>2
    <3> HIDE DEF k
    <3>3. /\ e2[m + k] = g[k] /\ f2[m + k] = h[k] /\ e2[m + (k + 1)] = g[k + 1]
          /\ f2[m + (k + 1)] = h[k + 1]
      BY <3>1, <1>5, Zenon
    <3>4. Allowed(t[k], g[k], h[k], g[k + 1], h[k + 1])
      BY <3>1, <1>4, Zenon
    <3> QED
      BY <3>1, <3>2, <3>3, <3>4, Zenon
  <2> QED
    BY <2>1, <2>2
<1>9. r \in Seq(Operation)
  BY <1>2
<1>10. Leads(r, c, d, c9, d9)
  BY <1>6, <1>7, <1>8, <1>9, Zenon DEF Leads
<1> QED
  BY <1>10 DEF r

-----------------------------------------------------------------------------
(* The programs.                                                           *)

LEMMA Rules ==
  ASSUME NEW c, NEW d
  PROVE  /\ \A x \in Nat : x <= Most("low") => Allowed(Loading(x), c, d, "low", d)
         /\ \A x \in Nat : x <= Most("short") => Allowed(Narrowing(x), c, d, "short", d)
         /\ Allowed(Keep, c, d, c, c)
         /\ \A x \in Nat : x <= Most("low") => Allowed(Times(x), "hat", d, "half", d)
         /\ Allowed(TimesKept, "hat", "hat", "half", "hat")
         /\ \A x \in Nat : x <= 60 => Allowed(Sum(x), "low", d, "sum", d) /\ Allowed(Sum(x), "half", d, "sum", d)
         /\ \A x \in Nat : x <= 2^20 => Allowed(Add(x), "half", d, "low", d)
         /\ \A x \in Nat : x <= Most("low") => /\ Allowed(Add(x), "half", d, "total", d)
                                            /\ Allowed(Add(x), "sum", d, "total", d)
         /\ Allowed(AddKept, "sum", "half", "total", "half") /\ Allowed(AddKept, "sum", "low", "total", "low")
         /\ \A b \in {"half", "low", "sum", "total"} : Allowed(Reduce, b, d, "half", d)
         /\ \A b \in {"half", "low"} : Allowed(Canonical, b, d, "low", d)
         /\ Allowed(Split, "low", d, "low", d)
         /\ Allowed(Ntt, "low", d, "hat", d) /\ Allowed(Ntt, "short", d, "small_hat", d)
         /\ \A b \in {"half", "low"} : Allowed(InvNtt, b, d, "half", d)
         /\ Allowed(InvNtt, "pair", d, "centred", d)
         /\ Allowed(Basemul, "small_hat", "small_hat", "pair", "small_hat")
         /\ \A x \in Nat : x <= Most("centred") => Allowed(Widening(x), "centred", d, "half", d)
<1> USE DEF Allowed, Single, Do
<1>1. /\ \A x \in Nat : x <= Most("low") => Allowed(Loading(x), c, d, "low", d)
      /\ \A x \in Nat : x <= Most("short") => Allowed(Narrowing(x), c, d, "short", d)
      /\ Allowed(Keep, c, d, c, c)
  BY DEF Loading, Narrowing, Keep
<1>2. /\ \A x \in Nat : x <= Most("low") => Allowed(Times(x), "hat", d, "half", d)
      /\ Allowed(TimesKept, "hat", "hat", "half", "hat")
  BY DEF Times, TimesKept
<1>3. \A x \in Nat : x <= 60 => Allowed(Sum(x), "low", d, "sum", d) /\ Allowed(Sum(x), "half", d, "sum", d)
  BY DEF Sum
<1>4. /\ \A x \in Nat : x <= 2^20 => Allowed(Add(x), "half", d, "low", d)
      /\ \A x \in Nat : x <= Most("low") => /\ Allowed(Add(x), "half", d, "total", d)
                                         /\ Allowed(Add(x), "sum", d, "total", d)
  BY DEF Add
<1>5. Allowed(AddKept, "sum", "half", "total", "half") /\ Allowed(AddKept, "sum", "low", "total", "low")
  BY DEF AddKept
<1>6. /\ \A b \in {"half", "low", "sum", "total"} : Allowed(Reduce, b, d, "half", d)
      /\ \A b \in {"half", "low"} : Allowed(Canonical, b, d, "low", d)
      /\ Allowed(Split, "low", d, "low", d)
  BY DEF Reduce, Canonical, Split
<1>7. /\ Allowed(Ntt, "low", d, "hat", d) /\ Allowed(Ntt, "short", d, "small_hat", d)
      /\ \A b \in {"half", "low"} : Allowed(InvNtt, b, d, "half", d)
      /\ Allowed(InvNtt, "pair", d, "centred", d)
  BY DEF Ntt, InvNtt
<1>8. /\ Allowed(Basemul, "small_hat", "small_hat", "pair", "small_hat")
      /\ \A x \in Nat : x <= Most("centred") => Allowed(Widening(x), "centred", d, "half", d)
  BY DEF Basemul, Widening
<1> HIDE DEF Allowed, Single, Do
<1> QED
  BY <1>1, <1>2, <1>3, <1>4, <1>5, <1>6, <1>7, <1>8, Zenon

LEMMA Operations ==
  /\ \A x \in Nat : Loading(x) \in Operation /\ Narrowing(x) \in Operation
  /\ \A x \in Nat : Times(x) \in Operation /\ Sum(x) \in Operation
  /\ \A x \in Nat : Add(x) \in Operation /\ Widening(x) \in Operation
  /\ Ntt \in Operation /\ InvNtt \in Operation /\ Keep \in Operation /\ TimesKept \in Operation
  /\ AddKept \in Operation /\ Basemul \in Operation /\ Reduce \in Operation
  /\ Canonical \in Operation /\ Split \in Operation
<1>1. \A name \in OpName, x \in Nat : Do(name, x) \in Operation
  BY DEF Do, Operation
<1>2. \A name \in OpName : Do(name, 0) \in Operation
  BY <1>1
<1>3. \A x \in Nat : Loading(x) \in Operation /\ Narrowing(x) \in Operation
  BY <1>1, SMT DEF OpName, Loading, Narrowing
<1>4. \A x \in Nat : Times(x) \in Operation /\ Sum(x) \in Operation
  BY <1>1, SMT DEF OpName, Times, Sum
<1>5. \A x \in Nat : Add(x) \in Operation /\ Widening(x) \in Operation
  BY <1>1, SMT DEF OpName, Add, Widening
<1>6. Ntt \in Operation /\ InvNtt \in Operation /\ Keep \in Operation /\ TimesKept \in Operation
  BY <1>2, SMT DEF OpName, Ntt, InvNtt, Keep, TimesKept
<1>7. /\ AddKept \in Operation /\ Basemul \in Operation /\ Reduce \in Operation
      /\ Canonical \in Operation /\ Split \in Operation
  BY <1>2, SMT DEF OpName, AddKept, Basemul, Reduce, Canonical, Split
<1> QED
  BY <1>3, <1>4, <1>5, <1>6, <1>7, Zenon

(* The bounds that the programs bring in. *)
LEMMA Brought ==
  /\ Q - 1 \in Nat /\ Q - 1 <= Most("low") /\ 1 \in Nat /\ 1 <= Most("low") /\ 1 <= Most("short")
  /\ 1023 * 2^D \in Nat /\ 1023 * 2^D <= Most("low")
  /\ 2^(D - 1) \in Nat /\ 2^(D - 1) <= Most("low")
<1>1. Q - 1 = 8380416 /\ 1023 * 2^D = 8380416 /\ 2^(D - 1) = 4096
  BY SMT DEF Q, D
<1> QED
  BY <1>1, MostOnce, MostShort, SMT

LEMMA LoadingT1 ==
  ASSUME NEW c, NEW d
  PROVE  Allowed(Loading(1023 * 2^D), c, d, "low", d)
<1> DEFINE x == 1023 * 2^D
<1>1. x \in Nat /\ x <= Most("low")
  BY Brought
<1> HIDE DEF x
<1>2. Allowed(Loading(x), c, d, "low", d)
  BY <1>1, Rules, Zenon
<1> QED
  BY <1>2, Zenon DEF x

LEMMA BroughtBy ==
  ASSUME NEW p \in ParameterSet
  PROVE  /\ p.eta \in Nat /\ p.eta <= Most("low") /\ p.eta <= Most("short") /\ p.eta <= 2^20
         /\ p.l \in Nat /\ p.l <= 60 /\ p.tau \in Nat /\ p.tau <= 60
         /\ p.gamma1 \in Nat /\ p.gamma1 <= Most("low") /\ p.gamma1 <= 2^20
         /\ p.gamma2 \in Nat /\ p.gamma2 <= 2^20
         /\ p.gamma1 - BETA(p) - 1 \in Nat /\ p.gamma1 - BETA(p) - 1 <= Most("low")
         /\ BETA(p) \in Nat /\ BETA(p) <= Most("centred")
<1>1. /\ p.eta \in Nat /\ p.tau \in Nat /\ p.l \in Nat /\ p.gamma1 \in Nat /\ p.gamma2 \in Nat
      /\ p.eta <= 16 /\ p.tau <= 60 /\ p.l <= 60 /\ p.gamma1 <= 2^20 /\ p.gamma2 <= 2^20
      /\ p.tau * p.eta < p.gamma1 /\ p.tau * p.eta <= (SMALL_Q - 1) \div 2
  BY ParameterSetAssumption
<1> DEFINE b == p.tau * p.eta
<1>2. b \in Nat /\ BETA(p) = b
  BY <1>1 DEF BETA
<1>3. 2^20 = 1048576 /\ (SMALL_Q - 1) \div 2 = 1664
  BY SMT DEF SMALL_Q
<1> HIDE DEF b
<1>4. b < p.gamma1 /\ b <= 1664
  BY <1>1, <1>3 DEF b
<1> QED
  BY <1>1, <1>2, <1>3, <1>4, MostOnce, MostShort, SMT

(* What follows the sum of LowramVerifyRow. *)
LowramVerified(p) ==
  <<Reduce, InvNtt, Reduce, Canonical, Split, Keep,
    Loading(1023 * 2^D), Sum(p.tau), AddKept, Reduce, Canonical, Split>>

LEMMA KeyRowLeads ==
  ASSUME NEW p \in ParameterSet
  PROVE  Leads(KeyRow(p), "low", "low", "low", "low")
<1> DEFINE s == <<Loading(p.eta), Ntt, Times(Q - 1), Sum(p.l), Reduce, InvNtt, Add(p.eta),
                  Canonical, Split>>
           e == <<"low", "low", "hat", "half", "sum", "half", "half", "low", "low", "low">>
           f == <<"low", "low", "low", "low", "low", "low", "low", "low", "low", "low">>
<1>1. s \in Seq(Operation) /\ Len(s) = 9
  BY Operations, Brought, BroughtBy
<1>2. \A i \in 1 .. 10 : e[i] \in Class /\ f[i] \in Class
  BY DEF Class, WideClass, SmallClass
<1>3. \A i \in 1 .. 9 : Allowed(s[i], e[i], f[i], e[i + 1], f[i + 1])
  <2>1. Allowed(Loading(p.eta), "low", "low", "low", "low")
    BY Rules, Brought, BroughtBy
  <2>2. Allowed(Ntt, "low", "low", "hat", "low")
    BY Rules, Brought, BroughtBy
  <2>3. Allowed(Times(Q - 1), "hat", "low", "half", "low")
    BY Rules, Brought, BroughtBy
  <2>4. Allowed(Sum(p.l), "half", "low", "sum", "low")
    BY Rules, Brought, BroughtBy
  <2>5. Allowed(Reduce, "sum", "low", "half", "low")
    BY Rules, Brought, BroughtBy
  <2>6. Allowed(InvNtt, "half", "low", "half", "low")
    BY Rules, Brought, BroughtBy
  <2>7. Allowed(Add(p.eta), "half", "low", "low", "low")
    BY Rules, Brought, BroughtBy
  <2>8. Allowed(Canonical, "low", "low", "low", "low")
    BY Rules, Brought, BroughtBy
  <2>9. Allowed(Split, "low", "low", "low", "low")
    BY Rules, Brought, BroughtBy
  <2> QED
    BY <2>1, <2>2, <2>3, <2>4, <2>5, <2>6, <2>7, <2>8, <2>9
<1>4. e[1] = "low" /\ f[1] = "low" /\ e[10] = "low" /\ f[10] = "low"
  OBVIOUS
<1>5. KeyRow(p) = s
  BY DEF KeyRow
<1> HIDE DEF s, e, f
<1>6. Len(s) + 1 = 10 /\ Len(s) = 9
  BY <1>1
<1> QED
  BY <1>1, <1>2, <1>3, <1>4, <1>5, <1>6, Zenon DEF Leads

LEMMA CommitRowLeads ==
  ASSUME NEW p \in ParameterSet
  PROVE  Leads(CommitRow(p), "low", "low", "low", "low")
<1> DEFINE s == <<Loading(p.gamma1), Ntt, Times(Q - 1), Sum(p.l), Reduce, InvNtt, Canonical,
                  Split>>
           e == <<"low", "low", "hat", "half", "sum", "half", "half", "low", "low">>
           f == <<"low", "low", "low", "low", "low", "low", "low", "low", "low">>
<1>1. s \in Seq(Operation) /\ Len(s) = 8
  BY Operations, Brought, BroughtBy
<1>2. \A i \in 1 .. 9 : e[i] \in Class /\ f[i] \in Class
  BY DEF Class, WideClass, SmallClass
<1>3. \A i \in 1 .. 8 : Allowed(s[i], e[i], f[i], e[i + 1], f[i + 1])
  <2>1. Allowed(Loading(p.gamma1), "low", "low", "low", "low")
    BY Rules, Brought, BroughtBy
  <2>2. Allowed(Ntt, "low", "low", "hat", "low")
    BY Rules, Brought, BroughtBy
  <2>3. Allowed(Times(Q - 1), "hat", "low", "half", "low")
    BY Rules, Brought, BroughtBy
  <2>4. Allowed(Sum(p.l), "half", "low", "sum", "low")
    BY Rules, Brought, BroughtBy
  <2>5. Allowed(Reduce, "sum", "low", "half", "low")
    BY Rules, Brought, BroughtBy
  <2>6. Allowed(InvNtt, "half", "low", "half", "low")
    BY Rules, Brought, BroughtBy
  <2>7. Allowed(Canonical, "half", "low", "low", "low")
    BY Rules, Brought, BroughtBy
  <2>8. Allowed(Split, "low", "low", "low", "low")
    BY Rules, Brought, BroughtBy
  <2> QED
    BY <2>1, <2>2, <2>3, <2>4, <2>5, <2>6, <2>7, <2>8
<1>4. e[1] = "low" /\ f[1] = "low" /\ e[9] = "low" /\ f[9] = "low"
  OBVIOUS
<1>5. CommitRow(p) = s
  BY DEF CommitRow
<1> HIDE DEF s, e, f
<1>6. Len(s) + 1 = 9 /\ Len(s) = 8
  BY <1>1
<1> QED
  BY <1>1, <1>2, <1>3, <1>4, <1>5, <1>6, Zenon DEF Leads

LEMMA TimesChallengeLeads ==
  ASSUME NEW x \in Nat, x <= Most("low")
  PROVE  Leads(TimesChallenge(x), "low", "low", "half", "hat")
<1> DEFINE s == <<Loading(1), Ntt, Keep, Loading(x), Ntt, TimesKept, InvNtt>>
           e == <<"low", "low", "hat", "hat", "low", "hat", "half", "half">>
           f == <<"low", "low", "low", "hat", "hat", "hat", "hat", "hat">>
<1>1. s \in Seq(Operation) /\ Len(s) = 7
  BY Operations, Brought
<1>2. \A i \in 1 .. 8 : e[i] \in Class /\ f[i] \in Class
  BY DEF Class, WideClass, SmallClass
<1>3. \A i \in 1 .. 7 : Allowed(s[i], e[i], f[i], e[i + 1], f[i + 1])
  <2>1. Allowed(Loading(1), "low", "low", "low", "low")
    BY Rules, Brought
  <2>2. Allowed(Ntt, "low", "low", "hat", "low")
    BY Rules, Brought
  <2>3. Allowed(Keep, "hat", "low", "hat", "hat")
    BY Rules, Brought
  <2>4. Allowed(Loading(x), "hat", "hat", "low", "hat")
    BY Rules, Brought
  <2>5. Allowed(Ntt, "low", "hat", "hat", "hat")
    BY Rules, Brought
  <2>6. Allowed(TimesKept, "hat", "hat", "half", "hat")
    BY Rules, Brought
  <2>7. Allowed(InvNtt, "half", "hat", "half", "hat")
    BY Rules, Brought
  <2> QED
    BY <2>1, <2>2, <2>3, <2>4, <2>5, <2>6, <2>7
<1>4. e[1] = "low" /\ f[1] = "low" /\ e[8] = "half" /\ f[8] = "hat"
  OBVIOUS
<1>5. TimesChallenge(x) = s
  BY DEF TimesChallenge
<1> HIDE DEF s, e, f
<1>6. Len(s) + 1 = 8 /\ Len(s) = 7
  BY <1>1
<1> QED
  BY <1>1, <1>2, <1>3, <1>4, <1>5, <1>6, Zenon DEF Leads

LEMMA VerifyRowLeads ==
  ASSUME NEW p \in ParameterSet
  PROVE  Leads(VerifyRow(p), "low", "low", "low", "half")
<1> DEFINE s == <<Loading(1), Ntt, Keep, Loading(1023 * 2^D), Ntt, TimesKept, Keep,
                  Loading(p.gamma1 - BETA(p) - 1), Ntt, Times(Q - 1), Sum(p.l), AddKept,
                  Reduce, InvNtt, Canonical, Split>>
           e == <<"low", "low", "hat", "hat", "low", "hat", "half", "half", "low", "hat",
                  "half", "sum", "total", "half", "half", "low", "low">>
           f == <<"low", "low", "low", "hat", "hat", "hat", "hat", "half", "half", "half",
                  "half", "half", "half", "half", "half", "half", "half">>
<1>1. s \in Seq(Operation) /\ Len(s) = 16
  BY Operations, Brought, BroughtBy
<1>2. \A i \in 1 .. 17 : e[i] \in Class /\ f[i] \in Class
  BY DEF Class, WideClass, SmallClass
<1>3. \A i \in 1 .. 16 : Allowed(s[i], e[i], f[i], e[i + 1], f[i + 1])
  <2>1. Allowed(Loading(1), "low", "low", "low", "low")
    BY Rules, Brought, BroughtBy
  <2>2. Allowed(Ntt, "low", "low", "hat", "low")
    BY Rules, Brought, BroughtBy
  <2>3. Allowed(Keep, "hat", "low", "hat", "hat")
    BY Rules, Brought, BroughtBy
  <2>4. Allowed(Loading(1023 * 2^D), "hat", "hat", "low", "hat")
    BY ONLY LoadingT1, ZenonT(30)
  <2>5. Allowed(Ntt, "low", "hat", "hat", "hat")
    BY Rules, Brought, BroughtBy
  <2>6. Allowed(TimesKept, "hat", "hat", "half", "hat")
    BY Rules, Brought, BroughtBy
  <2>7. Allowed(Keep, "half", "hat", "half", "half")
    BY Rules, Brought, BroughtBy
  <2>8. Allowed(Loading(p.gamma1 - BETA(p) - 1), "half", "half", "low", "half")
    BY Rules, Brought, BroughtBy
  <2>9. Allowed(Ntt, "low", "half", "hat", "half")
    BY Rules, Brought, BroughtBy
  <2>10. Allowed(Times(Q - 1), "hat", "half", "half", "half")
    BY Rules, Brought, BroughtBy
  <2>11. Allowed(Sum(p.l), "half", "half", "sum", "half")
    BY Rules, Brought, BroughtBy
  <2>12. Allowed(AddKept, "sum", "half", "total", "half")
    BY Rules, Brought, BroughtBy
  <2>13. Allowed(Reduce, "total", "half", "half", "half")
    BY Rules, Brought, BroughtBy
  <2>14. Allowed(InvNtt, "half", "half", "half", "half")
    BY Rules, Brought, BroughtBy
  <2>15. Allowed(Canonical, "half", "half", "low", "half")
    BY Rules, Brought, BroughtBy
  <2>16. Allowed(Split, "low", "half", "low", "half")
    BY Rules, Brought, BroughtBy
  <2> QED
    BY <2>1, <2>2, <2>3, <2>4, <2>5, <2>6, <2>7, <2>8, <2>9, <2>10, <2>11, <2>12, <2>13, <2>14, <2>15, <2>16
<1>4. e[1] = "low" /\ f[1] = "low" /\ e[17] = "low" /\ f[17] = "half"
  OBVIOUS
<1>5. VerifyRow(p) = s
  BY DEF VerifyRow
<1> HIDE DEF s, e, f
<1>6. Len(s) + 1 = 17 /\ Len(s) = 16
  BY <1>1
<1> QED
  BY <1>1, <1>2, <1>3, <1>4, <1>5, <1>6, Zenon DEF Leads

LEMMA LowramVerifyLeads ==
  ASSUME NEW p \in ParameterSet
  PROVE  Leads(LowramVerified(p), "low", "low", "low", "low")
<1> DEFINE s == <<Reduce, InvNtt, Reduce, Canonical, Split, Keep, Loading(1023 * 2^D),
                  Sum(p.tau), AddKept, Reduce, Canonical, Split>>
           e == <<"low", "half", "half", "half", "low", "low", "low", "low", "sum", "total",
                  "half", "low", "low">>
           f == <<"low", "low", "low", "low", "low", "low", "low", "low", "low", "low", "low",
                  "low", "low">>
<1>1. s \in Seq(Operation) /\ Len(s) = 12
  BY Operations, Brought, BroughtBy
<1>2. \A i \in 1 .. 13 : e[i] \in Class /\ f[i] \in Class
  BY DEF Class, WideClass, SmallClass
<1>3. \A i \in 1 .. 12 : Allowed(s[i], e[i], f[i], e[i + 1], f[i + 1])
  <2>1. Allowed(Reduce, "low", "low", "half", "low")
    BY Rules, Brought, BroughtBy
  <2>2. Allowed(InvNtt, "half", "low", "half", "low")
    BY Rules, Brought, BroughtBy
  <2>3. Allowed(Reduce, "half", "low", "half", "low")
    BY Rules, Brought, BroughtBy
  <2>4. Allowed(Canonical, "half", "low", "low", "low")
    BY Rules, Brought, BroughtBy
  <2>5. Allowed(Split, "low", "low", "low", "low")
    BY Rules, Brought, BroughtBy
  <2>6. Allowed(Keep, "low", "low", "low", "low")
    BY Rules, Brought, BroughtBy
  <2>7. Allowed(Loading(1023 * 2^D), "low", "low", "low", "low")
    BY ONLY LoadingT1, ZenonT(30)
  <2>8. Allowed(Sum(p.tau), "low", "low", "sum", "low")
    BY Rules, Brought, BroughtBy
  <2>9. Allowed(AddKept, "sum", "low", "total", "low")
    BY Rules, Brought, BroughtBy
  <2>10. Allowed(Reduce, "total", "low", "half", "low")
    BY Rules, Brought, BroughtBy
  <2>11. Allowed(Canonical, "half", "low", "low", "low")
    BY Rules, Brought, BroughtBy
  <2>12. Allowed(Split, "low", "low", "low", "low")
    BY Rules, Brought, BroughtBy
  <2> QED
    BY <2>1, <2>2, <2>3, <2>4, <2>5, <2>6, <2>7, <2>8, <2>9, <2>10, <2>11, <2>12
<1>4. e[1] = "low" /\ f[1] = "low" /\ e[13] = "low" /\ f[13] = "low"
  OBVIOUS
<1>5. LowramVerified(p) = s
  BY DEF LowramVerified
<1> HIDE DEF s, e, f
<1>6. Len(s) + 1 = 13 /\ Len(s) = 12
  BY <1>1
<1> QED
  BY <1>1, <1>2, <1>3, <1>4, <1>5, <1>6, Zenon DEF Leads

LEMMA GatheredLeads ==
  Leads(Gathered, "hat", "low", "low", "low")
<1> DEFINE s == <<Times(Q - 1), Add(Q - 1), Reduce, Canonical, Split>>
           e == <<"hat", "half", "total", "half", "low", "low">>
           f == <<"low", "low", "low", "low", "low", "low">>
<1>1. s \in Seq(Operation) /\ Len(s) = 5
  BY Operations, Brought
<1>2. \A i \in 1 .. 6 : e[i] \in Class /\ f[i] \in Class
  BY DEF Class, WideClass, SmallClass
<1>3. \A i \in 1 .. 5 : Allowed(s[i], e[i], f[i], e[i + 1], f[i + 1])
  <2>1. Allowed(Times(Q - 1), "hat", "low", "half", "low")
    BY Rules, Brought
  <2>2. Allowed(Add(Q - 1), "half", "low", "total", "low")
    BY Rules, Brought
  <2>3. Allowed(Reduce, "total", "low", "half", "low")
    BY Rules, Brought
  <2>4. Allowed(Canonical, "half", "low", "low", "low")
    BY Rules, Brought
  <2>5. Allowed(Split, "low", "low", "low", "low")
    BY Rules, Brought
  <2> QED
    BY <2>1, <2>2, <2>3, <2>4, <2>5
<1>4. e[1] = "hat" /\ f[1] = "low" /\ e[6] = "low" /\ f[6] = "low"
  OBVIOUS
<1>5. Gathered = s
  BY DEF Gathered
<1> HIDE DEF s, e, f
<1>6. Len(s) + 1 = 6 /\ Len(s) = 5
  BY <1>1
<1> QED
  BY <1>1, <1>2, <1>3, <1>4, <1>5, <1>6, Zenon DEF Leads

LEMMA LoadedLeads ==
  ASSUME NEW x \in Nat, x <= Most("low")
  PROVE  Leads(<<Loading(x), Ntt>>, "low", "low", "hat", "low")
<1> DEFINE s == <<Loading(x), Ntt>>
           e == <<"low", "low", "hat">>
           f == <<"low", "low", "low">>
<1>1. s \in Seq(Operation) /\ Len(s) = 2
  BY Operations, Brought
<1>2. \A i \in 1 .. 3 : e[i] \in Class /\ f[i] \in Class
  BY DEF Class, WideClass, SmallClass
<1>3. \A i \in 1 .. 2 : Allowed(s[i], e[i], f[i], e[i + 1], f[i + 1])
  <2>1. Allowed(Loading(x), "low", "low", "low", "low")
    BY Rules, Brought
  <2>2. Allowed(Ntt, "low", "low", "hat", "low")
    BY Rules, Brought
  <2> QED
    BY <2>1, <2>2
<1>4. e[1] = "low" /\ f[1] = "low" /\ e[3] = "hat" /\ f[3] = "low"
  OBVIOUS
<1>5. <<Loading(x), Ntt>> = s
  OBVIOUS
<1> HIDE DEF s, e, f
<1>6. Len(s) + 1 = 3 /\ Len(s) = 2
  BY <1>1
<1> QED
  BY <1>1, <1>2, <1>3, <1>4, <1>5, <1>6, Zenon DEF Leads

LEMMA LowramCommitLeads ==
  Leads(<<InvNtt, Canonical, Reduce, Canonical, Split>>, "low", "low", "low", "low")
<1> DEFINE s == <<InvNtt, Canonical, Reduce, Canonical, Split>>
           e == <<"low", "half", "low", "half", "low", "low">>
           f == <<"low", "low", "low", "low", "low", "low">>
<1>1. s \in Seq(Operation) /\ Len(s) = 5
  BY Operations, Brought
<1>2. \A i \in 1 .. 6 : e[i] \in Class /\ f[i] \in Class
  BY DEF Class, WideClass, SmallClass
<1>3. \A i \in 1 .. 5 : Allowed(s[i], e[i], f[i], e[i + 1], f[i + 1])
  <2>1. Allowed(InvNtt, "low", "low", "half", "low")
    BY Rules, Brought
  <2>2. Allowed(Canonical, "half", "low", "low", "low")
    BY Rules, Brought
  <2>3. Allowed(Reduce, "low", "low", "half", "low")
    BY Rules, Brought
  <2>4. Allowed(Canonical, "half", "low", "low", "low")
    BY Rules, Brought
  <2>5. Allowed(Split, "low", "low", "low", "low")
    BY Rules, Brought
  <2> QED
    BY <2>1, <2>2, <2>3, <2>4, <2>5
<1>4. e[1] = "low" /\ f[1] = "low" /\ e[6] = "low" /\ f[6] = "low"
  OBVIOUS
<1>5. <<InvNtt, Canonical, Reduce, Canonical, Split>> = s
  OBVIOUS
<1> HIDE DEF s, e, f
<1>6. Len(s) + 1 = 6 /\ Len(s) = 5
  BY <1>1
<1> QED
  BY <1>1, <1>2, <1>3, <1>4, <1>5, <1>6, Zenon DEF Leads

LEMMA LowramTimesChallengeLeads ==
  ASSUME NEW p \in ParameterSet
  PROVE  Leads(LowramTimesChallenge(p), "low", "low", "half", "small_hat")
<1> DEFINE s == <<Narrowing(1), Ntt, Keep, Narrowing(p.eta), Ntt, Basemul, InvNtt,
                  Widening(BETA(p))>>
           e == <<"low", "short", "small_hat", "small_hat", "short", "small_hat", "pair",
                  "centred", "half">>
           f == <<"low", "low", "low", "small_hat", "small_hat", "small_hat", "small_hat",
                  "small_hat", "small_hat">>
<1>1. s \in Seq(Operation) /\ Len(s) = 8
  BY Operations, Brought, BroughtBy
<1>2. \A i \in 1 .. 9 : e[i] \in Class /\ f[i] \in Class
  BY DEF Class, WideClass, SmallClass
<1>3. \A i \in 1 .. 8 : Allowed(s[i], e[i], f[i], e[i + 1], f[i + 1])
  <2>1. Allowed(Narrowing(1), "low", "low", "short", "low")
    BY Rules, Brought, BroughtBy
  <2>2. Allowed(Ntt, "short", "low", "small_hat", "low")
    BY Rules, Brought, BroughtBy
  <2>3. Allowed(Keep, "small_hat", "low", "small_hat", "small_hat")
    BY Rules, Brought, BroughtBy
  <2>4. Allowed(Narrowing(p.eta), "small_hat", "small_hat", "short", "small_hat")
    BY Rules, Brought, BroughtBy
  <2>5. Allowed(Ntt, "short", "small_hat", "small_hat", "small_hat")
    BY Rules, Brought, BroughtBy
  <2>6. Allowed(Basemul, "small_hat", "small_hat", "pair", "small_hat")
    BY Rules, Brought, BroughtBy
  <2>7. Allowed(InvNtt, "pair", "small_hat", "centred", "small_hat")
    BY Rules, Brought, BroughtBy
  <2>8. Allowed(Widening(BETA(p)), "centred", "small_hat", "half", "small_hat")
    BY Rules, Brought, BroughtBy
  <2> QED
    BY <2>1, <2>2, <2>3, <2>4, <2>5, <2>6, <2>7, <2>8
<1>4. e[1] = "low" /\ f[1] = "low" /\ e[9] = "half" /\ f[9] = "small_hat"
  OBVIOUS
<1>5. LowramTimesChallenge(p) = s
  BY DEF LowramTimesChallenge
<1> HIDE DEF s, e, f
<1>6. Len(s) + 1 = 9 /\ Len(s) = 8
  BY <1>1
<1> QED
  BY <1>1, <1>2, <1>3, <1>4, <1>5, <1>6, Zenon DEF Leads

LEMMA LowramHintLeads ==
  ASSUME NEW p \in ParameterSet
  PROVE  Leads(LowramHintRow(p), "low", "low", "total", "low")
<1> DEFINE s == <<Loading(2^(D - 1)), Sum(p.tau), Add(Q - 1)>>
           e == <<"low", "low", "sum", "total">>
           f == <<"low", "low", "low", "low">>
<1>1. s \in Seq(Operation) /\ Len(s) = 3
  BY Operations, Brought, BroughtBy
<1>2. \A i \in 1 .. 4 : e[i] \in Class /\ f[i] \in Class
  BY DEF Class, WideClass, SmallClass
<1>3. \A i \in 1 .. 3 : Allowed(s[i], e[i], f[i], e[i + 1], f[i + 1])
  <2>1. Allowed(Loading(2^(D - 1)), "low", "low", "low", "low")
    BY Rules, Brought, BroughtBy
  <2>2. Allowed(Sum(p.tau), "low", "low", "sum", "low")
    BY Rules, Brought, BroughtBy
  <2>3. Allowed(Add(Q - 1), "sum", "low", "total", "low")
    BY Rules, Brought, BroughtBy
  <2> QED
    BY <2>1, <2>2, <2>3
<1>4. e[1] = "low" /\ f[1] = "low" /\ e[4] = "total" /\ f[4] = "low"
  OBVIOUS
<1>5. LowramHintRow(p) = s
  BY DEF LowramHintRow
<1> HIDE DEF s, e, f
<1>6. Len(s) + 1 = 4 /\ Len(s) = 3
  BY <1>1
<1> QED
  BY <1>1, <1>2, <1>3, <1>4, <1>5, <1>6, Zenon DEF Leads

LEMMA AddReduceLeads ==
  ASSUME NEW x \in Nat, x <= 2^20, NEW d \in Class
  PROVE  Leads(<<Add(x), Reduce>>, "half", d, "half", d)
<1> DEFINE s == <<Add(x), Reduce>>
           e == <<"half", "low", "half">>
           f == <<d, d, d>>
<1>1. s \in Seq(Operation) /\ Len(s) = 2
  BY Operations, Brought
<1>2. \A i \in 1 .. 3 : e[i] \in Class /\ f[i] \in Class
  BY DEF Class, WideClass, SmallClass
<1>3. \A i \in 1 .. 2 : Allowed(s[i], e[i], f[i], e[i + 1], f[i + 1])
  <2>1. Allowed(Add(x), "half", d, "low", d)
    BY Rules, Brought
  <2>2. Allowed(Reduce, "low", d, "half", d)
    BY Rules, Brought
  <2> QED
    BY <2>1, <2>2
<1>4. e[1] = "half" /\ f[1] = d /\ e[3] = "half" /\ f[3] = d
  OBVIOUS
<1>5. <<Add(x), Reduce>> = s
  OBVIOUS
<1> HIDE DEF s, e, f
<1>6. Len(s) + 1 = 3 /\ Len(s) = 2
  BY <1>1
<1> QED
  BY <1>1, <1>2, <1>3, <1>4, <1>5, <1>6, Zenon DEF Leads

LEMMA ReduceAddLeads ==
  ASSUME NEW x \in Nat, x <= 2^20, NEW d \in Class
  PROVE  Leads(<<Reduce, Add(x)>>, "half", d, "low", d)
<1> DEFINE s == <<Reduce, Add(x)>>
           e == <<"half", "half", "low">>
           f == <<d, d, d>>
<1>1. s \in Seq(Operation) /\ Len(s) = 2
  BY Operations, Brought
<1>2. \A i \in 1 .. 3 : e[i] \in Class /\ f[i] \in Class
  BY DEF Class, WideClass, SmallClass
<1>3. \A i \in 1 .. 2 : Allowed(s[i], e[i], f[i], e[i + 1], f[i + 1])
  <2>1. Allowed(Reduce, "half", d, "half", d)
    BY Rules, Brought
  <2>2. Allowed(Add(x), "half", d, "low", d)
    BY Rules, Brought
  <2> QED
    BY <2>1, <2>2
<1>4. e[1] = "half" /\ f[1] = d /\ e[3] = "low" /\ f[3] = d
  OBVIOUS
<1>5. <<Reduce, Add(x)>> = s
  OBVIOUS
<1> HIDE DEF s, e, f
<1>6. Len(s) + 1 = 3 /\ Len(s) = 2
  BY <1>1
<1> QED
  BY <1>1, <1>2, <1>3, <1>4, <1>5, <1>6, Zenon DEF Leads

LEMMA LowramLowLeads ==
  ASSUME NEW d \in Class
  PROVE  Leads(<<Add(Q - 1), Reduce, Canonical, Split>>, "half", d, "low", d)
<1> DEFINE s == <<Add(Q - 1), Reduce, Canonical, Split>>
           e == <<"half", "total", "half", "low", "low">>
           f == <<d, d, d, d, d>>
<1>1. s \in Seq(Operation) /\ Len(s) = 4
  BY Operations, Brought
<1>2. \A i \in 1 .. 5 : e[i] \in Class /\ f[i] \in Class
  BY DEF Class, WideClass, SmallClass
<1>3. \A i \in 1 .. 4 : Allowed(s[i], e[i], f[i], e[i + 1], f[i + 1])
  <2>1. Allowed(Add(Q - 1), "half", d, "total", d)
    BY Rules, Brought
  <2>2. Allowed(Reduce, "total", d, "half", d)
    BY Rules, Brought
  <2>3. Allowed(Canonical, "half", d, "low", d)
    BY Rules, Brought
  <2>4. Allowed(Split, "low", d, "low", d)
    BY Rules, Brought
  <2> QED
    BY <2>1, <2>2, <2>3, <2>4
<1>4. e[1] = "half" /\ f[1] = d /\ e[5] = "low" /\ f[5] = d
  OBVIOUS
<1>5. <<Add(Q - 1), Reduce, Canonical, Split>> = s
  OBVIOUS
<1> HIDE DEF s, e, f
<1>6. Len(s) + 1 = 5 /\ Len(s) = 4
  BY <1>1
<1> QED
  BY <1>1, <1>2, <1>3, <1>4, <1>5, <1>6, Zenon DEF Leads

(* Every program of the callers, from the classes of the first polynomials. *)
LEMMA ProgramLeads ==
  ASSUME NEW p \in ParameterSet, NEW s \in Programs(p)
  PROVE  \E c9, d9 : Leads(s, "low", "low", c9, d9)
<1> USE BroughtBy
<1>1. Leads(KeyRow(p), "low", "low", "low", "low")
  BY KeyRowLeads
<1>2. Leads(CommitRow(p), "low", "low", "low", "low")
  BY CommitRowLeads
<1>3. "hat" \in Class /\ "small_hat" \in Class
  BY DEF Class, WideClass, SmallClass
<1>4. Leads(ResponseRow(p), "low", "low", "half", "hat")
  <2>1. Leads(TimesChallenge(p.eta), "low", "low", "half", "hat")
    BY TimesChallengeLeads
  <2>2. Leads(<<Add(p.gamma1), Reduce>>, "half", "hat", "half", "hat")
    BY <1>3, AddReduceLeads
  <2> QED
    BY <2>1, <2>2, LeadsOn, Zenon DEF ResponseRow
<1>5. Leads(LowRow(p), "low", "low", "half", "hat")
  <2>1. Leads(TimesChallenge(p.eta), "low", "low", "half", "hat")
    BY TimesChallengeLeads
  <2>2. Leads(<<Add(p.gamma2), Reduce>>, "half", "hat", "half", "hat")
    BY <1>3, AddReduceLeads
  <2> QED
    BY <2>1, <2>2, LeadsOn, Zenon DEF LowRow
<1>6. Leads(HintRow(p), "low", "low", "low", "hat")
  <2> DEFINE x == 2^(D - 1)
  <2>1. x \in Nat /\ x <= Most("low")
    BY Brought
  <2>2. Leads(<<Reduce, Add(p.gamma2)>>, "half", "hat", "low", "hat")
    BY <1>3, ReduceAddLeads
  <2> HIDE DEF x
  <2>3. Leads(TimesChallenge(x), "low", "low", "half", "hat")
    BY <2>1, TimesChallengeLeads
  <2>4. Leads(TimesChallenge(x) \o <<Reduce, Add(p.gamma2)>>, "low", "low", "low", "hat")
    BY <2>2, <2>3, LeadsOn, Zenon
  <2> QED
    BY <2>4, Zenon DEF HintRow, x
<1>7. Leads(VerifyRow(p), "low", "low", "low", "half")
  BY VerifyRowLeads
<1>8. Leads(LowramCommitRow(p), "low", "low", "low", "low")
  <2>1. Leads(<<Loading(p.gamma1), Ntt>>, "low", "low", "hat", "low")
    BY LoadedLeads
  <2>2. Leads(<<Loading(p.gamma1), Ntt>> \o Gathered, "low", "low", "low", "low")
    BY <2>1, GatheredLeads, LeadsOn, Zenon
  <2> QED
    BY <2>2, LowramCommitLeads, LeadsOn, Zenon DEF LowramCommitRow
<1>9. Leads(LowramVerifyRow(p), "low", "low", "low", "low")
  <2> DEFINE x == p.gamma1 - BETA(p) - 1
  <2>1. x \in Nat /\ x <= Most("low")
    OBVIOUS
  <2> HIDE DEF x
  <2>2. Leads(<<Loading(x), Ntt>>, "low", "low", "hat", "low")
    BY <2>1, LoadedLeads
  <2>3. Leads(<<Loading(x), Ntt>> \o Gathered, "low", "low", "low", "low")
    BY <2>2, GatheredLeads, LeadsOn, Zenon
  <2>4. Leads((<<Loading(x), Ntt>> \o Gathered) \o LowramVerified(p), "low", "low", "low", "low")
    BY <2>3, LowramVerifyLeads, LeadsOn, Zenon
  <2> QED
    BY <2>4, Zenon DEF LowramVerifyRow, LowramVerified, x
<1>10. Leads(LowramResponseRow(p), "low", "low", "half", "small_hat")
  <2>1. Leads(<<Add(p.gamma1), Reduce>>, "half", "small_hat", "half", "small_hat")
    BY <1>3, AddReduceLeads
  <2> QED
    BY <2>1, LowramTimesChallengeLeads, LeadsOn, Zenon DEF LowramResponseRow
<1>11. Leads(LowramLowRow(p), "low", "low", "low", "small_hat")
  <2>1. Leads(<<Add(Q - 1), Reduce, Canonical, Split>>, "half", "small_hat", "low", "small_hat")
    BY <1>3, LowramLowLeads
  <2> QED
    BY <2>1, LowramTimesChallengeLeads, LeadsOn, Zenon DEF LowramLowRow
<1>12. Leads(LowramHintRow(p), "low", "low", "total", "low")
  BY LowramHintLeads
<1> QED
  BY <1>1, <1>2, <1>4, <1>5, <1>6, <1>7, <1>8, <1>9, <1>10, <1>11, <1>12, Zenon DEF Programs

-----------------------------------------------------------------------------
(***************************************************************************)
(* Every caller's operations                                               *)
(*                                                                         *)
(* Between two operations the bounds are within the class that the program *)
(* gives the polynomial; within a transform they are within the class of   *)
(* its result once it ends, because the invariant of its loops holds.      *)
(***************************************************************************)
Typed(s, c, d) == \E c9, d9 : Leads(s, c, d, c9, d9)

Running(c) ==
  \/ loop = "none" /\ width = WidthOf(c) /\ Within(bound, c)
  \/ /\ loop = "forward" /\ LoopInv /\ bound \in [Index -> Nat]
     /\ \/ c = "hat" /\ width = 32 /\ LayerInv(Most("low"), Most("low"))
        \/ c = "small_hat" /\ width = 16 /\ LayerInv(16, 2497)
  \/ c = "half" /\ loop \in {"inverse", "scale"} /\ InverseInv
  \/ /\ c = "centred" /\ loop \in {"inverse", "scale"}
     /\ width = 16 /\ LoopInv /\ Within(bound, "pair")

TransformInv ==
  \E c \in Class, d \in Class : Typed(todo, c, d) /\ Within(factor, d) /\ Running(c)

LEMMA Widths ==
  ASSUME NEW c \in Class
  PROVE  (c \in WideClass => WidthOf(c) = 32) /\ (c \in SmallClass => WidthOf(c) = 16)
BY DEF WidthOf, WideClass, SmallClass

(* An operation that is done at once: the state before it, ... *)
Ready(o, c, d, c2, d2) ==
  /\ loop = "none" /\ width = WidthOf(c) /\ Within(bound, c) /\ Within(factor, d)
  /\ c \in Class /\ d \in Class /\ c2 \in Class /\ d2 \in Class
  /\ o \in Operation /\ Allowed(o, c, d, c2, d2)
  /\ Typed(todo', c2, d2)

LEMMA DueReady ==
  ASSUME TransformInv, NEW name, Due(name)
  PROVE  /\ Head(todo).op = name
         /\ \E c \in Class, d \in Class, c2 \in Class, d2 \in Class : Ready(Head(todo), c, d, c2, d2)
<1>1. loop = "none" /\ todo # <<>> /\ todo' = Tail(todo) /\ Head(todo).op = name
  BY DEF Due
<1>2. PICK c \in Class, d \in Class : Typed(todo, c, d) /\ Within(factor, d) /\ Running(c)
  BY DEF TransformInv
<1>3. width = WidthOf(c) /\ Within(bound, c)
  BY <1>1, <1>2 DEF Running
<1>4. PICK c9, d9 : Leads(todo, c, d, c9, d9)
  BY <1>2 DEF Typed
<1>5. /\ Head(todo) \in Operation
      /\ \E c2 \in Class, d2 \in Class :
           Allowed(Head(todo), c, d, c2, d2) /\ Leads(Tail(todo), c2, d2, c9, d9)
  BY <1>1, <1>4, LeadsTail, Zenon
<1>6. PICK c2 \in Class, d2 \in Class :
        Allowed(Head(todo), c, d, c2, d2) /\ Leads(Tail(todo), c2, d2, c9, d9)
  BY <1>5
<1>7. Typed(todo', c2, d2)
  BY <1>1, <1>6, Zenon DEF Typed
<1>8. Ready(Head(todo), c, d, c2, d2)
  BY <1>1, <1>2, <1>3, <1>5, <1>6, <1>7, Zenon DEF Ready
<1> QED
  BY <1>1, <1>8, Zenon

(* ... and the state after it. *)
Done(c, d) ==
  loop' = "none" /\ width' = WidthOf(c) /\ Within(bound', c) /\ Within(factor', d)

LEMMA DoneInv ==
  ASSUME NEW o, NEW c, NEW d, NEW c2, NEW d2, Ready(o, c, d, c2, d2), Done(c2, d2)
  PROVE  TransformInv'
<1>1. c2 \in Class /\ d2 \in Class /\ Typed(todo', c2, d2) /\ Within(factor', d2)
  BY DEF Ready, Done
<1>2. Running(c2)'
  BY DEF Done, Running
<1> QED
  BY <1>1, <1>2 DEF TransformInv

LEMMA EachWithin ==
  ASSUME NEW c, NEW f, DOMAIN f = Index, Each(f),
         \A i \in Index : f[i] \in Nat /\ f[i] <= Most(c)
  PROVE  Within(bound', c)
<1>1. bound' = [i \in Index |-> f[i]]
  BY DEF Each
<1> QED
  BY <1>1 DEF Within

LEMMA LoadedDone ==
  ASSUME Loaded, NEW c, NEW d, NEW c2, NEW d2, Ready(Head(todo), c, d, c2, d2)
  PROVE  Done(c2, d2)
<1> DEFINE f == [i \in Index |-> By]
<1>1. By \in Nat /\ Each(f) /\ loop' = "none" /\ factor' = factor /\ Within(factor, d)
  BY DEF Loaded, Ready, By, Operation, loopVars
<1>2. CASE Due("load") /\ width' = 32
  <2>1. By <= Most("low") /\ c2 = "low" /\ d2 = d
    BY <1>2 DEF Ready, Allowed, Due, By
  <2>2. WidthOf("low") = 32
    BY DEF WidthOf, SmallClass
  <2>3. Within(bound', "low")
    <3>1. \A i \in Index : f[i] \in Nat /\ f[i] <= Most("low")
      BY <1>1, <2>1
    <3> HIDE DEF f
    <3> QED
      BY <1>1, <3>1, EachWithin DEF f
  <2> QED
    BY <1>1, <1>2, <2>1, <2>2, <2>3 DEF Done
<1>3. CASE Due("narrowed") /\ width' = 16
  <2>1. By <= Most("short") /\ c2 = "short" /\ d2 = d
    BY <1>3 DEF Ready, Allowed, Due, By
  <2>2. WidthOf("short") = 16
    BY DEF WidthOf, SmallClass
  <2>3. Within(bound', "short")
    <3>1. \A i \in Index : f[i] \in Nat /\ f[i] <= Most("short")
      BY <1>1, <2>1
    <3> HIDE DEF f
    <3> QED
      BY <1>1, <3>1, EachWithin DEF f
  <2> QED
    BY <1>1, <1>3, <2>1, <2>2, <2>3 DEF Done
<1> QED
  BY <1>2, <1>3 DEF Loaded

LEMMA KeptDone ==
  ASSUME Kept, NEW c, NEW d, NEW c2, NEW d2, Ready(Head(todo), c, d, c2, d2)
  PROVE  Done(c2, d2)
<1>1. c2 = c /\ d2 = c
  BY DEF Kept, Ready, Allowed, Due
<1>2. loop' = "none" /\ width' = WidthOf(c) /\ Within(bound', c) /\ Within(factor', c)
  BY DEF Kept, Ready, Due, butterflyVars, loopVars
<1> QED
  BY <1>1, <1>2 DEF Done

LEMMA SameWidth ==
  ASSUME NEW o, NEW c, NEW d, NEW c2, NEW d2, Ready(o, c, d, c2, d2),
         UNCHANGED <<width, factor, loopVars>>, d2 = d, WidthOf(c2) = WidthOf(c),
         Within(bound', c2)
  PROVE  Done(c2, d2)
BY DEF Ready, Done, loopVars

LEMMA WidthsOf ==
  /\ \A c \in WideClass : WidthOf(c) = 32
  /\ \A c \in SmallClass : WidthOf(c) = 16
  /\ WideClass = {"half", "low", "sum", "total", "hat"} /\ Single = {"half", "low"}
BY DEF WidthOf, WideClass, SmallClass, Single

LEMMA SingleMost ==
  ASSUME NEW c \in Single PROVE Most(c) <= Most("low") /\ Most(c) \in Nat
BY MostOnce, SMT DEF Single

LEMMA TimesDone ==
  ASSUME Due("times"), Each([i \in Index |-> Montgomery(bound[i], By)]),
         UNCHANGED <<width, factor, loopVars>>,
         NEW c, NEW d, NEW c2, NEW d2, Ready(Head(todo), c, d, c2, d2)
  PROVE  Done(c2, d2)
<1> DEFINE f == [i \in Index |-> Montgomery(bound[i], By)]
<1>1. c = "hat" /\ By \in Nat /\ By <= Most("low") /\ c2 = "half" /\ d2 = d
  BY DEF Ready, Allowed, Due, By, Operation
<1>2. Within(bound, "hat")
  BY <1>1 DEF Ready
<1>3. ASSUME NEW i \in Index
      PROVE  Montgomery(bound[i], By) \in Nat /\ Montgomery(bound[i], By) <= Most("half")
  <2>1. bound[i] \in Nat /\ bound[i] <= Most("hat")
    BY <1>2 DEF Within
  <2>2. By <= Most("hat")
    BY <1>1, MostOnce, MostSums, SMT
  <2> QED
    BY <1>1, <2>1, <2>2, MontgomeryHalf, Zenon
<1>4. \A i \in Index : f[i] \in Nat /\ f[i] <= Most("half")
  BY <1>3
<1> HIDE DEF f
<1>5. Within(bound', "half")
  BY <1>4, EachWithin DEF f
<1>6. WidthOf(c) = WidthOf(c2)
  BY <1>1, WidthsOf
<1> QED
  BY <1>1, <1>5, <1>6, SameWidth

LEMMA TimesKeptDone ==
  ASSUME Due("times_kept"), Each([i \in Index |-> Montgomery(bound[i], factor[i])]),
         UNCHANGED <<width, factor, loopVars>>,
         NEW c, NEW d, NEW c2, NEW d2, Ready(Head(todo), c, d, c2, d2)
  PROVE  Done(c2, d2)
<1> DEFINE f == [i \in Index |-> Montgomery(bound[i], factor[i])]
<1>1. c = "hat" /\ d = "hat" /\ c2 = "half" /\ d2 = d
  BY DEF Ready, Allowed, Due
<1>2. Within(bound, "hat") /\ Within(factor, "hat")
  BY <1>1 DEF Ready
<1>3. ASSUME NEW i \in Index
      PROVE  Montgomery(bound[i], factor[i]) \in Nat /\ Montgomery(bound[i], factor[i]) <= Most("half")
  <2>1. /\ bound[i] \in Nat /\ bound[i] <= Most("hat")
        /\ factor[i] \in Nat /\ factor[i] <= Most("hat")
    BY <1>2 DEF Within
  <2> QED
    BY <2>1, MontgomeryHalf, Zenon
<1>4. \A i \in Index : f[i] \in Nat /\ f[i] <= Most("half")
  BY <1>3
<1> HIDE DEF f
<1>5. Within(bound', "half")
  BY <1>4, EachWithin DEF f
<1>6. WidthOf(c) = WidthOf(c2)
  BY <1>1, WidthsOf
<1> QED
  BY <1>1, <1>5, <1>6, SameWidth

(* A sum of at most 60 polynomials below Q. *)
LEMMA SumDone ==
  ASSUME Due("sum"), Each([i \in Index |-> Repeated(bound[i], By)]),
         UNCHANGED <<width, factor, loopVars>>,
         NEW c, NEW d, NEW c2, NEW d2, Ready(Head(todo), c, d, c2, d2)
  PROVE  Done(c2, d2)
<1> DEFINE f == [i \in Index |-> Repeated(bound[i], By)]
<1>1. c \in Single /\ By \in Nat /\ By <= 60 /\ c2 = "sum" /\ d2 = d
  BY DEF Ready, Allowed, Due, By, Operation
<1>2. Within(bound, c) /\ width = 32
  BY <1>1, WidthsOf DEF Ready
<1>3. ASSUME NEW i \in Index
      PROVE  Repeated(bound[i], By) \in Nat /\ Repeated(bound[i], By) <= Most("sum")
  <2>1. bound[i] \in Nat /\ bound[i] <= 8380416
    BY <1>1, <1>2, SingleMost, MostOnce, SMT DEF Within
  <2> DEFINE n == By * bound[i]
  <2>2. n \in Nat /\ n <= 60 * bound[i]
    BY <1>1, <2>1, ProductMonotonic
  <2>3. Repeated(bound[i], By) = IF bound[i] = Lost \/ n > Limit THEN Lost ELSE n
    BY DEF Repeated
  <2> HIDE DEF n
  <2>4. n <= 502824960
    BY <2>1, <2>2, SMT
  <2>5. bound[i] # Lost /\ ~(n > Limit)
    BY <1>2, <2>1, <2>2, <2>4, Numerals, SMT DEF Limit
  <2> QED
    BY <2>2, <2>3, <2>4, <2>5, MostSums, SMT
<1>4. \A i \in Index : f[i] \in Nat /\ f[i] <= Most("sum")
  BY <1>3
<1> HIDE DEF f
<1>5. Within(bound', "sum")
  BY <1>4, EachWithin DEF f
<1>6. WidthOf(c) = WidthOf(c2)
  BY <1>1, WidthsOf
<1> QED
  BY <1>1, <1>5, <1>6, SameWidth

(* poly_add and poly_sub, of two classes whose sum is a third. *)
LEMMA PlusWithin ==
  ASSUME NEW c \in Class, NEW c2 \in Class, width = 32, Within(bound, c), NEW v \in [Index -> Nat],
         NEW m \in Nat, \A i \in Index : v[i] <= m,
         Most(c) + m <= Most(c2), Most(c) \in Nat, Most(c2) \in Nat, Most(c2) <= 519585792,
         Each([i \in Index |-> Plus(bound[i], v[i])])
  PROVE  Within(bound', c2)
<1> DEFINE f == [i \in Index |-> Plus(bound[i], v[i])]
<1>1. ASSUME NEW i \in Index
      PROVE  Plus(bound[i], v[i]) \in Nat /\ Plus(bound[i], v[i]) <= Most(c2)
  <2>1. bound[i] \in Nat /\ bound[i] <= Most(c) /\ v[i] \in Nat /\ v[i] <= m
    BY DEF Within
  <2>2. bound[i] + v[i] <= Most(c2) /\ bound[i] + v[i] <= 519585792
    BY <2>1, SMT
  <2>3. bound[i] + v[i] <= Limit
    BY <2>1, <2>2, Numerals, SMT DEF Limit
  <2>4. Plus(bound[i], v[i]) = bound[i] + v[i]
    BY <2>1, <2>3, PlusSum
  <2> QED
    BY <2>1, <2>2, <2>4
<1>2. \A i \in Index : f[i] \in Nat /\ f[i] <= Most(c2)
  BY <1>1
<1> HIDE DEF f
<1> QED
  BY <1>2, EachWithin DEF f

LEMMA AddDone ==
  ASSUME Due("add"), Each([i \in Index |-> Plus(bound[i], By)]),
         UNCHANGED <<width, factor, loopVars>>,
         NEW c, NEW d, NEW c2, NEW d2, Ready(Head(todo), c, d, c2, d2)
  PROVE  Done(c2, d2)
<1> DEFINE v == [i \in Index |-> By]
<1>1. /\ By \in Nat /\ d2 = d /\ c \in Single \cup {"sum"}
      /\ \/ c = "half" /\ By <= 2^20 /\ c2 = "low"
         \/ By <= Most("low") /\ c2 = "total"
  BY DEF Ready, Allowed, Due, By, Operation, Single
<1>2. Within(bound, c) /\ width = 32 /\ WidthOf(c) = WidthOf(c2) /\ c \in Class /\ c2 \in Class
  BY <1>1, WidthsOf DEF Ready
<1>3. /\ Most(c) + By <= Most(c2) /\ Most(c) \in Nat /\ Most(c2) \in Nat
      /\ Most(c2) <= 519585792
  <2>1. CASE c = "half" /\ By <= 2^20 /\ c2 = "low"
    BY <1>1, <2>1, MostOnce, SMT
  <2>2. CASE By <= Most("low") /\ c2 = "total"
    BY <1>1, <2>2, MostOnce, MostSums, SMT DEF Single
  <2> QED
    BY <1>1, <2>1, <2>2
<1>4. v \in [Index -> Nat] /\ \A i \in Index : v[i] <= By
  BY <1>1
<1>5. Each([i \in Index |-> Plus(bound[i], v[i])])
  BY DEF Each
<1> HIDE DEF v
<1>6. Within(bound', c2)
  BY <1>1, <1>2, <1>3, <1>4, <1>5, PlusWithin
<1> QED
  BY <1>1, <1>2, <1>6, SameWidth

LEMMA AddKeptDone ==
  ASSUME Due("add_kept"), Each([i \in Index |-> Plus(bound[i], factor[i])]),
         UNCHANGED <<width, factor, loopVars>>,
         NEW c, NEW d, NEW c2, NEW d2, Ready(Head(todo), c, d, c2, d2)
  PROVE  Done(c2, d2)
<1>1. d2 = d /\ c \in Single \cup {"sum"} /\ d \in Single /\ c2 = "total"
  BY DEF Ready, Allowed, Due
<1>2. /\ Within(bound, c) /\ width = 32 /\ WidthOf(c) = WidthOf(c2) /\ c \in Class /\ c2 \in Class
      /\ Within(factor, d)
  BY <1>1, WidthsOf DEF Ready
<1> DEFINE m == Most(d)
<1>3. m \in Nat /\ m <= Most("low")
  BY <1>1, SingleMost
<1>4. factor \in [Index -> Nat] /\ \A i \in Index : factor[i] <= m
  BY <1>2 DEF Within
<1> HIDE DEF m
<1>5. /\ Most(c) + m <= Most(c2) /\ Most(c) \in Nat /\ Most(c2) \in Nat
      /\ Most(c2) <= 519585792
  BY <1>1, <1>3, MostOnce, MostSums, SMT DEF Single
<1>6. Within(bound', c2)
  BY <1>2, <1>3, <1>4, <1>5, PlusWithin
<1> QED
  BY <1>1, <1>2, <1>6, SameWidth

(* The two coefficients of a pair, from two 16-bit products each. *)
LEMMA MultipliedDone ==
  ASSUME Multiplied, NEW c, NEW d, NEW c2, NEW d2, Ready(Head(todo), c, d, c2, d2)
  PROVE  Done(c2, d2)
<1> DEFINE zeta == (SMALL_Q - 1) \div 2
           even(n) == Plus(Fqmul(Fqmul(factor[n + 1], bound[n + 1]), zeta), Fqmul(factor[n], bound[n]))
           odd(n) == Plus(Fqmul(factor[n], bound[n + 1]), Fqmul(factor[n + 1], bound[n]))
           f == [i \in Index |-> IF i % 2 = 0 THEN even(i - (i % 2)) ELSE odd(i - (i % 2))]
<1>1. c = "small_hat" /\ d = "small_hat" /\ c2 = "pair" /\ d2 = d
  BY DEF Multiplied, Ready, Allowed, Due
<1>2. Within(bound, "small_hat") /\ Within(factor, "small_hat") /\ width = 16 /\ WidthOf(c) = WidthOf(c2)
  BY <1>1, WidthsOf DEF Ready, SmallClass
<1>3. \A i \in Index : /\ bound[i] \in Nat /\ bound[i] <= Most("small_hat")
                       /\ factor[i] \in Nat /\ factor[i] <= Most("small_hat")
  BY <1>2 DEF Within
<1>4. ASSUME NEW x \in Nat, NEW y \in Nat, x <= Most("product"), y <= Most("product")
      PROVE  Plus(x, y) \in Nat /\ Plus(x, y) <= 16383
  <2>1. x + y <= Limit /\ x + y <= 16383
    BY <1>2, <1>4, MostShort DEF Limit
  <2>2. Plus(x, y) = x + y
    BY <2>1, PlusSum
  <2> QED
    BY <2>1, <2>2
<1>5. ASSUME NEW x \in Nat, x <= Most("product")
      PROVE  Fqmul(x, zeta) \in Nat /\ Fqmul(x, zeta) <= Most("product")
  <2>1. x <= 32767
    BY <1>5, MostShort
  <2>2. Fqmul(x, zeta) \in Nat /\ Fqmul(x, zeta) <= 2497
    BY <2>1, FqmulZeta
  <2> QED
    BY <2>2, MostShort
<1>6. ASSUME NEW n \in Index, n + 1 \in Index
      PROVE  /\ even(n) \in Nat /\ even(n) <= 16383
             /\ odd(n) \in Nat /\ odd(n) <= 16383
  <2> DEFINE v == factor[n]  u == factor[n + 1]  x == bound[n]  y == bound[n + 1]
  <2> DEFINE m == Most("small_hat")
  <2>1. /\ v \in Nat /\ v <= m /\ u \in Nat /\ u <= m
        /\ x \in Nat /\ x <= m /\ y \in Nat /\ y <= m
    BY <1>3, <1>6
  <2>2. even(n) = Plus(Fqmul(Fqmul(u, y), zeta), Fqmul(v, x)) /\ odd(n) = Plus(Fqmul(v, y), Fqmul(u, x))
    OBVIOUS
  <2> HIDE DEF v, u, x, y, even, odd
  <2>3. Fqmul(u, y) \in Nat /\ Fqmul(u, y) <= Most("product")
    BY <2>1, FqmulHats, Zenon
  <2>4. Fqmul(v, x) \in Nat /\ Fqmul(v, x) <= Most("product")
    BY <2>1, FqmulHats, Zenon
  <2>5. Fqmul(v, y) \in Nat /\ Fqmul(v, y) <= Most("product")
    BY <2>1, FqmulHats, Zenon
  <2>6. Fqmul(u, x) \in Nat /\ Fqmul(u, x) <= Most("product")
    BY <2>1, FqmulHats, Zenon
  <2> DEFINE t == Fqmul(Fqmul(u, y), zeta)
  <2>7. t \in Nat /\ t <= Most("product")
    BY <2>3, <1>5
  <2> HIDE DEF t
  <2>8. even(n) = Plus(t, Fqmul(v, x))
    BY <2>2 DEF t
  <2> QED
    BY <2>2, <2>4, <2>5, <2>6, <2>7, <2>8, <1>4
<1>7. ASSUME NEW i \in Index
      PROVE  i - (i % 2) \in Index /\ (i - (i % 2)) + 1 \in Index
  BY Degrees, SMT DEF Index
<1>8. Each(f)
  BY DEF Multiplied
<1> HIDE DEF even, odd
<1>9. \A i \in Index : f[i] \in Nat /\ f[i] <= Most("pair")
  BY <1>6, <1>7, MostShort
<1> HIDE DEF f
<1>10. Within(bound', "pair")
  BY <1>8, <1>9, EachWithin DEF f
<1>11. UNCHANGED <<width, factor, loopVars>>
  BY DEF Multiplied
<1> QED
  BY <1>1, <1>2, <1>10, <1>11, SameWidth

LEMMA WidenedDone ==
  ASSUME Widened, NEW c, NEW d, NEW c2, NEW d2, Ready(Head(todo), c, d, c2, d2)
  PROVE  Done(c2, d2)
<1> DEFINE f == [i \in Index |-> IF bound[i] = Lost \/ By > (SMALL_Q - 1) \div 2 THEN Lost ELSE By]
<1>1. c = "centred" /\ By \in Nat /\ By <= Most("centred") /\ c2 = "half" /\ d2 = d
  BY DEF Widened, Ready, Allowed, Due, By, Operation
<1>2. Within(bound, "centred")
  BY <1>1 DEF Ready
<1>3. By <= 1664 /\ (SMALL_Q - 1) \div 2 = 1664
  BY <1>1, MostShort, SMT DEF SMALL_Q
<1>4. \A i \in Index : bound[i] \in Nat /\ bound[i] # Lost
  BY <1>2, Numbers DEF Within
<1>5. \A i \in Index : f[i] = By
  BY <1>1, <1>3, <1>4
<1>6. By <= Most("half")
  BY <1>1, <1>3, MostOnce, SMT
<1>7. Each(f) /\ width' = 32 /\ UNCHANGED <<factor, loopVars>> /\ DOMAIN f = Index
  BY DEF Widened
<1> HIDE DEF f
<1>8. Within(bound', "half")
  BY <1>1, <1>5, <1>6, <1>7, EachWithin
<1>9. WidthOf(c2) = 32
  BY <1>1, WidthsOf
<1> QED
  BY <1>1, <1>7, <1>8, <1>9 DEF Ready, Done, loopVars

LEMMA ReduceDone ==
  ASSUME Due("reduce"), Each([i \in Index |-> Reduced(bound[i])]),
         UNCHANGED <<width, factor, loopVars>>,
         NEW c, NEW d, NEW c2, NEW d2, Ready(Head(todo), c, d, c2, d2)
  PROVE  Done(c2, d2)
<1> DEFINE f == [i \in Index |-> Reduced(bound[i])]
<1>1. c \in Single \cup {"sum", "total"} /\ c2 = "half" /\ d2 = d
  BY DEF Ready, Allowed, Due
<1>2. Within(bound, c) /\ WidthOf(c) = WidthOf(c2)
  BY <1>1, WidthsOf DEF Ready
<1>3. Most(c) \in Nat /\ Most(c) <= Most("total")
  BY <1>1, MostOnce, MostSums, SMT DEF Single
<1>4. ASSUME NEW i \in Index
      PROVE  Reduced(bound[i]) \in Nat /\ Reduced(bound[i]) <= Most("half")
  <2> DEFINE x == bound[i]
  <2>1. x \in Nat /\ x <= Most("total")
    BY <1>2, <1>3, MostSums, SMT DEF Within
  <2> HIDE DEF x
  <2>2. Reduced(x) \in Nat /\ Reduced(x) <= Most("half")
    BY <2>1, ReducedHalf, Zenon
  <2> QED
    BY <2>2 DEF x
<1>5. \A i \in Index : f[i] \in Nat /\ f[i] <= Most("half")
  BY <1>4
<1> HIDE DEF f
<1>6. Within(bound', "half")
  BY <1>5, EachWithin DEF f
<1> QED
  BY <1>1, <1>2, <1>6, SameWidth

LEMMA CanonicalDone ==
  ASSUME Due("caddq"),
         Each([i \in Index |-> IF bound[i] \in 0..(Q - 1) THEN Q - 1 ELSE bound[i]]),
         UNCHANGED <<width, factor, loopVars>>,
         NEW c, NEW d, NEW c2, NEW d2, Ready(Head(todo), c, d, c2, d2)
  PROVE  Done(c2, d2)
<1> DEFINE f == [i \in Index |-> IF bound[i] \in 0..(Q - 1) THEN Q - 1 ELSE bound[i]]
<1>1. c \in Single /\ c2 = "low" /\ d2 = d
  BY DEF Ready, Allowed, Due
<1>2. Within(bound, c) /\ WidthOf(c) = WidthOf(c2)
  BY <1>1, WidthsOf DEF Ready
<1>3. Q - 1 \in Nat /\ Q - 1 = Most("low")
  <2>1. Q - 1 \in Nat
    BY Numbers
  <2>2. Q - 1 = Most("low")
    BY SMT DEF Most
  <2> QED
    BY <2>1, <2>2
<1>4. \A i \in Index : bound[i] \in Nat /\ bound[i] <= Most("low")
  BY <1>1, <1>2, <1>3, SingleMost DEF Within
<1>5. \A i \in Index : f[i] \in Nat /\ f[i] <= Most("low")
  BY <1>3, <1>4
<1> HIDE DEF f
<1>6. Within(bound', "low")
  BY <1>5, EachWithin DEF f
<1> QED
  BY <1>1, <1>2, <1>6, SameWidth

LEMMA SplitDone ==
  ASSUME Due("split"), Each([i \in Index |-> IF bound[i] < Q THEN bound[i] ELSE Lost]),
         UNCHANGED <<width, factor, loopVars>>,
         NEW c, NEW d, NEW c2, NEW d2, Ready(Head(todo), c, d, c2, d2)
  PROVE  Done(c2, d2)
<1> DEFINE f == [i \in Index |-> IF bound[i] < Q THEN bound[i] ELSE Lost]
<1>1. c \in Single /\ c2 = c /\ d2 = d
  BY DEF Ready, Allowed, Due
<1>2. Within(bound, c)
  BY DEF Ready
<1>3. Most("low") < Q /\ Q \in Nat /\ Most("low") \in Nat
  BY SMT DEF Q, Most
<1>4. \A i \in Index : bound[i] \in Nat /\ bound[i] <= Most(c) /\ bound[i] < Q
  BY <1>1, <1>2, <1>3, SingleMost DEF Within
<1>5. \A i \in Index : f[i] \in Nat /\ f[i] <= Most(c)
  BY <1>4
<1> HIDE DEF f
<1>6. Within(bound', c)
  BY <1>5, EachWithin DEF f
<1> QED
  BY <1>1, <1>6, SameWidth

(* Into a transform, through it, and out of it. *)
LEMMA RunningInv ==
  ASSUME NEW c \in Class, NEW d \in Class, Typed(todo', c, d), Within(factor', d), Running(c)'
  PROVE  TransformInv'
BY DEF TransformInv

LEMMA NttBegins ==
  ASSUME Due("ntt"), EnterForward, UNCHANGED <<width, bound, factor>>,
         NEW c, NEW d, NEW c2, NEW d2, Ready(Head(todo), c, d, c2, d2)
  PROVE  Running(c2)' /\ d2 = d
<1>1. /\ d2 = d /\ Within(bound, c) /\ bound \in [Index -> Nat] /\ bound' = bound /\ width' = width
      /\ loop' = "forward" /\ bound' \in [Index -> Nat]
  BY DEF Ready, Allowed, Due, EnterForward, Within
<1>2. CASE c \in Single /\ c2 = "hat"
  <2>1. width = 32 /\ Most("low") \in Nat
    BY <1>2, WidthsOf, SingleMost DEF Ready
  <2>2. \A i \in Index : bound[i] <= Most("low")
    BY <1>1, <1>2, <2>1, SingleMost DEF Within
  <2> DEFINE b == Most("low")
  <2>3. b \in Nat /\ \A i \in Index : bound[i] <= b
    BY <2>1, <2>2
  <2> HIDE DEF b
  <2>4. LoopInv' /\ LayerInv(b, b)'
    BY <1>1, <2>3, ForwardBegins
  <2>5. LayerInv(Most("low"), Most("low"))'
    BY <2>4 DEF b
  <2> QED
    BY <1>1, <1>2, <2>1, <2>4, <2>5 DEF Running
<1>3. CASE c = "short" /\ c2 = "small_hat"
  <2>1. width = 16
    BY <1>3, WidthsOf DEF Ready, SmallClass
  <2>2. \A i \in Index : bound[i] <= 16
    BY <1>1, <1>3, MostShort DEF Within
  <2> DEFINE z == 2497
  <2>3. z \in Nat
    OBVIOUS
  <2> HIDE DEF z
  <2>4. LoopInv' /\ LayerInv(16, z)'
    BY <1>1, <2>2, <2>3, ForwardBegins
  <2>5. LayerInv(16, 2497)'
    BY <2>4 DEF z
  <2> QED
    BY <1>1, <1>3, <2>1, <2>4, <2>5 DEF Running
<1> QED
  BY <1>2, <1>3 DEF Ready, Allowed, Due

LEMMA InverseBegins == InverseInit' => InverseInv'
BY InverseInitial, PTL

LEMMA InvNttBegins ==
  ASSUME Due("invntt"), EnterInverse, UNCHANGED <<width, bound, factor>>,
         NEW c, NEW d, NEW c2, NEW d2, Ready(Head(todo), c, d, c2, d2)
  PROVE  Running(c2)' /\ d2 = d
<1>1. /\ d2 = d /\ Within(bound, c) /\ bound' = bound /\ width' = width
      /\ loop' = "inverse" /\ start' = 0 /\ j' = 0 /\ len' = SmallestLen
  BY DEF Ready, Allowed, Due, EnterInverse
<1>2. CASE c \in Single /\ c2 = "half"
  <2>1. width = 32 /\ len' = 1
    BY <1>1, <1>2, WidthsOf DEF Ready, SmallestLen
  <2>2. Most("low") = Q - 1 /\ Q - 1 \in Nat
    <3>1. Most("low") = Q - 1
      BY SMT DEF Most
    <3> QED
      BY <3>1, Numbers
  <2>3. bound \in [Index -> 0..(Q - 1)]
    BY <1>1, <1>2, <2>2, SingleMost DEF Within
  <2>4. InverseInit'
    BY <1>1, <2>1, <2>3 DEF InverseInit, Index
  <2>5. InverseInv'
    BY <2>4, InverseBegins
  <2> QED
    BY <1>1, <1>2, <2>5 DEF Running
<1>3. CASE c = "pair" /\ c2 = "centred"
  <2>1. width = 16 /\ len' = 2
    BY <1>1, <1>3, WidthsOf DEF Ready, SmallClass, SmallestLen
  <2>2. LoopInv'
    <3>1. LoopInv' <=> (loop' \in {"forward", "inverse"} =>
            /\ len' \in Nat /\ start' \in Nat /\ j' \in Nat
            /\ 1 <= len' /\ len' < Degree /\ Divides(len', Degree)
            /\ start' < Degree /\ Divides(2 * len', start')
            /\ start' <= j' /\ j' < start' + len')
      BY DEF LoopInv, Divides
    <3>2. Divides(2, Degree) /\ Divides(4, 0) /\ 2 < Degree /\ Degree \in Nat
      <4>1. Degree = (Degree \div 2) * 2 /\ Degree \div 2 \in 0..Degree /\ 2 < Degree /\ Degree \in Nat
        BY Degrees, SMT
      <4>2. Divides(2, Degree)
        BY <4>1 DEF Divides
      <4> QED
        BY <4>1, <4>2, ZeroMultiple
    <3>3. 2 * len' = 4
      BY <2>1
    <3>4. Divides(len', Degree) /\ Divides(2 * len', start')
      BY <1>1, <2>1, <3>2, <3>3, Zenon
    <3> QED
      BY <1>1, <2>1, <3>1, <3>2, <3>4
  <2>3. Within(bound', "pair") /\ width' = 16
    BY <1>1, <1>3, <2>1
  <2> QED
    BY <1>1, <1>3, <2>2, <2>3 DEF Running
<1> QED
  BY <1>2, <1>3 DEF Ready, Allowed, Due

LEMMA ForwardRuns ==
  ASSUME NEW c, Running(c), ForwardButterfly
  PROVE  Running(c)'
<1>1. /\ loop = "forward" /\ LoopInv /\ bound \in [Index -> Nat]
      /\ \/ c = "hat" /\ width = 32 /\ LayerInv(Most("low"), Most("low"))
         \/ c = "small_hat" /\ width = 16 /\ LayerInv(16, 2497)
  BY DEF Running, ForwardButterfly
<1>2. CASE c = "hat" /\ width = 32 /\ LayerInv(Most("low"), Most("low"))
  <2> DEFINE b == Most("low")  n == 8
  <2>1. /\ b \in Nat /\ n \in Nat /\ n = (IF width = 16 THEN 7 ELSE 8)
        /\ b + n * b <= Limit /\ b + n * b = Most("hat")
    BY <1>2, MostOnce, MostSums, Numerals, SMT DEF Limit
  <2>2. LayerInv(b, b) /\ \A x \in Nat : x <= Limit => TimesZeta(x) \in Nat /\ TimesZeta(x) <= b
    BY <1>2, Zetas
  <2> HIDE DEF b, n
  <2>3. /\ width' = width /\ bound' \in [Index -> Nat]
        /\ loop' \in {"forward", "none"} /\ LoopInv' /\ LayerInv(b, b)'
        /\ loop' = "none" => \A i \in Index : bound'[i] <= b + n * b
    BY <1>1, <1>2, <2>1, <2>2, ForwardStep
  <2>4. LayerInv(Most("low"), Most("low"))'
    BY <2>3 DEF b
  <2>5. CASE loop' = "none"
    <3>1. \A i \in Index : bound'[i] <= Most("hat")
      BY <2>1, <2>3, <2>5
    <3>2. Within(bound', "hat") /\ WidthOf("hat") = 32
      BY <3>1, <2>3, WidthsOf DEF Within
    <3> QED
      BY <1>2, <2>3, <2>5, <3>2 DEF Running
  <2>6. CASE loop' = "forward"
    BY <1>2, <2>3, <2>4, <2>6 DEF Running
  <2> QED
    BY <2>3, <2>5, <2>6
<1>3. CASE c = "small_hat" /\ width = 16 /\ LayerInv(16, 2497)
  <2> DEFINE b == 16  z == 2497  n == 7
  <2>1. /\ b \in Nat /\ z \in Nat /\ n \in Nat /\ n = (IF width = 16 THEN 7 ELSE 8)
        /\ b + n * z <= Limit /\ b + n * z = Most("small_hat")
    BY <1>3, MostShort, SMT DEF Limit
  <2>2. LayerInv(b, z) /\ \A x \in Nat : x <= Limit => TimesZeta(x) \in Nat /\ TimesZeta(x) <= z
    BY <1>3, Zetas
  <2> HIDE DEF b, n, z
  <2>3. /\ width' = width /\ bound' \in [Index -> Nat]
        /\ loop' \in {"forward", "none"} /\ LoopInv' /\ LayerInv(b, z)'
        /\ loop' = "none" => \A i \in Index : bound'[i] <= b + n * z
    BY <1>1, <1>3, <2>1, <2>2, ForwardStep
  <2>4. LayerInv(16, 2497)'
    BY <2>3 DEF b, z
  <2>5. CASE loop' = "none"
    <3>1. \A i \in Index : bound'[i] <= Most("small_hat")
      BY <2>1, <2>3, <2>5
    <3>2. Within(bound', "small_hat") /\ WidthOf("small_hat") = 16
      BY <3>1, <2>3, WidthsOf DEF Within, SmallClass
    <3> QED
      BY <1>3, <2>3, <2>5, <3>2 DEF Running
  <2>6. CASE loop' = "forward"
    BY <1>3, <2>3, <2>4, <2>6 DEF Running
  <2> QED
    BY <2>3, <2>5, <2>6
<1> QED
  BY <1>1, <1>2, <1>3

LEMMA InverseRuns ==
  ASSUME NEW c, Running(c), InverseButterfly \/ Scale
  PROVE  Running(c)'
<1>1. \/ c = "half" /\ loop \in {"inverse", "scale"} /\ InverseInv
      \/ /\ c = "centred" /\ loop \in {"inverse", "scale"}
         /\ width = 16 /\ LoopInv /\ Within(bound, "pair")
  BY DEF Running, InverseButterfly, Scale
<1>2. CASE c = "half" /\ InverseInv /\ InverseButterfly
  <2>1. InverseInv' /\ loop' \in {"inverse", "scale"}
    BY <1>2, ButterflyStep DEF InverseButterfly, NextButterfly, NextBlock, NextInverseLayer
  <2> QED
    BY <1>2, <2>1 DEF Running
<1>3. CASE c = "half" /\ InverseInv /\ Scale
  <2>1. width' = 32 /\ loop' = "none" /\ Within(bound', "half") /\ WidthOf("half") = 32
    BY <1>3, WideScale, WidthsOf
  <2> QED
    BY <1>3, <2>1 DEF Running
<1>4. CASE c = "centred" /\ width = 16 /\ LoopInv /\ Within(bound, "pair") /\ InverseButterfly
  <2>1. width' = 16 /\ loop' \in {"inverse", "scale"} /\ LoopInv' /\ Within(bound', "pair")
    BY <1>4, ShortInverseStep DEF InverseButterfly
  <2> QED
    BY <1>4, <2>1 DEF Running
<1>5. CASE c = "centred" /\ width = 16 /\ Within(bound, "pair") /\ Scale
  <2>1. width' = 16 /\ loop' = "none" /\ Within(bound', "centred") /\ WidthOf("centred") = 16
    BY <1>5, ShortScale, WidthsOf DEF SmallClass
  <2> QED
    BY <1>5, <2>1 DEF Running
<1> QED
  BY <1>1, <1>2, <1>3, <1>4, <1>5

-----------------------------------------------------------------------------
(* The invariant of the programs.                                          *)

LEMMA TransformInitial == TransformInit => TransformInv
<1> SUFFICES ASSUME TransformInit PROVE TransformInv
  OBVIOUS
<1>1. PICK p \in ParameterSet : todo \in Programs(p)
  BY DEF TransformInit
<1>2. Typed(todo, "low", "low")
  BY <1>1, ProgramLeads DEF Typed
<1>3. bound = [i \in Index |-> 0] /\ factor = bound /\ width = 32 /\ loop = "none"
  BY DEF TransformInit
<1>4. Within(bound, "low") /\ Within(factor, "low")
  <2>1. Most("low") \in Nat
    BY SingleMost DEF Single
  <2> QED
    BY <1>3, <2>1 DEF Within
<1>5. WidthOf("low") = 32 /\ "low" \in Class
  BY WidthsOf DEF Class
<1>6. Running("low")
  BY <1>3, <1>4, <1>5 DEF Running
<1> QED
  BY <1>2, <1>4, <1>5, <1>6 DEF TransformInv

LEMMA TransformStep ==
  ASSUME TransformInv, TransformNext
  PROVE  TransformInv'
<1>1. CASE Loaded
  <2>1. Due("load") \/ Due("narrowed")
    BY <1>1 DEF Loaded
  <2>2. PICK c, d, c2, d2 : Ready(Head(todo), c, d, c2, d2)
    BY <2>1, DueReady
  <2> QED
    BY <1>1, <2>2, LoadedDone, DoneInv
<1>2. CASE Kept
  <2>1. PICK c, d, c2, d2 : Ready(Head(todo), c, d, c2, d2)
    BY <1>2, DueReady DEF Kept
  <2> QED
    BY <1>2, <2>1, KeptDone, DoneInv
<1>3. CASE Pointwise
  <2>1. UNCHANGED <<width, factor, loopVars>>
    BY <1>3 DEF Pointwise
  <2>2. Due("times") \/ Due("times_kept") \/ Due("sum") \/ Due("add") \/ Due("add_kept")
    BY <1>3 DEF Pointwise
  <2>3. PICK c, d, c2, d2 : Ready(Head(todo), c, d, c2, d2)
    BY <2>2, DueReady
  <2>4. Done(c2, d2)
    BY <1>3, <2>1, <2>3, TimesDone, TimesKeptDone, SumDone, AddDone, AddKeptDone, Zenon DEF Pointwise
  <2> QED
    BY <2>3, <2>4, DoneInv
<1>4. CASE Multiplied
  <2>1. PICK c, d, c2, d2 : Ready(Head(todo), c, d, c2, d2)
    BY <1>4, DueReady DEF Multiplied
  <2> QED
    BY <1>4, <2>1, MultipliedDone, DoneInv
<1>5. CASE Widened
  <2>1. PICK c, d, c2, d2 : Ready(Head(todo), c, d, c2, d2)
    BY <1>5, DueReady DEF Widened
  <2> QED
    BY <1>5, <2>1, WidenedDone, DoneInv
<1>6. CASE Normalized
  <2>1. UNCHANGED <<width, factor, loopVars>>
    BY <1>6 DEF Normalized
  <2>2. Due("reduce") \/ Due("caddq") \/ Due("split")
    BY <1>6 DEF Normalized
  <2>3. PICK c, d, c2, d2 : Ready(Head(todo), c, d, c2, d2)
    BY <2>2, DueReady
  <2>4. Done(c2, d2)
    BY <1>6, <2>1, <2>3, ReduceDone, CanonicalDone, SplitDone, Zenon DEF Normalized
  <2> QED
    BY <2>3, <2>4, DoneInv
<1>7. CASE EnterTransform
  <2>1. UNCHANGED <<width, bound, factor>>
    BY <1>7 DEF EnterTransform
  <2>2. Due("ntt") \/ Due("invntt")
    BY <1>7 DEF EnterTransform
  <2>3. PICK c, d, c2, d2 : Ready(Head(todo), c, d, c2, d2)
    BY <2>2, DueReady
  <2>4. Running(c2)' /\ d2 = d
    BY <1>7, <2>1, <2>3, NttBegins, InvNttBegins, Zenon DEF EnterTransform
  <2>5. c2 \in Class /\ d2 \in Class /\ Typed(todo', c2, d2) /\ Within(factor', d2)
    BY <2>1, <2>3, <2>4 DEF Ready
  <2> QED
    BY <2>4, <2>5, RunningInv
<1>8. CASE Butterfly
  <2>1. PICK c \in Class, d \in Class : Typed(todo, c, d) /\ Within(factor, d) /\ Running(c)
    BY DEF TransformInv
  <2>2. Typed(todo', c, d) /\ Within(factor', d)
    BY <1>8, <2>1 DEF Butterfly
  <2>3. Running(c)'
    BY <1>8, <2>1, ForwardRuns, InverseRuns DEF Butterfly, ButterflyNext
  <2> QED
    BY <2>2, <2>3, RunningInv
<1> QED
  BY <1>1, <1>2, <1>3, <1>4, <1>5, <1>6, <1>7, <1>8 DEF TransformNext

LEMMA LayerStutter ==
  ASSUME width' = width, bound' = bound, loop' = loop, len' = len, start' = start, j' = j,
         NEW base, NEW z
  PROVE  LayerInv(base, z)' <=> LayerInv(base, z)
<1>1. \A i \in Index : Pending(i)' <=> Pending(i)
  BY DEF Pending
<1>2. SmallestLen' = SmallestLen
  BY DEF SmallestLen
<1>3. LayerInv(base, z)' <=>
        (loop' = "forward" =>
          \E k \in 0..7 :
            /\ len' = LayerLen(k) /\ SmallestLen' <= len'
            /\ \A i \in Index :
                 /\ bound'[i] <= base + (k + 1) * z
                 /\ Pending(i)' => bound'[i] <= base + k * z)
  BY DEF LayerInv, LayerLen, Index
<1> QED
  BY <1>1, <1>2, <1>3, Zenon DEF LayerInv

LEMMA TransformStutter ==
  ASSUME TransformInv, UNCHANGED transformVars
  PROVE  TransformInv'
<1>1. PICK c \in Class, d \in Class : Typed(todo, c, d) /\ Within(factor, d) /\ Running(c)
  BY DEF TransformInv
<1>2. /\ todo' = todo /\ factor' = factor /\ UNCHANGED butterflyVars
      /\ width' = width /\ bound' = bound /\ loop' = loop /\ len' = len /\ start' = start /\ j' = j
  BY DEF transformVars, butterflyVars, loopVars
<1>3. LoopInv' <=> LoopInv
  BY <1>2 DEF LoopInv, Divides
<1>4. /\ LayerInv(Most("low"), Most("low"))' <=> LayerInv(Most("low"), Most("low"))
      /\ LayerInv(16, 2497)' <=> LayerInv(16, 2497)
  BY <1>2, LayerStutter
<1>5. InverseInv => InverseInv'
  BY <1>2, StutterStep
<1>6. Running(c)'
  BY <1>1, <1>2, <1>3, <1>4, <1>5 DEF Running
<1> QED
  BY <1>1, <1>2, <1>6, RunningInv

LEMMA TransformInvariant == TransformSpec => []TransformInv
<1>1. TransformInv /\ [TransformNext]_transformVars => TransformInv'
  BY TransformStep, TransformStutter
<1> QED
  BY <1>1, TransformInitial, PTL DEF TransformSpec

(***************************************************************************)
(* No coefficient outgrows its type or the range of the operation that     *)
(* takes it, in any of the callers of the transforms: sign.c, poly.c and   *)
(* polyvec.c of c-ref, lowram.c and smallpoly.c of c-lowram.  For every    *)
(* degree and parameter set of the assumptions, whatever the coefficients. *)
(***************************************************************************)
THEOREM TransformsInRange == TransformSpec => []InRange
<1>1. TransformInv => InRange
  <2> SUFFICES ASSUME TransformInv PROVE InRange
    OBVIOUS
  <2>1. PICK c : Running(c)
    BY DEF TransformInv
  <2>2. \A i \in Index : bound[i] \in Nat
    BY <2>1 DEF Running, Within, InverseInv, TypeInv
  <2> QED
    BY <2>2, Numbers DEF InRange
<1> QED
  BY <1>1, TransformInvariant, PTL

-----------------------------------------------------------------------------
(***************************************************************************)
(* Packing.  A table of shifts is right when every term moves its word by  *)
(* the distance between the two words in the bit string, and no word that  *)
(* overlaps is left out; both are checked of each table of the code.  That *)
(* a loop with a right table gives the words of the string, and that the   *)
(* loops over bits do, is proved for every number of groups.               *)
(***************************************************************************)

(* Bit x of the string, and word number n of it, in words of a size. *)
BitOf(x) == <<x \div Fmt.width, x % Fmt.width>>
WordOf(n, size) == {<<b, BitOf(size * n + b)>> : b \in 0 .. (size - 1)}

LEMMA Steps ==
  ASSUME NEW size \in Nat \ {0}, NEW m \in Nat, NEW n \in Nat, m < n
  PROVE  size * m \in Nat /\ size * n \in Nat /\ size * m + size <= size * n
<1>1. size * n = size * m + size * (n - m)
  OBVIOUS
<1>2. size * (n - m) >= size
  OBVIOUS
<1>3. size * m \in Nat /\ size * n \in Nat
  OBVIOUS
<1> QED
  BY <1>1, <1>2, <1>3

(* From `many` words of `from` bits to `count` words of `to` bits. *)
TableRight(table, from, to, many, count) ==
  \A m \in 0 .. (count - 1) :
    /\ \A t \in table[m + 1] : t[1] \in 0 .. (many - 1) /\ t[2] = from * t[1] - to * m
    /\ \A k \in 0 .. (many - 1) :
         from * k < to * (m + 1) /\ to * m < from * (k + 1)
           => <<k, from * k - to * m>> \in table[m + 1]

LEMMA PackTables ==
  /\ TableRight(Eta2Pack, 3, 8, 8, 3) /\ TableRight(Eta4Pack, 4, 8, 2, 1)
  /\ TableRight(T1Pack, 10, 8, 4, 5) /\ TableRight(T0Pack, 13, 8, 8, 13)
  /\ TableRight(Z17Pack, 18, 8, 4, 9) /\ TableRight(Z19Pack, 20, 8, 2, 5)
  /\ TableRight(W16Pack, 6, 8, 4, 3) /\ TableRight(W14Pack, 4, 8, 2, 1)
  /\ TableRight(WPack, 24, 8, 1, 3) /\ TableRight(SolW1Pack, 6, 8, 4, 3)
<1>1. TableRight(Eta2Pack, 3, 8, 8, 3)
  BY DEF TableRight, Eta2Pack
<1>2. TableRight(Eta4Pack, 4, 8, 2, 1)
  BY DEF TableRight, Eta4Pack
<1>3. TableRight(T1Pack, 10, 8, 4, 5)
  BY DEF TableRight, T1Pack
<1>4. TableRight(T0Pack, 13, 8, 8, 13)
  BY DEF TableRight, T0Pack
<1>5. TableRight(Z17Pack, 18, 8, 4, 9)
  BY DEF TableRight, Z17Pack
<1>6. TableRight(Z19Pack, 20, 8, 2, 5)
  BY DEF TableRight, Z19Pack
<1>7. TableRight(W16Pack, 6, 8, 4, 3)
  BY DEF TableRight, W16Pack
<1>8. TableRight(W14Pack, 4, 8, 2, 1)
  BY DEF TableRight, W14Pack
<1>9. TableRight(WPack, 24, 8, 1, 3)
  BY DEF TableRight, WPack
<1>10. TableRight(SolW1Pack, 6, 8, 4, 3)
  BY DEF TableRight, SolW1Pack
<1> QED
  BY <1>1, <1>2, <1>3, <1>4, <1>5, <1>6, <1>7, <1>8, <1>9, <1>10

LEMMA UnpackTables ==
  /\ TableRight(Eta2Unpack, 8, 3, 3, 8) /\ TableRight(Eta4Unpack, 8, 4, 1, 2)
  /\ TableRight(T1Unpack, 8, 10, 5, 4) /\ TableRight(T1UnpackIdx, 8, 10, 5, 4)
  /\ TableRight(T0Unpack, 8, 13, 13, 8) /\ TableRight(T0UnpackIdx, 8, 13, 13, 8)
  /\ TableRight(Z17Unpack, 8, 18, 9, 4) /\ TableRight(Z19Unpack, 8, 20, 5, 2)
  /\ TableRight(WUnpack, 8, 24, 3, 1)
<1>1. TableRight(Eta2Unpack, 8, 3, 3, 8)
  BY DEF TableRight, Eta2Unpack
<1>2. TableRight(Eta4Unpack, 8, 4, 1, 2)
  BY DEF TableRight, Eta4Unpack
<1>3. TableRight(T1Unpack, 8, 10, 5, 4)
  BY DEF TableRight, T1Unpack
<1>4. TableRight(T1UnpackIdx, 8, 10, 5, 4)
  BY DEF TableRight, T1UnpackIdx
<1>5. TableRight(T0Unpack, 8, 13, 13, 8)
  BY DEF TableRight, T0Unpack
<1>6. TableRight(T0UnpackIdx, 8, 13, 13, 8)
  BY DEF TableRight, T0UnpackIdx
<1>7. TableRight(Z17Unpack, 8, 18, 9, 4)
  BY DEF TableRight, Z17Unpack
<1>8. TableRight(Z19Unpack, 8, 20, 5, 2)
  BY DEF TableRight, Z19Unpack
<1>9. TableRight(WUnpack, 8, 24, 3, 1)
  BY DEF TableRight, WUnpack
<1> QED
  BY <1>1, <1>2, <1>3, <1>4, <1>5, <1>6, <1>7, <1>8, <1>9

(* A set of terms makes word n, of size `to`, at bit from * base + shift of *)
(* the string when it moves word base + k, of size `from`, by from * k -   *)
(* shift, and leaves out no word that reaches into it.                     *)
TermsRight(terms, words, from, base, shift, n, to) ==
  /\ from * base + shift = to * n
  /\ \A t \in terms : /\ t[1] \in Int /\ t[2] = from * t[1] - shift
                      /\ words[t[1]] = WordOf(base + t[1], from)
  /\ \A k \in Int : base + k >= 0 /\ from * k < shift + to /\ shift < from * k + from
                     => <<k, from * k - shift>> \in terms

LEMMA GatheredWords ==
  ASSUME NEW from \in Nat \ {0}, NEW to \in Nat \ {0}, NEW base \in Nat, NEW n \in Nat,
         NEW shift \in Int,
         NEW terms, NEW words, TermsRight(terms, words, from, base, shift, n, to)
  PROVE  Truncated(Or(terms, words), to) = WordOf(n, to)
<1> DEFINE new == Truncated(Or(terms, words), to)  old == WordOf(n, to)
           atb == to * n  fb == from * base
<1>1. atb \in Nat /\ fb \in Nat /\ fb + shift = atb
  <2>1. fb + shift = atb
    BY Zenon DEF TermsRight
  <2> QED
    BY <2>1
<1>2. \A p : p \in new <=> /\ p[1] \in 0 .. (to - 1)
                          /\ \E t \in terms : \E q \in words[t[1]] : p = <<q[1] + t[2], q[2]>>
  <2>1. \A p : p \in Or(terms, words)
                 <=> \E t \in terms : \E q \in words[t[1]] : p = <<q[1] + t[2], q[2]>>
    <3>1. \A p : p \in Or(terms, words) <=> \E t \in terms : p \in Shift(words[t[1]], t[2])
      BY DEF Or
    <3> QED
      BY <3>1, Zenon DEF Shift
  <2>2. \A p : p \in new <=> p \in Or(terms, words) /\ p[1] \in 0 .. (to - 1)
    BY Zenon DEF Truncated
  <2> QED
    BY <2>1, <2>2, Zenon
<1>3. ASSUME NEW k \in Int
      PROVE  from * k \in Int /\ from * (base + k) = fb + from * k
  OBVIOUS
<1> HIDE DEF atb, fb
<1>4. ASSUME NEW p \in new
      PROVE  p \in old
  <2>1. PICK t \in terms : \E q \in words[t[1]] : p = <<q[1] + t[2], q[2]>>
    BY <1>2
  <2>2. PICK q \in words[t[1]] : p = <<q[1] + t[2], q[2]>>
    BY <2>1
  <2> DEFINE k == t[1]  fk == from * k
  <2>3. k \in Int /\ t[2] = fk - shift /\ words[k] = WordOf(base + k, from)
    BY Zenon DEF TermsRight
  <2>4. PICK b \in 0 .. (from - 1) : q = <<b, BitOf(from * (base + k) + b)>>
    <3> HIDE DEF k
    <3>1. q \in words[k]
      BY <2>2 DEF k
    <3> QED
      BY <2>3, <3>1, Zenon DEF WordOf
  <2>5. fk \in Int /\ from * (base + k) = fb + fk
    <3> HIDE DEF k
    <3> QED
      BY <1>3, <2>3
  <2> DEFINE d == b + (fk - shift)
  <2>6. d \in Int /\ (fb + fk) + b = atb + d
    <3> HIDE DEF k, fk
    <3> QED
      BY <1>1, <2>5
  <2>7. p = <<d, BitOf(atb + d)>>
    <3>1. p[1] = d /\ p[2] = BitOf((fb + fk) + b) /\ p = <<p[1], p[2]>>
      BY <2>2, <2>3, <2>4, <2>5
    <3> HIDE DEF d, fk
    <3> QED
      BY <2>6, <3>1
  <2>8. d \in 0 .. (to - 1)
    <3>1. p[1] = d
      BY <2>7
    <3> HIDE DEF d
    <3> QED
      BY <1>2, <3>1
  <2> HIDE DEF d
  <2> QED
    BY <2>7, <2>8, Zenon DEF WordOf, atb
<1>5. ASSUME NEW p \in old
      PROVE  p \in new
  <2>1. PICK d \in 0 .. (to - 1) : p = <<d, BitOf(atb + d)>>
    BY Zenon DEF WordOf, atb
  <2> DEFINE x == shift + d  k == x \div from  b == x % from  fk == from * k
  <2>2. x \in Int /\ x < shift + to /\ shift <= x
    OBVIOUS
  <2>3. k \in Int /\ b \in 0 .. (from - 1) /\ x = fk + b
    <3> HIDE DEF x
    <3> QED
      BY <2>2, Division
  <2> HIDE DEF k, b
  <2>4. fk \in Int /\ from * (base + k) = fb + fk
    BY <1>3, <2>3
  <2>5. base + k >= 0
    <3>1. from * (base + k) + from > 0
      <4> HIDE DEF fk
      <4> QED
        BY <1>1, <2>3, <2>4
    <3>2. from * ((base + k) + 1) > 0 /\ base + k \in Int
      BY <2>3, <3>1
    <3> QED
      BY <3>2
  <2>6. (fb + fk) + b = atb + d /\ b + (fk - shift) = d /\ fk < shift + to /\ shift < fk + from
    <3> HIDE DEF fk
    <3> QED
      BY <1>1, <2>3, <2>4
  <2> DEFINE t == <<k, fk - shift>>  q == <<b, BitOf((fb + fk) + b)>>
  <2>7. t \in terms
    BY <2>3, <2>5, <2>6, Zenon DEF TermsRight
  <2>8. t[1] = k /\ t[2] = fk - shift
    BY Zenon
  <2>9. q \in words[k]
    <3>1. words[k] = WordOf(base + k, from)
      <4> HIDE DEF t
      <4> QED
        BY <2>7, <2>8, Zenon DEF TermsRight
    <3> HIDE DEF fk
    <3> QED
      BY <2>3, <2>4, <3>1, Zenon DEF WordOf
  <2>10. p = <<q[1] + t[2], q[2]>>
    <3>1. q[1] = b /\ q[2] = BitOf((fb + fk) + b)
      BY Zenon
    <3> HIDE DEF q, t, fk
    <3> QED
      BY <2>1, <2>6, <2>8, <3>1
  <2>11. p[1] \in 0 .. (to - 1)
    BY <2>1
  <2> HIDE DEF t, q, new
  <2> QED
    BY <1>2, <2>7, <2>8, <2>9, <2>10, <2>11
<1> QED
  BY <1>4, <1>5

FormatIs(wd, many, count, pack, unpack) ==
  /\ Fmt.width = wd /\ PerGroup = many /\ GroupBytes = count
  /\ Fmt.pack = pack /\ Fmt.unpack = unpack

LEMMA Packings ==
  ASSUME format \in Format
  PROVE  \/ FormatIs(3, 8, 3, {Eta2Pack}, {Eta2Unpack})
         \/ FormatIs(4, 2, 1, {Eta4Pack}, {Eta4Unpack})
         \/ FormatIs(10, 4, 5, {T1Pack}, {T1Unpack, T1UnpackIdx})
         \/ FormatIs(13, 8, 13, {T0Pack}, {T0Unpack, T0UnpackIdx})
         \/ format = "z17" /\ FormatIs(18, 4, 9, {Z17Pack}, {Z17Unpack})
         \/ format = "z19" /\ FormatIs(20, 2, 5, {Z19Pack}, {Z19Unpack})
         \/ FormatIs(6, 4, 3, {W16Pack, SolW1Pack}, {})
         \/ FormatIs(4, 2, 1, {W14Pack}, {})
         \/ FormatIs(24, 1, 3, {WPack}, {WUnpack})
<1>1. format \in {"eta2", "eta4", "t1", "t0", "z17", "z19", "w16", "w14", "w"}
  BY FormatAssumption DEF Formats
<1>2. CASE format = "eta2"
  <2>1. Fmt.width = 3 /\ Fmt.pack = {Eta2Pack} /\ Fmt.unpack = {Eta2Unpack}
    BY <1>2 DEF Fmt, Formats
  <2>2. PerGroup = 8
    BY <2>1 DEF PerGroup
  <2>3. GroupBytes = 3
    BY <2>1, <2>2 DEF GroupBytes
  <2> QED
    BY <1>2, <2>1, <2>2, <2>3, Zenon DEF FormatIs
<1>3. CASE format = "eta4"
  <2>1. Fmt.width = 4 /\ Fmt.pack = {Eta4Pack} /\ Fmt.unpack = {Eta4Unpack}
    BY <1>3 DEF Fmt, Formats
  <2>2. PerGroup = 2
    BY <2>1 DEF PerGroup
  <2>3. GroupBytes = 1
    BY <2>1, <2>2 DEF GroupBytes
  <2> QED
    BY <1>3, <2>1, <2>2, <2>3, Zenon DEF FormatIs
<1>4. CASE format = "t1"
  <2>1. Fmt.width = 10 /\ Fmt.pack = {T1Pack} /\ Fmt.unpack = {T1Unpack, T1UnpackIdx}
    BY <1>4 DEF Fmt, Formats
  <2>2. PerGroup = 4
    BY <2>1 DEF PerGroup
  <2>3. GroupBytes = 5
    BY <2>1, <2>2 DEF GroupBytes
  <2> QED
    BY <1>4, <2>1, <2>2, <2>3, Zenon DEF FormatIs
<1>5. CASE format = "t0"
  <2>1. Fmt.width = 13 /\ Fmt.pack = {T0Pack} /\ Fmt.unpack = {T0Unpack, T0UnpackIdx}
    BY <1>5 DEF Fmt, Formats
  <2>2. PerGroup = 8
    BY <2>1 DEF PerGroup
  <2>3. GroupBytes = 13
    BY <2>1, <2>2 DEF GroupBytes
  <2> QED
    BY <1>5, <2>1, <2>2, <2>3, Zenon DEF FormatIs
<1>6. CASE format = "z17"
  <2>1. Fmt.width = 18 /\ Fmt.pack = {Z17Pack} /\ Fmt.unpack = {Z17Unpack}
    BY <1>6 DEF Fmt, Formats
  <2>2. PerGroup = 4
    BY <2>1 DEF PerGroup
  <2>3. GroupBytes = 9
    BY <2>1, <2>2 DEF GroupBytes
  <2> QED
    BY <1>6, <2>1, <2>2, <2>3, Zenon DEF FormatIs
<1>7. CASE format = "z19"
  <2>1. Fmt.width = 20 /\ Fmt.pack = {Z19Pack} /\ Fmt.unpack = {Z19Unpack}
    BY <1>7 DEF Fmt, Formats
  <2>2. PerGroup = 2
    BY <2>1 DEF PerGroup
  <2>3. GroupBytes = 5
    BY <2>1, <2>2 DEF GroupBytes
  <2> QED
    BY <1>7, <2>1, <2>2, <2>3, Zenon DEF FormatIs
<1>8. CASE format = "w16"
  <2>1. Fmt.width = 6 /\ Fmt.pack = {W16Pack, SolW1Pack} /\ Fmt.unpack = {}
    BY <1>8 DEF Fmt, Formats
  <2>2. PerGroup = 4
    BY <2>1 DEF PerGroup
  <2>3. GroupBytes = 3
    BY <2>1, <2>2 DEF GroupBytes
  <2> QED
    BY <1>8, <2>1, <2>2, <2>3, Zenon DEF FormatIs
<1>9. CASE format = "w14"
  <2>1. Fmt.width = 4 /\ Fmt.pack = {W14Pack} /\ Fmt.unpack = {}
    BY <1>9 DEF Fmt, Formats
  <2>2. PerGroup = 2
    BY <2>1 DEF PerGroup
  <2>3. GroupBytes = 1
    BY <2>1, <2>2 DEF GroupBytes
  <2> QED
    BY <1>9, <2>1, <2>2, <2>3, Zenon DEF FormatIs
<1>10. CASE format = "w"
  <2>1. Fmt.width = 24 /\ Fmt.pack = {WPack} /\ Fmt.unpack = {WUnpack}
    BY <1>10 DEF Fmt, Formats
  <2>2. PerGroup = 1
    BY <2>1 DEF PerGroup
  <2>3. GroupBytes = 3
    BY <2>1, <2>2 DEF GroupBytes
  <2> QED
    BY <1>10, <2>1, <2>2, <2>3, Zenon DEF FormatIs
<1> QED
  BY <1>1, <1>2, <1>3, <1>4, <1>5, <1>6, <1>7, <1>8, <1>9, <1>10, Zenon

LEMMA FormatTyped ==
  ASSUME format \in Format
  PROVE  /\ Fmt.width \in Nat \ {0} /\ PerGroup \in Nat \ {0} /\ GroupBytes \in Nat \ {0}
         /\ Fmt.width * PerGroup = 8 * GroupBytes
         /\ \A table \in Fmt.pack : TableRight(table, Fmt.width, 8, PerGroup, GroupBytes)
         /\ \A table \in Fmt.unpack : TableRight(table, 8, Fmt.width, GroupBytes, PerGroup)
<1>1. /\ Fmt.width \in Nat \ {0} /\ PerGroup \in Nat \ {0} /\ GroupBytes \in Nat \ {0}
      /\ Fmt.width * PerGroup = 8 * GroupBytes
  BY Packings DEF FormatIs
<1>2. \A table \in Fmt.pack : TableRight(table, Fmt.width, 8, PerGroup, GroupBytes)
  BY Packings, PackTables, Zenon DEF FormatIs
<1>3. \A table \in Fmt.unpack : TableRight(table, 8, Fmt.width, GroupBytes, PerGroup)
  BY Packings, UnpackTables, Zenon DEF FormatIs
<1> QED
  BY <1>1, <1>2, <1>3

(* A field is a word of the string.                                        *)
LEMMA WholeWords ==
  ASSUME format \in Format
  PROVE  \A n \in Fields : Whole[n] = WordOf(n, Fmt.width)
<1> SUFFICES ASSUME NEW n \in Fields
             PROVE  Whole[n] = WordOf(n, Fmt.width)
  OBVIOUS
<1> DEFINE fw == Fmt.width
<1>1. fw \in Nat \ {0} /\ n \in Int
  BY FormatTyped DEF Fields
<1>2. ASSUME NEW b \in 0 .. (fw - 1)
      PROVE  BitOf(fw * n + b) = <<n, b>>
  <2> DEFINE x == fw * n + b  p == x \div fw  q == x % fw
  <2> HIDE DEF fw
  <2>1. x \in Int
    BY <1>1
  <2>2. p \in Int /\ q \in 0 .. (fw - 1) /\ x = fw * p + q
    <3> HIDE DEF x
    <3> QED
      BY <1>1, <2>1, Division
  <2>3. fw * n + b = fw * p + q
    BY <2>2
  <2> HIDE DEF p, q
  <2>4. n = p /\ b = q
    BY <1>1, <2>2, <2>3, DivisionUnique
  <2> QED
    BY <2>4, Zenon DEF BitOf, p, q, fw
<1>3. Whole[n] = {<<b, <<n, b>>>> : b \in 0 .. (fw - 1)}
  BY DEF Whole, Field
<1>4. WordOf(n, fw) = {<<b, BitOf(fw * n + b)>> : b \in 0 .. (fw - 1)}
  BY Zenon DEF WordOf
<1>5. {<<b, <<n, b>>>> : b \in 0 .. (fw - 1)} = {<<b, BitOf(fw * n + b)>> : b \in 0 .. (fw - 1)}
  <2> HIDE DEF fw
  <2> QED
    BY <1>2
<1> QED
  BY <1>3, <1>4, <1>5, Zenon

(* One word of an unrolled loop, and a sequence of words that is the string. *)
Row(table, src, n, many, count, to) ==
  Truncated(Or(table[(n % count) + 1], [k \in 0 .. (many - 1) |-> src[many * (n \div count) + k]]), to)
InString(src, groups, many, size) == \A x \in 0 .. (groups * many - 1) : src[x] = WordOf(x, size)

LEMMA Unrolled ==
  ASSUME NEW from \in Nat \ {0}, NEW to \in Nat \ {0},
         NEW many \in Nat \ {0}, NEW count \in Nat \ {0}, from * many = to * count,
         NEW table, TableRight(table, from, to, many, count),
         NEW groups \in Nat, NEW src, InString(src, groups, many, from),
         NEW n \in 0 .. (groups * count - 1)
  PROVE  Row(table, src, n, many, count, to) = WordOf(n, to)
<1> DEFINE g == n \div count  m == n % count
           words == [k \in 0 .. (many - 1) |-> src[many * g + k]]
           whole == to * count  tm == to * m
<1>1. g \in Int /\ m \in 0 .. (count - 1) /\ n = count * g + m
  <2>1. n \in Int
    OBVIOUS
  <2> QED
    BY <2>1, Division
<1> HIDE DEF g, m
<1>2. g \in 0 .. (groups - 1)
  <2>1. n \in Nat /\ n < groups * count
    OBVIOUS
  <2>2. count * g < count * groups /\ count * g + count > 0
    BY <1>1, <2>1
  <2>3. count * (groups - g) > 0 /\ count * (g + 1) > 0
    BY <1>1, <2>2
  <2> QED
    BY <1>1, <2>3
<1>3. \A k \in 0 .. (many - 1) : words[k] = WordOf(many * g + k, from)
  <2> SUFFICES ASSUME NEW k \in 0 .. (many - 1)
               PROVE  words[k] = WordOf(many * g + k, from)
    OBVIOUS
  <2>1. many * g + k \in 0 .. (groups * many - 1)
    <3>1. groups * many = many * g + many * (groups - g)
      BY <1>2
    <3>2. many * (groups - g) >= many /\ many * g \in Nat /\ many * (groups - g) \in Nat
      BY <1>2
    <3> QED
      BY <3>1, <3>2
  <2>2. src[many * g + k] = WordOf(many * g + k, from)
    BY <2>1, Zenon DEF InString
  <2> QED
    BY <2>2, Zenon
<1>4. /\ tm \in Nat /\ whole \in Nat /\ tm + to <= whole /\ to * (m + 1) = tm + to
      /\ whole = from * many
  <2>1. tm \in Nat /\ whole \in Nat /\ tm + to <= whole
    BY <1>1, Steps
  <2>2. to * (m + 1) = tm + to
    BY <1>1
  <2> QED
    BY <2>1, <2>2
<1>5. from * (many * g) + tm = to * n /\ many * g \in Nat
  <2>1. from * (many * g) = (from * many) * g
    BY <1>2
  <2>2. to * n = (to * count) * g + tm
    BY <1>1
  <2>3. many * g \in Nat
    BY <1>2
  <2> QED
    BY <2>1, <2>2, <2>3
<1> HIDE DEF words, whole, tm
<1>6. ASSUME NEW t \in table[m + 1]
      PROVE  t[1] \in Int /\ t[2] = from * t[1] - tm /\ words[t[1]] = WordOf(many * g + t[1], from)
  <2>1. t[1] \in 0 .. (many - 1) /\ t[2] = from * t[1] - tm
    BY <1>1, Zenon DEF TableRight, tm
  <2>2. words[t[1]] = WordOf(many * g + t[1], from)
    BY <1>3, <2>1, Zenon
  <2> QED
    BY <2>1, <2>2
<1>7. ASSUME NEW k \in Int, from * k < tm + to, tm < from * k + from
      PROVE  <<k, from * k - tm>> \in table[m + 1]
  <2>1. from * (many - k) > 0 /\ from * (k + 1) > 0 /\ from * (k + 1) = from * k + from
    BY <1>4, <1>7
  <2>2. k \in 0 .. (many - 1)
    BY <2>1
  <2>3. from * k < to * (m + 1) /\ tm < from * (k + 1)
    BY <1>4, <1>7, <2>1
  <2> QED
    BY <1>1, <2>2, <2>3, Zenon DEF TableRight, tm
<1>8. TermsRight(table[m + 1], words, from, many * g, tm, n, to)
  <2> DEFINE base == many * g
  <2>1. \A t \in table[m + 1] : /\ t[1] \in Int /\ t[2] = from * t[1] - tm
                                /\ words[t[1]] = WordOf(base + t[1], from)
    BY <1>6
  <2>2. from * base + tm = to * n
    BY <1>5
  <2> HIDE DEF base
  <2>3. TermsRight(table[m + 1], words, from, base, tm, n, to)
    BY <1>7, <2>1, <2>2 DEF TermsRight
  <2> QED
    BY <2>3 DEF base
<1>9. Truncated(Or(table[m + 1], words), to) = WordOf(n, to)
  <2> DEFINE base == many * g
  <2>1. n \in Nat /\ tm \in Int
    BY <1>4
  <2>2. base \in Nat
    BY <1>5
  <2>3. TermsRight(table[m + 1], words, from, base, tm, n, to)
    BY <1>8
  <2> HIDE DEF base
  <2> QED
    BY <2>1, <2>2, <2>3, GatheredWords
<1> QED
  BY <1>9, Zenon DEF Row, words, m, g

(* The loops over bits: words shifted into one integer, which is shifted   *)
(* down again.                                                             *)
LEMMA ShiftedTogether ==
  ASSUME NEW size \in Nat \ {0}, NEW shift \in Int, NEW K \in SUBSET Int, NEW words,
         \A k \in K : \A q \in words[k] : q[1] \in Int
  PROVE  Shift(UNION {Shift(words[k], size * k) : k \in K}, -shift)
           = Or({<<k, size * k - shift>> : k \in K}, words)
<1> DEFINE joined == UNION {Shift(words[k], size * k) : k \in K}
           terms == {<<k, size * k - shift>> : k \in K}
<1>1. \A p : p \in joined <=> \E k \in K : \E q \in words[k] : p = <<q[1] + size * k, q[2]>>
  <2>1. \A p : p \in joined <=> \E k \in K : p \in Shift(words[k], size * k)
    OBVIOUS
  <2> QED
    BY <2>1, Zenon DEF Shift
<1> HIDE DEF joined
<1>2. \A p : p \in Shift(joined, -shift)
              <=> \E k \in K : \E q \in words[k] : p = <<q[1] + (size * k - shift), q[2]>>
  <2>1. ASSUME NEW k \in K, NEW q \in words[k]
        PROVE  (q[1] + size * k) + (-shift) = q[1] + (size * k - shift)
    <3>1. q[1] \in Int /\ size * k \in Int
      OBVIOUS
    <3> QED
      BY <3>1
  <2>2. \A p : p \in Shift(joined, -shift) <=> \E r \in joined : p = <<r[1] + (-shift), r[2]>>
    BY Zenon DEF Shift
  <2>3. ASSUME NEW p, NEW k \in K, NEW q \in words[k], p = <<q[1] + (size * k - shift), q[2]>>
        PROVE  p \in Shift(joined, -shift)
    <3> DEFINE r == <<q[1] + size * k, q[2]>>
    <3>1. r \in joined
      BY <1>1
    <3>2. r[1] = q[1] + size * k /\ r[2] = q[2]
      BY Zenon
    <3> HIDE DEF r
    <3> QED
      BY <2>1, <2>2, <2>3, <3>1, <3>2, Zenon
  <2>4. ASSUME NEW p, p \in Shift(joined, -shift)
        PROVE  \E k \in K : \E q \in words[k] : p = <<q[1] + (size * k - shift), q[2]>>
    <3>1. PICK r \in joined : p = <<r[1] + (-shift), r[2]>>
      BY <2>2, <2>4
    <3>2. PICK k \in K : \E q \in words[k] : r = <<q[1] + size * k, q[2]>>
      BY <1>1, <3>1
    <3>3. PICK q \in words[k] : r = <<q[1] + size * k, q[2]>>
      BY <3>2
    <3>4. r[1] = q[1] + size * k /\ r[2] = q[2]
      BY <3>3, Zenon
    <3> QED
      BY <2>1, <3>1, <3>4, Zenon
  <2> QED
    BY <2>3, <2>4, Zenon
<1>3. \A p : p \in Or(terms, words)
              <=> \E k \in K : \E q \in words[k] : p = <<q[1] + (size * k - shift), q[2]>>
  <2>1. \A p : p \in Or(terms, words) <=> \E t \in terms : p \in Shift(words[t[1]], t[2])
    BY DEF Or
  <2>2. \A p : p \in Or(terms, words) <=> \E k \in K : p \in Shift(words[k], size * k - shift)
    <3>1. \A t : t \in terms <=> \E k \in K : t = <<k, size * k - shift>>
      OBVIOUS
    <3>2. \A k \in K : <<k, size * k - shift>>[1] = k /\ <<k, size * k - shift>>[2] = size * k - shift
      BY Zenon
    <3> HIDE DEF terms
    <3>3. ASSUME NEW p, NEW k \in K, p \in Shift(words[k], size * k - shift)
          PROVE  p \in Or(terms, words)
      BY <2>1, <3>1, <3>2, <3>3, Zenon
    <3>4. ASSUME NEW p, p \in Or(terms, words)
          PROVE  \E k \in K : p \in Shift(words[k], size * k - shift)
      <4>1. PICK t \in terms : p \in Shift(words[t[1]], t[2])
        BY <2>1, <3>4
      <4>2. PICK k \in K : t = <<k, size * k - shift>>
        BY <3>1
      <4> QED
        BY <3>2, <4>1, <4>2, Zenon
    <3> QED
      BY <3>3, <3>4, Zenon
  <2> QED
    BY <2>2, Zenon DEF Shift
<1>4. \A p : p \in Shift(joined, -shift) <=> p \in Or(terms, words)
  BY <1>2, <1>3, Zenon
<1>5. Shift(joined, -shift) = Or(terms, words)
  <2> HIDE DEF terms
  <2> QED
    BY <1>4
<1> QED
  BY <1>5, Zenon DEF joined

LEMMA WordElements ==
  ASSUME NEW n, NEW size \in Nat
  PROVE  \A q \in WordOf(n, size) : q[1] \in Int
<1> SUFFICES ASSUME NEW q \in WordOf(n, size)
             PROVE  q[1] \in Int
  OBVIOUS
<1>1. PICK b \in 0 .. (size - 1) : q = <<b, BitOf(size * n + b)>>
  BY Zenon DEF WordOf
<1> QED
  BY <1>1

LEMMA ByBits ==
  ASSUME NEW from \in Nat \ {0}, NEW to \in Nat \ {0}, NEW groups \in Nat, NEW many \in Nat, NEW src,
         InString(src, groups, many, from), NEW n \in Nat, to * n + to <= from * (groups * many)
  PROVE  Truncated(Shift(UNION {Shift(src[i], from * i) : i \in 0 .. (groups * many - 1)}, -(to * n)), to)
           = WordOf(n, to)
<1> DEFINE total == groups * many  K == 0 .. (total - 1)  shift == to * n
           terms == {<<k, from * k - shift>> : k \in K}
<1>1. shift \in Int /\ shift + to <= from * total /\ total \in Nat
  OBVIOUS
<1>2. \A k \in K : src[k] = WordOf(k, from)
  BY Zenon DEF InString
<1> HIDE DEF shift, total
<1>3. \A k \in K : \A q \in src[k] : q[1] \in Int
  <2> HIDE DEF K
  <2> QED
    BY <1>2, WordElements
<1>4. Shift(UNION {Shift(src[k], from * k) : k \in K}, -shift) = Or(terms, src)
  <2>1. K \in SUBSET Int
    OBVIOUS
  <2> HIDE DEF K
  <2> QED
    BY <1>1, <1>3, <2>1, ShiftedTogether
<1> DEFINE base == 0
<1>5. TermsRight(terms, src, from, base, shift, n, to)
  <2>1. ASSUME NEW t \in terms
        PROVE  t[1] \in Int /\ t[2] = from * t[1] - shift /\ src[t[1]] = WordOf(base + t[1], from)
    <3>1. PICK k \in K : t = <<k, from * k - shift>>
      OBVIOUS
    <3>2. t[1] = k /\ t[2] = from * k - shift /\ 0 + k = k /\ k \in Int
      BY <3>1
    <3> QED
      BY <1>2, <3>2, Zenon
  <2>2. ASSUME NEW k \in Int, base + k >= 0, from * k < shift + to
        PROVE  <<k, from * k - shift>> \in terms
    <3>1. from * (total - k) > 0
      BY <1>1, <2>2
    <3>2. k \in K
      BY <1>1, <2>2, <3>1
    <3> QED
      BY <3>2
  <2>3. from * base + shift = to * n
    BY <1>1 DEF shift
  <2> HIDE DEF terms, base
  <2> QED
    BY <2>1, <2>2, <2>3 DEF TermsRight
<1>6. Truncated(Or(terms, src), to) = WordOf(n, to)
  <2>1. base \in Nat /\ shift \in Int
    BY <1>1
  <2> HIDE DEF terms, base
  <2> QED
    BY <1>5, <2>1, GatheredWords
<1> QED
  BY <1>4, <1>6, Zenon DEF shift, total

(* What the formats have in common.                                        *)
LEMMA Sizes ==
  ASSUME format \in Format
  PROVE  /\ Groups * PerGroup \in Nat /\ Groups * GroupBytes \in Nat
         /\ Fmt.width * (Groups * PerGroup) = 8 * (Groups * GroupBytes)
         /\ InString(Whole, Groups, PerGroup, Fmt.width)
<1> DEFINE gb == GroupBytes  pg == PerGroup  fw == Fmt.width
<1>1. fw \in Nat \ {0} /\ pg \in Nat \ {0} /\ gb \in Nat \ {0} /\ fw * pg = 8 * gb
  BY FormatTyped, Zenon
<1>2. Groups \in Nat \ {0}
  BY PackingAssumption
<1>3. InString(Whole, Groups, PerGroup, Fmt.width)
  BY WholeWords, Zenon DEF InString, Fields
<1> HIDE DEF gb, pg, fw
<1>4. Groups * pg \in Nat /\ Groups * gb \in Nat /\ fw * (Groups * pg) = 8 * (Groups * gb)
  <2>1. fw * (Groups * pg) = (fw * pg) * Groups /\ 8 * (Groups * gb) = (8 * gb) * Groups
    BY <1>1, <1>2
  <2>2. Groups * pg \in Nat /\ Groups * gb \in Nat
    BY <1>1, <1>2
  <2> QED
    BY <1>1, <2>1, <2>2
<1> QED
  BY <1>3, <1>4 DEF gb, pg, fw

LEMMA PackedByTable ==
  ASSUME format \in Format, NEW table \in Fmt.pack
  PROVE  PackWith(table) = [n \in Bytes |-> WordOf(n, 8)]
<1> DEFINE gb == GroupBytes  pg == PerGroup  fw == Fmt.width
<1>1. /\ fw \in Nat \ {0} /\ pg \in Nat \ {0} /\ gb \in Nat \ {0} /\ fw * pg = 8 * gb
      /\ TableRight(table, fw, 8, pg, gb) /\ InString(Whole, Groups, pg, fw)
  BY FormatTyped, Sizes, Zenon
<1>2. Groups \in Nat /\ 8 \in Nat \ {0}
  BY PackingAssumption
<1>3. ASSUME NEW n \in Bytes
      PROVE  PackWith(table)[n] = WordOf(n, 8)
  <2>1. n \in 0 .. (Groups * gb - 1)
    BY Zenon DEF Bytes
  <2> DEFINE to == 8
  <2>2. to \in Nat \ {0} /\ fw * pg = to * gb /\ TableRight(table, fw, to, pg, gb)
    BY <1>1
  <2> HIDE DEF gb, pg, fw, to
  <2>3. Row(table, Whole, n, pg, gb, to) = WordOf(n, to)
    BY <1>1, <1>2, <2>1, <2>2, Unrolled
  <2> QED
    BY <2>3, Zenon DEF PackWith, Row, gb, pg, to
<1>4. PackWith(table) = [n \in Bytes |-> PackWith(table)[n]]
  BY Zenon DEF PackWith
<1> QED
  BY <1>3, <1>4, Zenon

LEMMA PackedByBits ==
  ASSUME format \in Format
  PROVE  PyPack = [n \in Bytes |-> WordOf(n, 8)]
<1> DEFINE fw == Fmt.width  pg == PerGroup  gb == GroupBytes
           r == UNION {Shift(Whole[i], fw * i) : i \in Fields}
<1>1. fw \in Nat \ {0} /\ pg \in Nat \ {0} /\ InString(Whole, Groups, pg, fw) /\ Groups \in Nat
  BY FormatTyped, Sizes, PackingAssumption
<1>2. Fields = 0 .. (Groups * pg - 1)
  BY Zenon DEF Fields
<1>3. ASSUME NEW n \in Bytes
      PROVE  Truncated(Shift(r, -8 * n), 8) = WordOf(n, 8)
  <2> DEFINE to == 8  count == Groups * gb
  <2>1. n \in 0 .. (count - 1)
    BY Zenon DEF Bytes
  <2>2. fw * (Groups * pg) = 8 * count /\ count \in Nat
    BY Sizes
  <2>3. to \in Nat \ {0} /\ -8 * n = -(to * n)
    OBVIOUS
  <2> HIDE DEF fw, pg, count
  <2>4. n \in Nat /\ to * n + to <= fw * (Groups * pg)
    BY <2>1, <2>2
  <2> HIDE DEF to
  <2>5. Truncated(Shift(UNION {Shift(Whole[i], fw * i) : i \in 0 .. (Groups * pg - 1)}, -(to * n)), to)
          = WordOf(n, to)
    BY <1>1, <2>3, <2>4, ByBits
  <2> QED
    BY <1>2, <2>3, <2>5, Zenon DEF to
<1> QED
  BY <1>3, Zenon DEF PyPack

(* The readers, from the bytes of the string.                              *)
Encoded == bytes = [n \in Bytes |-> WordOf(n, 8)]

LEMMA BytesInString ==
  ASSUME Encoded
  PROVE  InString(bytes, Groups, GroupBytes, 8)
BY Zenon DEF Encoded, InString, Bytes

LEMMA UnpackedByTable ==
  ASSUME format \in Format, Encoded, NEW table \in Fmt.unpack
  PROVE  UnpackWith(table) = Whole
<1> DEFINE gb == GroupBytes  pg == PerGroup  fw == Fmt.width
<1>1. /\ fw \in Nat \ {0} /\ pg \in Nat \ {0} /\ gb \in Nat \ {0} /\ fw * pg = 8 * gb
      /\ TableRight(table, 8, fw, gb, pg) /\ InString(bytes, Groups, gb, 8)
  BY FormatTyped, BytesInString, Zenon
<1>2. Groups \in Nat
  BY PackingAssumption
<1>3. ASSUME NEW n \in Fields
      PROVE  UnpackWith(table)[n] = Whole[n]
  <2>1. n \in 0 .. (Groups * pg - 1)
    BY Zenon DEF Fields
  <2> DEFINE from == 8
  <2>2. /\ from \in Nat \ {0} /\ from * gb = fw * pg /\ TableRight(table, from, fw, gb, pg)
        /\ InString(bytes, Groups, gb, from)
    BY <1>1
  <2> HIDE DEF gb, pg, fw, from
  <2>3. Row(table, bytes, n, gb, pg, fw) = WordOf(n, fw)
    BY <1>1, <1>2, <2>1, <2>2, Unrolled
  <2>4. UnpackWith(table)[n] = WordOf(n, fw)
    BY <2>3, Zenon DEF UnpackWith, Row, gb, pg, fw
  <2> QED
    BY <2>4, WholeWords, Zenon DEF fw
<1>4. UnpackWith(table) = [n \in Fields |-> UnpackWith(table)[n]]
  BY Zenon DEF UnpackWith
<1>5. Whole = [n \in Fields |-> Whole[n]]
  BY Zenon DEF Whole
<1> QED
  BY <1>3, <1>4, <1>5, Zenon

LEMMA UnpackedByBits ==
  ASSUME format \in Format, Encoded
  PROVE  PyUnpack = Whole
<1> DEFINE fw == Fmt.width  pg == PerGroup  gb == GroupBytes
           r == UNION {Shift(bytes[n], 8 * n) : n \in Bytes}
<1>1. fw \in Nat \ {0} /\ gb \in Nat \ {0} /\ InString(bytes, Groups, gb, 8) /\ Groups \in Nat
  BY FormatTyped, BytesInString, PackingAssumption
<1>2. Bytes = 0 .. (Groups * gb - 1)
  BY Zenon DEF Bytes
<1>3. ASSUME NEW i \in Fields
      PROVE  Truncated(Shift(r, -Fmt.width * i), Fmt.width) = Whole[i]
  <2> DEFINE from == 8  count == Groups * pg
  <2>1. i \in 0 .. (count - 1)
    BY Zenon DEF Fields
  <2>2. fw * count = 8 * (Groups * gb) /\ count \in Nat
    BY Sizes
  <2>3. -Fmt.width * i = -(fw * i)
    <3>1. fw \in Int /\ i \in Int
      BY <1>1, <2>1, <2>2
    <3> QED
      BY <3>1
  <2>4. from \in Nat \ {0} /\ gb \in Nat /\ InString(bytes, Groups, gb, from)
    BY <1>1
  <2> HIDE DEF fw, pg, gb, count
  <2>5. i \in Nat /\ fw * i + fw <= from * (Groups * gb)
    <3>1. i < count /\ i \in Nat
      BY <2>1, <2>2
    <3>2. fw * i + fw <= fw * count
      BY <1>1, <2>2, <3>1, Steps
    <3> QED
      BY <2>2, <3>1, <3>2
  <2> HIDE DEF from
  <2>6. Truncated(Shift(UNION {Shift(bytes[k], from * k) : k \in 0 .. (Groups * gb - 1)}, -(fw * i)), fw)
          = WordOf(i, fw)
    BY <1>1, <2>4, <2>5, ByBits
  <2>7. Truncated(Shift(r, -(fw * i)), fw) = WordOf(i, fw)
    BY <1>2, <2>6, Zenon DEF from
  <2> QED
    BY <2>3, <2>7, WholeWords, Zenon DEF fw
<1>4. PyUnpack = [i \in Fields |-> Truncated(Shift(r, -Fmt.width * i), Fmt.width)]
  BY Zenon DEF PyUnpack
<1>5. Whole = [n \in Fields |-> Whole[n]]
  BY Zenon DEF Whole
<1> HIDE DEF r
<1> QED
  BY <1>3, <1>4, <1>5, Zenon

LEMMA UnpackedFromItsBytes ==
  ASSUME format \in Format, Encoded
  PROVE  SolUnpack = Whole
<1> DEFINE fw == Fmt.width  pg == PerGroup  gb == GroupBytes  total == Groups * gb  from == 8
<1>1. /\ fw \in Nat \ {0} /\ Groups * pg \in Nat /\ total \in Nat /\ fw * (Groups * pg) = 8 * total
      /\ from \in Nat \ {0}
  BY FormatTyped, Sizes
<1>2. \A n \in Bytes : bytes[n] = WordOf(n, 8)
  BY Zenon DEF Encoded
<1>3. \A n : n \in Bytes <=> n \in 0 .. (total - 1)
  BY Zenon DEF Bytes
<1>4. ASSUME NEW i \in Fields
      PROVE  SolUnpack[i] = Whole[i]
  <2> DEFINE bit == i * Fmt.width  base == bit \div 8  shift == bit % 8
             needed == {jf \in 0 .. (NeededBytes(shift, Fmt.width) - 1) : base + jf \in Bytes}
             value == UNION {Shift(bytes[base + jf], 8 * jf) : jf \in needed}
             words == [jf \in needed |-> bytes[base + jf]]
             terms == {<<jf, from * jf - shift>> : jf \in needed}
  <2>1. i \in Nat /\ i < Groups * pg
    <3>1. i \in 0 .. (Groups * pg - 1)
      BY Zenon DEF Fields
    <3> HIDE DEF pg
    <3> QED
      BY <1>1, <3>1
  <2>2. bit = fw * i /\ fw * i \in Nat /\ fw * i + fw <= 8 * total
    <3> HIDE DEF pg, total
    <3>1. bit = fw * i
      BY <1>1, <2>1
    <3> HIDE DEF fw, bit
    <3> DEFINE count == Groups * pg
    <3>2. i < count /\ count \in Nat /\ fw * count = 8 * total
      BY <1>1, <2>1
    <3> HIDE DEF count
    <3>3. fw * i + fw <= fw * count /\ fw * i \in Nat
      BY <1>1, <2>1, <3>2, Steps
    <3> QED
      BY <3>1, <3>2, <3>3
  <2>3. base \in Nat /\ shift \in 0 .. 7 /\ 8 * base + shift = fw * i
    <3> DEFINE x == fw * i
    <3>1. bit = x /\ x \in Nat
      BY <2>2
    <3> HIDE DEF bit, x, fw
    <3>2. base \in Nat /\ shift \in 0 .. 7 /\ 8 * base + shift = x
      BY <3>1
    <3> QED
      BY <3>2 DEF x
  <2> HIDE DEF bit, base, shift, total, pg
  <2>4. \A jf \in needed : jf \in Int /\ words[jf] = WordOf(base + jf, from) /\ words[jf] = bytes[base + jf]
    <3> SUFFICES ASSUME NEW jf \in needed
                 PROVE  jf \in Int /\ words[jf] = WordOf(base + jf, from) /\ words[jf] = bytes[base + jf]
      OBVIOUS
    <3>1. jf \in Int /\ base + jf \in Bytes
      <4> HIDE DEF fw
      <4>1. NeededBytes(shift, fw) \in Int
        BY <1>1, <2>3 DEF NeededBytes
      <4> QED
        BY <4>1 DEF fw
    <3>2. words[jf] = bytes[base + jf]
      BY Zenon
    <3>3. bytes[base + jf] = WordOf(base + jf, from)
      BY <1>2, <3>1
    <3> QED
      BY <3>1, <3>2, <3>3
  <2>5. value = UNION {Shift(words[jf], from * jf) : jf \in needed}
    <3> HIDE DEF needed, words
    <3> QED
      BY <2>4
  <2>6. \A jf \in needed : \A q \in words[jf] : q[1] \in Int
    <3> HIDE DEF needed, words
    <3> QED
      BY <1>1, <2>4, WordElements
  <2>7. Shift(UNION {Shift(words[jf], from * jf) : jf \in needed}, -shift) = Or(terms, words)
    <3>1. needed \in SUBSET Int /\ shift \in Int
      <4> HIDE DEF needed
      <4> QED
        BY <2>3, <2>4
    <3> HIDE DEF needed, words, from
    <3> QED
      BY <1>1, <2>6, <3>1, ShiftedTogether
  <2>8. ASSUME NEW t \in terms
        PROVE  t[1] \in Int /\ t[2] = from * t[1] - shift /\ words[t[1]] = WordOf(base + t[1], from)
    <3> HIDE DEF needed, words
    <3>1. PICK jf \in needed : t = <<jf, from * jf - shift>>
      OBVIOUS
    <3>2. t[1] = jf /\ t[2] = from * jf - shift
      BY <3>1
    <3> QED
      BY <2>4, <3>2, Zenon
  <2>9. ASSUME NEW k \in Int, base + k >= 0, from * k < shift + fw, shift < from * k + from
        PROVE  <<k, from * k - shift>> \in terms
    <3> HIDE DEF fw
    <3>1. k >= 0 /\ k + 1 <= NeededBytes(shift, fw) /\ NeededBytes(shift, fw) \in Int
      BY <1>1, <2>3, <2>9 DEF NeededBytes
    <3>2. base + k < total
      <4> DEFINE x == fw * i
      <4>1. x + fw <= 8 * total /\ 8 * base + shift = x /\ x \in Int
        BY <2>2, <2>3
      <4> HIDE DEF x
      <4> QED
        BY <1>1, <2>3, <2>9, <4>1
    <3>3. base + k \in Bytes
      BY <1>1, <1>3, <2>3, <3>1, <3>2
    <3>4. k \in needed
      BY <3>1, <3>3 DEF fw
    <3> HIDE DEF needed
    <3> QED
      BY <3>4
  <2>10. TermsRight(terms, words, from, base, shift, i, fw)
    <3>1. from * base + shift = fw * i
      BY <2>3
    <3> HIDE DEF terms, words, from, fw
    <3> QED
      BY <2>8, <2>9, <3>1 DEF TermsRight
  <2>11. Truncated(Or(terms, words), fw) = WordOf(i, fw)
    <3>1. base \in Nat /\ shift \in Int /\ i \in Nat
      BY <2>1, <2>3
    <3> HIDE DEF terms, words, from, fw
    <3> QED
      BY <1>1, <2>10, <3>1, GatheredWords
  <2>12. SolUnpack[i] = Truncated(Shift(value, -shift), fw)
    BY Zenon DEF SolUnpack, bit, base, shift
  <2> HIDE DEF value, words, terms
  <2>13. SolUnpack[i] = WordOf(i, fw)
    BY <2>5, <2>7, <2>11, <2>12, Zenon
  <2> QED
    BY <2>13, WholeWords, Zenon DEF fw
<1>5. SolUnpack = [i \in Fields |-> SolUnpack[i]]
  BY Zenon DEF SolUnpack
<1>6. Whole = [i \in Fields |-> Whole[i]]
  BY Zenon DEF Whole
<1> QED
  BY <1>4, <1>5, <1>6, Zenon
-----------------------------------------------------------------------------
(* The values of a coefficient.                                            *)

RangeRight ==
  /\ Fmt.low \in Int /\ Fmt.high \in Int /\ Fmt.offset \in Nat /\ 2^Fmt.width \in Int
  /\ Fmt.offset = 0 => 0 <= Fmt.low /\ Fmt.high < 2^Fmt.width
  /\ Fmt.offset # 0 => Fmt.high <= Fmt.offset /\ Fmt.offset - Fmt.low < 2^Fmt.width
  /\ format \in {"z17", "z19"} => /\ Fmt.offset # 0 /\ Fmt.offset < QMod
                                  /\ Fmt.offset - Fmt.low < QMod

LEMMA FormatRanges ==
  ASSUME format \in Format
  PROVE  RangeRight
<1>1. format \in {"eta2", "eta4", "t1", "t0", "z17", "z19", "w16", "w14", "w"}
  BY FormatAssumption DEF Formats
<1>2. CASE format = "eta2"
  <2>1. Fmt.width = 3 /\ Fmt.offset = 2 /\ Fmt.low = -2 /\ Fmt.high = 2 /\ 2^3 = 8
    BY <1>2, SMT DEF Fmt, Formats
  <2> QED
    BY <1>2, <2>1, SMT DEF RangeRight, QMod
<1>3. CASE format = "eta4"
  <2>1. Fmt.width = 4 /\ Fmt.offset = 4 /\ Fmt.low = -4 /\ Fmt.high = 4 /\ 2^4 = 16
    BY <1>3, SMT DEF Fmt, Formats
  <2> QED
    BY <1>3, <2>1, SMT DEF RangeRight, QMod
<1>4. CASE format = "t1"
  <2>1. Fmt.width = 10 /\ Fmt.offset = 0 /\ Fmt.low = 0 /\ Fmt.high = 1023 /\ 2^10 = 1024
    BY <1>4, SMT DEF Fmt, Formats
  <2> QED
    BY <1>4, <2>1, SMT DEF RangeRight, QMod
<1>5. CASE format = "t0"
  <2>1. Fmt.width = 13 /\ Fmt.offset = 4096 /\ Fmt.low = -4095 /\ Fmt.high = 4096 /\ 2^13 = 8192
    BY <1>5, SMT DEF Fmt, Formats
  <2> QED
    BY <1>5, <2>1, SMT DEF RangeRight, QMod
<1>6. CASE format = "z17"
  <2>1. Fmt.width = 18 /\ Fmt.offset = 131072 /\ Fmt.low = -131071 /\ Fmt.high = 131072 /\ 2^18 = 262144
    BY <1>6, SMT DEF Fmt, Formats
  <2> QED
    BY <1>6, <2>1, SMT DEF RangeRight, QMod
<1>7. CASE format = "z19"
  <2>1. Fmt.width = 20 /\ Fmt.offset = 524288 /\ Fmt.low = -524287 /\ Fmt.high = 524288 /\ 2^20 = 1048576
    BY <1>7, SMT DEF Fmt, Formats
  <2> QED
    BY <1>7, <2>1, SMT DEF RangeRight, QMod
<1>8. CASE format = "w16"
  <2>1. Fmt.width = 6 /\ Fmt.offset = 0 /\ Fmt.low = 0 /\ Fmt.high = 43 /\ 2^6 = 64
    BY <1>8, SMT DEF Fmt, Formats
  <2> QED
    BY <1>8, <2>1, SMT DEF RangeRight, QMod
<1>9. CASE format = "w14"
  <2>1. Fmt.width = 4 /\ Fmt.offset = 0 /\ Fmt.low = 0 /\ Fmt.high = 15 /\ 2^4 = 16
    BY <1>9, SMT DEF Fmt, Formats
  <2> QED
    BY <1>9, <2>1, SMT DEF RangeRight, QMod
<1>10. CASE format = "w"
  <2>1. Fmt.width = 24 /\ Fmt.offset = 0 /\ Fmt.low = 0 /\ Fmt.high = 8380416 /\ 2^24 = 16777216
    BY <1>10, SMT DEF Fmt, Formats
  <2> QED
    BY <1>10, <2>1, SMT DEF RangeRight, QMod
<1> QED
  BY <1>1, <1>2, <1>3, <1>4, <1>5, <1>6, <1>7, <1>8, <1>9, <1>10, Zenon

LEMMA Values ==
  ASSUME format \in Format, NEW c \in Fmt.low .. Fmt.high
  PROVE  /\ c \in Int /\ Stored(c) \in 0 .. (2^Fmt.width - 1) /\ Restored(Stored(c)) = c
         /\ format \in {"z17", "z19"} => SolRestored(Stored(c)) % QMod = c % QMod
<1> DEFINE o == Fmt.offset  p == 2^Fmt.width  low == Fmt.low  high == Fmt.high
<1>1. /\ low \in Int /\ high \in Int /\ o \in Nat /\ p \in Int
      /\ o = 0 => 0 <= low /\ high < p
      /\ o # 0 => high <= o /\ o - low < p
      /\ format \in {"z17", "z19"} => o # 0 /\ o < QMod /\ o - low < QMod
  BY FormatRanges, Zenon DEF RangeRight
<1>2. c \in low .. high
  OBVIOUS
<1>3. Stored(c) = IF o = 0 THEN c ELSE o - c
  BY Zenon DEF Stored
<1>4. \A s : Restored(s) = IF o = 0 THEN s ELSE o - s
  BY Zenon DEF Restored
<1>5. \A s : SolRestored(s) = IF s < o THEN o - s ELSE QMod + o - s
  BY Zenon DEF SolRestored
<1> HIDE DEF o, p, low, high
<1>6. c \in Int /\ low <= c /\ c <= high
  BY <1>1, <1>2
<1>7. Stored(c) \in 0 .. (p - 1) /\ Restored(Stored(c)) = c
  BY <1>1, <1>3, <1>4, <1>6
<1>8. ASSUME format \in {"z17", "z19"}
      PROVE  SolRestored(Stored(c)) % QMod = c % QMod
  <2>1. Stored(c) = o - c /\ o # 0
    BY <1>1, <1>3, <1>8
  <2>2. QMod \in Nat \ {0}
    BY SMT DEF QMod
  <2>3. SolRestored(Stored(c)) = c \/ SolRestored(Stored(c)) = QMod + c
    BY <1>1, <1>5, <1>6, <2>1, <2>2
  <2>4. (QMod + c) % QMod = c % QMod
    <3>1. \A m \in Nat \ {0} : (m + c) % m = c % m
      <4> SUFFICES ASSUME NEW m \in Nat \ {0}
                   PROVE  (m + c) % m = c % m
        OBVIOUS
      <4> DEFINE x == m + c
      <4>1. x \in Int /\ c \in Int
        BY <1>6
      <4> DEFINE p1 == x \div m  r1 == x % m  p2 == c \div m  r2 == c % m
      <4> HIDE DEF x
      <4>2. /\ p1 \in Int /\ r1 \in 0 .. (m - 1) /\ x = m * p1 + r1
            /\ p2 \in Int /\ r2 \in 0 .. (m - 1) /\ c = m * p2 + r2
        BY <4>1, Division
      <4> HIDE DEF p1, r1, p2, r2
      <4> DEFINE p3 == p2 + 1
      <4>3. m * p1 + r1 = m * p3 + r2 /\ p3 \in Int
        BY <4>2 DEF x
      <4> HIDE DEF p3
      <4>4. r1 = r2
        BY <4>2, <4>3, DivisionUnique
      <4> QED
        BY <4>4, Zenon DEF x, r1, r2
    <3> QED
      BY <2>2, <3>1, Zenon
  <2> QED
    BY <2>3, <2>4
<1> QED
  BY <1>6, <1>7, <1>8 DEF p
-----------------------------------------------------------------------------
(* The packings, as a specification of their own.                          *)

PackingInv ==
  /\ format \in Format /\ coeff \in Fmt.low .. Fmt.high
  /\ stage # "coeffs" => Encoded
  /\ stage = "bytes" => stored = Stored(coeff)
  /\ stage = "read" => fields = Whole /\ stored = coeff

LEMMA SameFormat ==
  ASSUME UNCHANGED format
  PROVE  /\ Fmt' = Fmt /\ Whole' = Whole
         /\ bytes' = [n \in Bytes |-> WordOf(n, 8)] => Encoded'
<1>1. Fmt' = Fmt
  BY Zenon DEF Fmt
<1>2. PerGroup' = PerGroup
  BY <1>1, Zenon DEF PerGroup
<1>3. GroupBytes' = GroupBytes
  BY <1>1, <1>2, Zenon DEF GroupBytes
<1>4. Whole' = Whole
  BY <1>1, <1>2, Zenon DEF Whole, Fields
<1>5. Bytes' = Bytes
  BY <1>3, Zenon DEF Bytes
<1>6. \A n, size : WordOf(n, size)' = WordOf(n, size)
  BY <1>1, Zenon DEF WordOf, BitOf
<1>7. bytes' = [n \in Bytes |-> WordOf(n, 8)] => Encoded'
  BY <1>5, <1>6, Zenon DEF Encoded
<1> QED
  BY <1>1, <1>4, <1>7

(* From the packing to the reading the bytes are those of the bit string of *)
(* the fields, whichever implementation packed and whichever reads.        *)
THEOREM PackingInvariant == PackingSpec => []PackingInv
<1>1. PackingInit => PackingInv
  <2> SUFFICES ASSUME PackingInit
               PROVE  PackingInv
    OBVIOUS
  <2>1. format \in Format /\ coeff \in Value(format) /\ stage = "coeffs"
    BY DEF PackingInit
  <2>2. coeff \in Fmt.low .. Fmt.high
    BY <2>1, FormatAssumption, Zenon DEF Fmt
  <2> QED
    BY <2>1, <2>2 DEF PackingInv
<1>2. PackingInv /\ [PackingNext]_packingVars => PackingInv'
  <2> SUFFICES ASSUME PackingInv, [PackingNext]_packingVars
               PROVE  PackingInv'
    OBVIOUS
  <2>1. UNCHANGED <<format, coeff>>
    BY DEF PackingNext, Pack, Unpack, FillBuffer, InPlaceTerm, Subtract, packingVars
  <2>2. Fmt' = Fmt /\ Whole' = Whole /\ (bytes' = [n \in Bytes |-> WordOf(n, 8)] => Encoded')
    BY <2>1, SameFormat
  <2>3. format' \in Format /\ coeff' \in Fmt'.low .. Fmt'.high
    BY <2>1, <2>2, Zenon DEF PackingInv
  <2>4. bytes' = bytes /\ Encoded => Encoded'
    BY <2>2, Zenon DEF Encoded
  <2>5. CASE Pack
    <3>1. bytes' \in {PackWith(table) : table \in Fmt.pack} \cup {PyPack}
      BY <2>5, Zenon DEF Pack
    <3>2. bytes' = [n \in Bytes |-> WordOf(n, 8)]
      BY <3>1, PackedByTable, PackedByBits, Zenon DEF PackingInv
    <3>3. stored' = Stored(coeff) /\ stage' = "bytes"
      BY <2>5, Zenon DEF Pack
    <3>4. Stored(coeff)' = Stored(coeff)
      BY <2>1, <2>2, Zenon DEF Stored
    <3> QED
      BY <2>2, <2>3, <3>2, <3>3, <3>4 DEF PackingInv
  <2>6. CASE Unpack
    <3>1. /\ stage = "bytes" /\ stage' = "read" /\ bytes' = bytes /\ stored' = Restored(stored)
          /\ fields' \in {UnpackWith(table) : table \in Fmt.unpack} \cup {PyUnpack, SolUnpack}
      BY <2>6, Zenon DEF Unpack
    <3>2. Encoded /\ stored = Stored(coeff) /\ format \in Format /\ coeff \in Fmt.low .. Fmt.high
      BY <3>1 DEF PackingInv
    <3>3. fields' = Whole
      <4>1. PyUnpack = Whole
        BY <3>2, UnpackedByBits
      <4>2. SolUnpack = Whole
        BY <3>2, UnpackedFromItsBytes
      <4>3. \A table \in Fmt.unpack : UnpackWith(table) = Whole
        BY <3>2, UnpackedByTable
      <4> QED
        BY <3>1, <4>1, <4>2, <4>3, Zenon
    <3>4. stored' = coeff
      BY <3>1, <3>2, Values
    <3> QED
      BY <2>1, <2>2, <2>3, <2>4, <3>1, <3>2, <3>3, <3>4 DEF PackingInv
  <2>7. CASE FillBuffer
    <3>1. stage = "bytes" /\ stage' = "inplace" /\ bytes' = bytes
      BY <2>7, Zenon DEF FillBuffer
    <3> QED
      BY <2>3, <2>4, <3>1 DEF PackingInv
  <2>8. CASE InPlaceTerm
    <3>1. stage = "inplace" /\ stage' = stage /\ bytes' = bytes
      BY <2>8, Zenon DEF InPlaceTerm
    <3> QED
      BY <2>3, <2>4, <3>1 DEF PackingInv
  <2>9. CASE Subtract
    <3>1. stage = "inplace" /\ stage' \in {"stored", "inplace"} /\ bytes' = bytes
      BY <2>9 DEF Subtract
    <3> QED
      BY <2>3, <2>4, <3>1 DEF PackingInv
  <2>10. CASE UNCHANGED packingVars
    <3>1. stage' = stage /\ bytes' = bytes /\ stored' = stored /\ fields' = fields
      BY <2>10, Zenon DEF packingVars
    <3>2. Stored(coeff)' = Stored(coeff)
      BY <2>1, <2>2, Zenon DEF Stored
    <3> QED
      BY <2>1, <2>2, <2>3, <2>4, <3>1, <3>2 DEF PackingInv
  <2> QED
    BY <2>5, <2>6, <2>7, <2>8, <2>9, <2>10, Zenon DEF PackingNext
<1> QED
  BY <1>1, <1>2, PTL DEF PackingSpec

(* All writers of every format -- the loops of poly.c and of lowram.c, the *)
(* contract, Python -- give the same bytes, for every number of groups.    *)
THEOREM BytesCorrect == PackingSpec => []BytesInOrder
<1>1. PackingInv => BytesInOrder
  <2> SUFFICES ASSUME PackingInv, stage # "coeffs"
               PROVE  bytes = [n \in Bytes |->
                        {<<b, <<(8 * n + b) \div Fmt.width, (8 * n + b) % Fmt.width>>>> : b \in 0..7}]
    BY DEF BytesInOrder
  <2>1. bytes = [n \in Bytes |-> WordOf(n, 8)]
    BY Zenon DEF PackingInv, Encoded
  <2>2. 0 .. 7 = 0 .. (8 - 1)
    OBVIOUS
  <2> QED
    BY <2>1, <2>2, Zenon DEF WordOf, BitOf
<1> QED
  BY <1>1, PackingInvariant, PTL

(* All readers get the fields back, and every coefficient of its range     *)
(* fits its field and survives.                                            *)
THEOREM RoundTripCorrect == PackingSpec => []RoundTrip
<1>1. PackingInv => RoundTrip
  <2> SUFFICES ASSUME PackingInv
               PROVE  RoundTrip
    OBVIOUS
  <2>1. format \in Format /\ coeff \in Fmt.low .. Fmt.high
    BY DEF PackingInv
  <2>2. CASE stage = "bytes"
    <3>1. stored = Stored(coeff)
      BY <2>2 DEF PackingInv
    <3>2. /\ stored \in 0 .. (2^Fmt.width - 1)
          /\ format \in {"z17", "z19"} => SolRestored(stored) % QMod = coeff % QMod
      BY <2>1, <3>1, Values
    <3> QED
      BY <2>2, <3>2 DEF RoundTrip
  <2>3. CASE stage = "read"
    BY <2>3 DEF PackingInv, RoundTrip
  <2> QED
    BY <2>2, <2>3 DEF RoundTrip
<1> QED
  BY <1>1, PackingInvariant, PTL

-----------------------------------------------------------------------------
(* polyz_unpack_inplace.                                                   *)

To(r) == Program[r].to
Term(r, t) == Program[r].terms[t]
FirstTerms(r, t) == {Term(r, i) : i \in 1 .. t}

(* A row reads what a row of the table of poly.c reads, and no row writes  *)
(* over a byte of its group that a later term reads.                       *)
ProgramOf(rows, many, count) ==
  /\ rows \in Nat \ {0} /\ count <= 4 * many
  /\ \A r \in 1 .. rows :
       /\ To(r) \in 0 .. (many - 1) /\ Program[r].local \in BOOLEAN
       /\ Len(Program[r].terms) = 3
       /\ \A t \in 1 .. 3 : Term(r, t)[1] \in 0 .. (count - 1)
       /\ \E table \in Fmt.unpack : FirstTerms(r, 3) = table[To(r) + 1]
       /\ \A r2 \in 1 .. rows : To(r2) = To(r) => r2 = r
  /\ \A i \in 0 .. (many - 1) : \E r \in 1 .. rows : To(r) = i
  /\ \A g \in Nat : \A r, r2 \in 1 .. rows : \A t, t2 \in 1 .. 3 :
       ~Program[r].local /\ (r2 > r \/ (r2 = r /\ t2 > t))
         => (count * g + Term(r2, t2)[1]) \div 4 # many * g + To(r)

ProgramRight == Fmt.width \in 1 .. 32 /\ ProgramOf(Len(Program), PerGroup, GroupBytes)

LEMMA Program17 ==
  ASSUME "z17" \in Format, format = "z17"
  PROVE  ProgramRight
<1>1. PerGroup = 4 /\ GroupBytes = 9 /\ Fmt.width = 18 /\ Fmt.unpack = {Z17Unpack}
  <2>1. Fmt.width = 18 /\ Fmt.unpack = {Z17Unpack}
    BY SMT DEF Fmt, Formats
  <2>2. PerGroup = 4
    BY <2>1 DEF PerGroup
  <2> QED
    BY <2>1, <2>2 DEF GroupBytes
<1>2. Program = Z17InPlace
  BY DEF Program
<1>3. Len(Program) = 4
  BY <1>2 DEF Z17InPlace
<1>4. /\ To(1) = 3 /\ To(2) = 2 /\ To(3) = 1 /\ To(4) = 0
      /\ Program[1].local = FALSE /\ Program[2].local = FALSE /\ Program[3].local = FALSE
      /\ Program[4].local = TRUE
  BY <1>2 DEF To, Z17InPlace
<1>5. \A r \in 1 .. 4 : Len(Program[r].terms) = 3
  BY <1>2 DEF Z17InPlace
<1>6. /\ Term(1, 1) = <<6, -6>> /\ Term(1, 2) = <<7, 2>> /\ Term(1, 3) = <<8, 10>>
      /\ Term(2, 1) = <<4, -4>> /\ Term(2, 2) = <<5, 4>> /\ Term(2, 3) = <<6, 12>>
      /\ Term(3, 1) = <<4, 14>> /\ Term(3, 2) = <<2, -2>> /\ Term(3, 3) = <<3, 6>>
      /\ Term(4, 1) = <<0, 0>> /\ Term(4, 2) = <<1, 8>> /\ Term(4, 3) = <<2, 16>>
  BY <1>2 DEF Term, Z17InPlace
<1>7. \A r \in 1 .. 4 : FirstTerms(r, 3) = {Term(r, 1), Term(r, 2), Term(r, 3)}
  BY DEF FirstTerms
<1>8. \A r \in 1 .. 4 : FirstTerms(r, 3) = Z17Unpack[To(r) + 1]
  <2>1. FirstTerms(1, 3) = Z17Unpack[4]
    BY <1>6, <1>7 DEF Z17Unpack
  <2>2. FirstTerms(2, 3) = Z17Unpack[3]
    BY <1>6, <1>7 DEF Z17Unpack
  <2>3. FirstTerms(3, 3) = Z17Unpack[2]
    BY <1>6, <1>7 DEF Z17Unpack
  <2>4. FirstTerms(4, 3) = Z17Unpack[1]
    BY <1>6, <1>7 DEF Z17Unpack
  <2> QED
    BY <1>4, <2>1, <2>2, <2>3, <2>4
<1>9. ASSUME NEW r \in 1 .. 4
      PROVE  /\ To(r) \in 0 .. 3 /\ Program[r].local \in BOOLEAN
             /\ \A t \in 1 .. 3 : Term(r, t)[1] \in 0 .. 8
             /\ \A r2 \in 1 .. 4 : To(r2) = To(r) => r2 = r
  <2>1. To(r) \in 0 .. 3 /\ \A r2 \in 1 .. 4 : To(r2) = To(r) => r2 = r
    BY <1>4
  <2>2. \A t \in 1 .. 3 : Term(r, t)[1] \in 0 .. 8
    BY <1>6
  <2>3. r = 1 \/ r = 2 \/ r = 3 \/ r = 4
    OBVIOUS
  <2>4. Program[r].local \in BOOLEAN
    BY <1>4, <2>3, Zenon
  <2> QED
    BY <2>1, <2>2, <2>4, Zenon
<1>10. \A i \in 0 .. 3 : \E r \in 1 .. 4 : To(r) = i
  BY <1>4
<1>11. ASSUME NEW g \in Nat, NEW r \in 1 .. 4, NEW r2 \in 1 .. 4, NEW t \in 1 .. 3, NEW t2 \in 1 .. 3,
              ~Program[r].local, r2 > r \/ (r2 = r /\ t2 > t)
       PROVE  (9 * g + Term(r2, t2)[1]) \div 4 # 4 * g + To(r)
  <2>1. r \in 1 .. 3
    BY <1>4, <1>11
  <2>2. \/ g >= 1 /\ To(r) >= 1
        \/ g = 0
    BY <1>4, <2>1
  <2>3. CASE g >= 1
    <3>1. Term(r2, t2)[1] \in 0 .. 8 /\ To(r) \in 1 .. 3
      BY <1>4, <1>9, <2>1
    <3> QED
      BY <2>3, <3>1
  <2>4. CASE g = 0
    <3>1. Term(r2, t2)[1] \div 4 # To(r)
      <4>1. CASE r = 1
        BY <1>4, <1>6, <1>11, <4>1
      <4>2. CASE r = 2
        BY <1>4, <1>6, <1>11, <4>2
      <4>3. CASE r = 3
        BY <1>4, <1>6, <1>11, <4>3
      <4> QED
        BY <2>1, <4>1, <4>2, <4>3
    <3>2. Term(r2, t2)[1] \in Int /\ To(r) \in Int
      BY <1>9
    <3> QED
      BY <2>4, <3>1, <3>2
  <2> QED
    BY <2>3, <2>4
<1>12. ProgramOf(4, 4, 9)
  BY <1>1, <1>5, <1>8, <1>9, <1>10, <1>11 DEF ProgramOf
<1> QED
  BY <1>1, <1>3, <1>12 DEF ProgramRight

LEMMA Program19 ==
  ASSUME "z19" \in Format, format = "z19"
  PROVE  ProgramRight
<1>1. PerGroup = 2 /\ GroupBytes = 5 /\ Fmt.width = 20 /\ Fmt.unpack = {Z19Unpack}
  <2>1. Fmt.width = 20 /\ Fmt.unpack = {Z19Unpack}
    BY SMT DEF Fmt, Formats
  <2>2. PerGroup = 2
    BY <2>1 DEF PerGroup
  <2> QED
    BY <2>1, <2>2 DEF GroupBytes
<1>2. Program = Z19InPlace
  BY DEF Program
<1>3. Len(Program) = 2
  BY <1>2 DEF Z19InPlace
<1>4. To(1) = 1 /\ To(2) = 0 /\ Program[1].local = TRUE /\ Program[2].local = TRUE
  BY <1>2 DEF To, Z19InPlace
<1>5. \A r \in 1 .. 2 : Len(Program[r].terms) = 3
  BY <1>2 DEF Z19InPlace
<1>6. /\ Term(1, 1) = <<2, -4>> /\ Term(1, 2) = <<3, 4>> /\ Term(1, 3) = <<4, 12>>
      /\ Term(2, 1) = <<0, 0>> /\ Term(2, 2) = <<1, 8>> /\ Term(2, 3) = <<2, 16>>
  BY <1>2 DEF Term, Z19InPlace
<1>7. \A r \in 1 .. 2 : FirstTerms(r, 3) = {Term(r, 1), Term(r, 2), Term(r, 3)}
  BY DEF FirstTerms
<1>8. \A r \in 1 .. 2 : FirstTerms(r, 3) = Z19Unpack[To(r) + 1]
  <2>1. FirstTerms(1, 3) = Z19Unpack[2]
    BY <1>6, <1>7 DEF Z19Unpack
  <2>2. FirstTerms(2, 3) = Z19Unpack[1]
    BY <1>6, <1>7 DEF Z19Unpack
  <2> QED
    BY <1>4, <2>1, <2>2
<1>9. ASSUME NEW r \in 1 .. 2
      PROVE  /\ To(r) \in 0 .. 1 /\ Program[r].local /\ Program[r].local \in BOOLEAN
             /\ \A t \in 1 .. 3 : Term(r, t)[1] \in 0 .. 4
             /\ \A r2 \in 1 .. 2 : To(r2) = To(r) => r2 = r
  <2>1. To(r) \in 0 .. 1 /\ \A r2 \in 1 .. 2 : To(r2) = To(r) => r2 = r
    BY <1>4
  <2>2. \A t \in 1 .. 3 : Term(r, t)[1] \in 0 .. 4
    BY <1>6
  <2>3. r = 1 \/ r = 2
    OBVIOUS
  <2>4. Program[r].local /\ Program[r].local \in BOOLEAN
    BY <1>4, <2>3, Zenon
  <2> QED
    BY <2>1, <2>2, <2>4, Zenon
<1>10. \A i \in 0 .. 1 : \E r \in 1 .. 2 : To(r) = i
  BY <1>4
<1>11. ProgramOf(2, 2, 5)
  BY <1>1, <1>5, <1>8, <1>9, <1>10 DEF ProgramOf
<1> QED
  BY <1>1, <1>3, <1>11 DEF ProgramRight

LEMMA ProgramIsRight ==
  ASSUME format \in Format, format \in {"z17", "z19"}
  PROVE  ProgramRight
BY Program17, Program19
(* The 32 bits of an element of the array.                                 *)
IsInt32(word) == \A p \in word : p[1] \in 0 .. 31 /\ p = <<p[1], p[2]>>
HasInt32(m, i, word) == \A b \in 0 .. 3 : m[4 * i + b] = Truncated(Shift(word, -8 * b), 8)

LEMMA LoadWord ==
  ASSUME NEW m, NEW i, NEW word, IsInt32(word), HasInt32(m, i, word)
  PROVE  Load(m, i) = word
<1>1. \A p : p \in Load(m, i) <=> \E b \in 0 .. 3 : p \in Shift(m[4 * i + b], 8 * b)
  BY DEF Load
<1>2. ASSUME NEW p \in Load(m, i)
      PROVE  p \in word
  <2>1. PICK b \in 0 .. 3 : p \in Shift(m[4 * i + b], 8 * b)
    BY <1>1
  <2>2. PICK q \in m[4 * i + b] : p = <<q[1] + 8 * b, q[2]>>
    BY <2>1, Zenon DEF Shift
  <2>3. q \in Truncated(Shift(word, -8 * b), 8)
    BY <2>2, Zenon DEF HasInt32
  <2>4. q \in Shift(word, -8 * b)
    BY <2>3, Zenon DEF Truncated
  <2>5. PICK s \in word : q = <<s[1] + (-8 * b), s[2]>>
    BY <2>4, Zenon DEF Shift
  <2>6. s[1] \in Int /\ s = <<s[1], s[2]>>
    BY DEF IsInt32
  <2>7. q[1] = s[1] + (-8 * b) /\ q[2] = s[2]
    BY <2>5, Zenon
  <2>8. q[1] + 8 * b = s[1]
    BY <2>6, <2>7
  <2>9. p = s
    BY <2>2, <2>6, <2>7, <2>8, Zenon
  <2> QED
    BY <2>9
<1>3. ASSUME NEW p \in word
      PROVE  p \in Load(m, i)
  <2> DEFINE b == p[1] \div 8  q == <<p[1] + (-8 * b), p[2]>>
  <2>1. p[1] \in 0 .. 31 /\ p = <<p[1], p[2]>>
    BY DEF IsInt32
  <2>2. b \in 0 .. 3 /\ p[1] + (-8 * b) \in 0 .. (8 - 1) /\ (p[1] + (-8 * b)) + 8 * b = p[1]
    BY <2>1
  <2> HIDE DEF b
  <2>3. q \in Shift(word, -8 * b)
    BY Zenon DEF Shift
  <2>4. q[1] = p[1] + (-8 * b) /\ q[2] = p[2]
    BY Zenon
  <2> HIDE DEF q
  <2>5. q \in Truncated(Shift(word, -8 * b), 8)
    BY <2>2, <2>3, <2>4, Zenon DEF Truncated
  <2>6. q \in m[4 * i + b]
    BY <2>2, <2>5, Zenon DEF HasInt32
  <2>7. p = <<q[1] + 8 * b, q[2]>>
    BY <2>1, <2>2, <2>4, Zenon
  <2>8. p \in Shift(m[4 * i + b], 8 * b)
    BY <2>6, <2>7, Zenon DEF Shift
  <2> QED
    BY <1>1, <2>2, <2>8
<1> QED
  BY <1>2, <1>3

LEMMA LoadSame ==
  ASSUME NEW m, NEW m2, NEW i, \A b \in 0 .. 3 : m2[4 * i + b] = m[4 * i + b]
  PROVE  Load(m2, i) = Load(m, i)
BY DEF Load

(* One more term is put into a word, which is cut to n bits.               *)
PutInto(X, Y, n) == Truncated(X \cup Y, n)

LEMMA TruncatedTwice ==
  ASSUME NEW X, NEW Y, NEW n, n \in 0 .. 32
  PROVE  PutInto(Truncated(X, 32), Y, n) = PutInto(X, Y, n)
<1>1. \A x \in 0 .. (n - 1) : x \in 0 .. (32 - 1)
  OBVIOUS
<1>2. Truncated(Truncated(X, 32) \cup Y, n) = Truncated(X \cup Y, n)
  <2> SUFFICES ASSUME NEW p
               PROVE  p \in Truncated(Truncated(X, 32) \cup Y, n) <=> p \in Truncated(X \cup Y, n)
    OBVIOUS
  <2>1. p \in Truncated(Truncated(X, 32) \cup Y, n)
          <=> ((p \in X /\ p[1] \in 0 .. (32 - 1)) \/ p \in Y) /\ p[1] \in 0 .. (n - 1)
    BY Zenon DEF Truncated
  <2>2. p \in Truncated(X \cup Y, n) <=> (p \in X \/ p \in Y) /\ p[1] \in 0 .. (n - 1)
    BY Zenon DEF Truncated
  <2> QED
    BY <1>1, <2>1, <2>2, Zenon
<1> QED
  BY <1>2, Zenon DEF PutInto

LEMMA OneMoreTerm ==
  ASSUME NEW terms, NEW t, NEW words
  PROVE  Or(terms \cup {t}, words) = Or(terms, words) \cup Shift(words[t[1]], t[2])
BY DEF Or

LEMMA TermsAreInt32 ==
  ASSUME NEW terms, NEW words, NEW n \in 0 .. 32
  PROVE  IsInt32(Truncated(Or(terms, words), n))
<1> SUFFICES ASSUME NEW p \in Truncated(Or(terms, words), n)
             PROVE  p[1] \in 0 .. 31 /\ p = <<p[1], p[2]>>
  BY Zenon DEF IsInt32
<1>1. p \in Or(terms, words) /\ p[1] \in 0 .. (n - 1)
  BY Zenon DEF Truncated
<1>2. PICK t \in terms : p \in Shift(words[t[1]], t[2])
  BY <1>1 DEF Or
<1>3. PICK q \in words[t[1]] : p = <<q[1] + t[2], q[2]>>
  BY <1>2, Zenon DEF Shift
<1>4. p = <<p[1], p[2]>>
  BY <1>3
<1>5. p[1] \in 0 .. 31
  BY <1>1
<1> QED
  BY <1>4, <1>5

(* Where the group in work lies.                                           *)
Array == 0 .. (PerGroup * InPlaceGroups - 1)

LEMMA Places ==
  ASSUME format \in Format, format \in {"z17", "z19"}, NEW g \in 0 .. (InPlaceGroups - 1)
  PROVE  /\ PerGroup \in Nat \ {0} /\ GroupBytes \in Nat \ {0}
         /\ PerGroup * g \in Nat /\ GroupBytes * g \in Nat
         /\ PerGroup * (g + 1) = PerGroup * g + PerGroup
         /\ \A jf \in 0 .. (PerGroup - 1) : PerGroup * g + jf \in Array /\ PerGroup * g + jf \in Fields
         /\ \A k \in 0 .. (GroupBytes - 1) : GroupBytes * g + k \in Buffer
         /\ \A n \in 0 .. (GroupBytes * g - 1) : n \in Buffer /\ n \div 4 \in 0 .. (PerGroup * g - 1)
         /\ \A i \in Array, b \in 0 .. 3 : 4 * i + b \in Buffer /\ (4 * i + b) \div 4 = i
<1> DEFINE pg == PerGroup  gb == GroupBytes  ng == InPlaceGroups
           pgg == pg * g  gbg == gb * g  pgn == pg * ng  gbn == gb * ng
<1>1. pg \in Nat \ {0} /\ gb \in Nat \ {0} /\ gb <= 4 * pg
  BY FormatTyped, ProgramIsRight DEF ProgramRight, ProgramOf
<1>2. ng \in Nat /\ Groups \in Nat /\ ng <= Groups /\ g \in Nat /\ g < ng
  BY PackingAssumption
<1>3. Buffer = 0 .. (4 * pg * ng - 1) /\ Fields = 0 .. (Groups * pg - 1) /\ Array = 0 .. (pgn - 1)
  BY Zenon DEF Buffer, Fields, Array
<1> HIDE DEF pg, gb, ng
<1>4. pgg \in Nat /\ pgg + pg <= pgn /\ gbg \in Nat /\ gbg + gb <= gbn
  BY <1>1, <1>2, Steps
<1>5. pgn <= Groups * pg
  <2>1. pg * (Groups - ng) >= 0
    BY <1>1, <1>2
  <2>2. pg * (Groups - ng) = Groups * pg - pgn
    BY <1>1, <1>2
  <2>3. Groups * pg \in Int /\ pgn \in Int
    BY <1>1, <1>2
  <2> QED
    BY <2>1, <2>2, <2>3
<1>6. gbg <= 4 * pgg /\ gbn <= 4 * pgn /\ 4 * pg * ng = 4 * pgn /\ pgn \in Nat
  <2>1. (4 * pg - gb) * g >= 0 /\ (4 * pg - gb) * ng >= 0
    BY <1>1, <1>2
  <2>2. (4 * pg - gb) * g = 4 * pgg - gbg /\ (4 * pg - gb) * ng = 4 * pgn - gbn
    BY <1>1, <1>2
  <2>3. 4 * pg * ng = 4 * pgn /\ pgn \in Nat /\ gbn \in Nat
    BY <1>1, <1>2
  <2>4. pgg \in Int /\ gbg \in Int
    BY <1>4
  <2> HIDE DEF pgg, gbg, pgn, gbn
  <2> QED
    BY <2>1, <2>2, <2>3, <2>4
<1>7. pg * (g + 1) = pgg + pg
  BY <1>1, <1>2
<1> HIDE DEF pgg, gbg, pgn, gbn
<1>8. Buffer = 0 .. (4 * pgn - 1)
  BY <1>3, <1>6
<1>9. \A jf \in 0 .. (pg - 1) : pgg + jf \in Array /\ pgg + jf \in Fields
  <2> DEFINE total == Groups * pg
  <2>1. total \in Int
    BY <1>1, <1>2
  <2>2. Fields = 0 .. (total - 1) /\ pgn <= total
    BY <1>3, <1>5
  <2>3. pgn \in Nat /\ Array = 0 .. (pgn - 1)
    BY <1>3, <1>6
  <2>4. pgg \in Nat /\ pgg + pg <= pgn
    BY <1>4
  <2> HIDE DEF total
  <2> QED
    BY <1>1, <2>1, <2>2, <2>3, <2>4
<1>10. \A k \in 0 .. (gb - 1) : gbg + k \in Buffer
  <2>1. gbn \in Int
    BY <1>1, <1>2 DEF gbn
  <2> QED
    BY <1>1, <1>4, <1>6, <1>8, <2>1
<1>11. \A n \in 0 .. (gbg - 1) : n \in Buffer /\ n \div 4 \in 0 .. (pgg - 1)
  <2>1. pgg <= pgn
    BY <1>1, <1>4, <1>6
  <2> QED
    BY <1>4, <1>6, <1>8, <2>1
<1>12. \A i \in Array, b \in 0 .. 3 : 4 * i + b \in Buffer /\ (4 * i + b) \div 4 = i
  BY <1>3, <1>6, <1>8
<1> QED
  BY <1>1, <1>4, <1>7, <1>9, <1>10, <1>11, <1>12 DEF pg, gb, pgg, gbg

LEMMA Stores ==
  ASSUME format \in Format, format \in {"z17", "z19"}, NEW m, NEW i \in Array, NEW word, IsInt32(word)
  PROVE  /\ Load(Store(m, i, word), i) = word
         /\ \A i2 \in Array : i2 # i => Load(Store(m, i, word), i2) = Load(m, i2)
         /\ \A n \in Buffer : n \div 4 # i => Store(m, i, word)[n] = m[n]
<1>1. 0 \in 0 .. (InPlaceGroups - 1)
  BY PackingAssumption
<1>2. \A i2 \in Array, b \in 0 .. 3 : 4 * i2 + b \in Buffer /\ (4 * i2 + b) \div 4 = i2
  BY <1>1, Places
<1>3. \A n \in Buffer : Store(m, i, word)[n]
                          = IF n \div 4 = i THEN Truncated(Shift(word, -8 * (n % 4)), 8) ELSE m[n]
  BY Zenon DEF Store
<1>4. i \in Int /\ Array \subseteq Int
  BY DEF Array
<1>5. HasInt32(Store(m, i, word), i, word)
  <2> SUFFICES ASSUME NEW b \in 0 .. 3
               PROVE  Store(m, i, word)[4 * i + b] = Truncated(Shift(word, -8 * b), 8)
    BY Zenon DEF HasInt32
  <2>1. (4 * i + b) % 4 = b
    BY <1>4
  <2> QED
    BY <1>2, <1>3, <2>1, Zenon
<1>6. ASSUME NEW i2 \in Array, i2 # i
      PROVE  Load(Store(m, i, word), i2) = Load(m, i2)
  <2>1. \A b \in 0 .. 3 : Store(m, i, word)[4 * i2 + b] = m[4 * i2 + b]
    BY <1>2, <1>3, <1>6, Zenon
  <2> QED
    BY <2>1, LoadSame
<1> QED
  BY <1>3, <1>5, <1>6, LoadWord, Zenon

(* What a row holds, in the array or in a local variable; the bytes of a    *)
(* group; and the state of the array while row r, term t is next.          *)
HeldIn(m, local, g, r) == IF Program[r].local THEN local[To(r)] ELSE Load(m, PerGroup * g + To(r))
GroupWords(g) == [k \in 0 .. (GroupBytes - 1) |-> bytes[GroupBytes * g + k]]

ToRead(m, g, r, t) ==
  /\ \A n \in 0 .. (GroupBytes * g - 1) : m[n] = bytes[n]
  /\ \A r2 \in 1 .. Len(Program), t2 \in 1 .. 3 :
       r2 > r \/ (r2 = r /\ t2 >= t)
         => m[GroupBytes * g + Term(r2, t2)[1]] = bytes[GroupBytes * g + Term(r2, t2)[1]]
Complete(m, g) == \A i \in Array : i >= PerGroup * (g + 1) => Load(m, i) = Whole[i]
RowsDone(m, local, g, r) ==
  \A r2 \in 1 .. Len(Program) : r2 < r => HeldIn(m, local, g, r2) = Whole[PerGroup * g + To(r2)]
TermsDone(m, local, g, r, t) ==
  t > 1 => HeldIn(m, local, g, r) = Truncated(Or(FirstTerms(r, t - 1), GroupWords(g)), 32)

(* The new word, array and local variables.                                *)
Word(m, local, g, r, t) ==
  Truncated((IF t = 1 THEN {} ELSE HeldIn(m, local, g, r))
              \cup Shift(m[GroupBytes * g + Term(r, t)[1]], Term(r, t)[2]),
            IF t = 3 THEN Fmt.width ELSE 32)
NewArray(m, local, g, r, t) ==
  IF Program[r].local THEN m ELSE Store(m, PerGroup * g + To(r), Word(m, local, g, r, t))
NewLocal(m, local, g, r, t) ==
  IF Program[r].local THEN [local EXCEPT ![To(r)] = Word(m, local, g, r, t)] ELSE local

LEMMA Remainder ==
  ASSUME NEW m \in Nat \ {0}, NEW p \in Int, NEW r \in 0 .. (m - 1)
  PROVE  (m * p + r) \div m = p /\ (m * p + r) % m = r
<1> DEFINE x == m * p + r  q == x \div m  s == x % m
<1>1. x \in Int
  OBVIOUS
<1>2. q \in Int /\ s \in 0 .. (m - 1) /\ x = m * q + s
  <2> HIDE DEF x
  <2> QED
    BY <1>1, Division
<1>3. m * p + r = m * q + s
  BY <1>2
<1> HIDE DEF q, s
<1>4. p = q /\ r = s
  BY <1>2, <1>3, DivisionUnique
<1> QED
  BY <1>4 DEF q, s

LEMMA RowMakes ==
  ASSUME format \in Format, format \in {"z17", "z19"}, Encoded,
         NEW g \in 0 .. (InPlaceGroups - 1), NEW r \in 1 .. Len(Program)
  PROVE  Truncated(Or(FirstTerms(r, 3), GroupWords(g)), Fmt.width) = Whole[PerGroup * g + To(r)]
<1> DEFINE pg == PerGroup  jf == To(r)  n == pg * g + jf
<1>1. PICK table \in Fmt.unpack : FirstTerms(r, 3) = table[jf + 1]
  BY ProgramIsRight, Zenon DEF ProgramRight, ProgramOf
<1>2. jf \in 0 .. (pg - 1)
  BY ProgramIsRight, Zenon DEF ProgramRight, ProgramOf
<1>3. pg \in Nat \ {0} /\ n \in Fields /\ n \in Array
  BY <1>2, Places
<1>7. g \in Int
  BY PackingAssumption
<1> HIDE DEF pg, jf
<1>4. n \div pg = g /\ n % pg = jf
  BY <1>2, <1>3, <1>7, Remainder
<1>5. UnpackWith(table)[n]
        = Truncated(Or(table[jf + 1], [k \in 0 .. (GroupBytes - 1) |-> bytes[GroupBytes * g + k]]), Fmt.width)
  <2> HIDE DEF n
  <2> QED
    BY <1>3, <1>4, Zenon DEF UnpackWith, pg
<1>6. UnpackWith(table) = Whole
  BY UnpackedByTable
<1> QED
  BY <1>1, <1>5, <1>6, Zenon DEF GroupWords, pg, jf

LEMMA TermWord ==
  ASSUME format \in Format, format \in {"z17", "z19"}, Encoded, NEW m, NEW local,
         NEW g \in 0 .. (InPlaceGroups - 1), NEW r \in 1 .. Len(Program), NEW t \in 1 .. 3,
         ToRead(m, g, r, t), TermsDone(m, local, g, r, t)
  PROVE  /\ IsInt32(Word(m, local, g, r, t))
         /\ t # 3 => Word(m, local, g, r, t) = Truncated(Or(FirstTerms(r, t), GroupWords(g)), 32)
         /\ t = 3 => Word(m, local, g, r, t) = Whole[PerGroup * g + To(r)]
<1> DEFINE words == GroupWords(g)  fw == Fmt.width  size == IF t = 3 THEN fw ELSE 32
           old == IF t = 1 THEN {} ELSE HeldIn(m, local, g, r)
           k == Term(r, t)[1]  s == Term(r, t)[2]  before == Or(FirstTerms(r, t - 1), words)
<1>1. k \in 0 .. (GroupBytes - 1) /\ fw \in 1 .. 32
  BY ProgramIsRight, Zenon DEF ProgramRight, ProgramOf
<1>2. m[GroupBytes * g + k] = words[k]
  <2>1. m[GroupBytes * g + k] = bytes[GroupBytes * g + k]
    BY DEF ToRead
  <2> HIDE DEF k
  <2>2. words[k] = bytes[GroupBytes * g + k]
    BY <1>1, Zenon DEF GroupWords
  <2> QED
    BY <2>1, <2>2
<1>3. old = Truncated(before, 32)
  <2>1. CASE t = 1
    <3>1. FirstTerms(r, t - 1) = {}
      BY <2>1 DEF FirstTerms
    <3>2. before = {}
      BY <3>1 DEF Or
    <3>3. Truncated(before, 32) = {}
      <4> HIDE DEF before
      <4> QED
        BY <3>2 DEF Truncated
    <3> QED
      BY <2>1, <3>3
  <2>2. CASE t # 1
    <3>1. t > 1
      BY <2>2
    <3> QED
      BY <2>2, <3>1, Zenon DEF TermsDone
  <2> QED
    BY <2>1, <2>2
<1>4. FirstTerms(r, t) = FirstTerms(r, t - 1) \cup {Term(r, t)}
  <2>1. 1 .. t = (1 .. (t - 1)) \cup {t}
    OBVIOUS
  <2>2. \A x : x \in FirstTerms(r, t) <=> \E i \in (1 .. (t - 1)) \cup {t} : x = Term(r, i)
    BY <2>1, Zenon DEF FirstTerms
  <2>3. \A x : x \in FirstTerms(r, t - 1) <=> \E i \in 1 .. (t - 1) : x = Term(r, i)
    BY Zenon DEF FirstTerms
  <2> QED
    BY <2>2, <2>3
<1>5. Or(FirstTerms(r, t), words) = before \cup Shift(words[k], s)
  <2>1. Or(FirstTerms(r, t - 1) \cup {Term(r, t)}, words) = before \cup Shift(words[k], s)
    <3> HIDE DEF words
    <3> QED
      BY OneMoreTerm
  <2> QED
    BY <1>4, <2>1, Zenon
<1>6. size \in 0 .. 32
  BY <1>1
<1>7. PutInto(Truncated(before, 32), Shift(words[k], s), size) = PutInto(before, Shift(words[k], s), size)
  <2> HIDE DEF size, before, words, k, s
  <2> QED
    BY <1>6, TruncatedTwice
<1>8. Word(m, local, g, r, t) = Truncated(Or(FirstTerms(r, t), words), size)
  <2>1. Word(m, local, g, r, t) = Truncated(old \cup Shift(m[GroupBytes * g + k], s), size)
    BY Zenon DEF Word
  <2> HIDE DEF old, size, before, words, k, s
  <2> QED
    BY <1>2, <1>3, <1>5, <1>7, <2>1, Zenon DEF PutInto
<1>9. IsInt32(Word(m, local, g, r, t))
  <2> HIDE DEF size, words
  <2> QED
    BY <1>6, <1>8, TermsAreInt32
<1>10. t # 3 => Word(m, local, g, r, t) = Truncated(Or(FirstTerms(r, t), GroupWords(g)), 32)
  BY <1>8, Zenon
<1>11. t = 3 => Word(m, local, g, r, t) = Whole[PerGroup * g + To(r)]
  BY <1>8, RowMakes, Zenon
<1> QED
  BY <1>9, <1>10, <1>11

LEMMA TermStep ==
  ASSUME format \in Format, format \in {"z17", "z19"}, Encoded, NEW m, NEW local,
         NEW g \in 0 .. (InPlaceGroups - 1), NEW r \in 1 .. Len(Program), NEW t \in 1 .. 3,
         DOMAIN local = 0 .. (PerGroup - 1),
         ToRead(m, g, r, t), Complete(m, g), RowsDone(m, local, g, r), TermsDone(m, local, g, r, t),
         NEW m2, m2 = NewArray(m, local, g, r, t), NEW local2, local2 = NewLocal(m, local, g, r, t)
  PROVE  /\ DOMAIN local2 = 0 .. (PerGroup - 1) /\ Complete(m2, g)
         /\ t # 3 => /\ ToRead(m2, g, r, t + 1) /\ RowsDone(m2, local2, g, r)
                     /\ TermsDone(m2, local2, g, r, t + 1)
         /\ t = 3 => ToRead(m2, g, r + 1, 1) /\ RowsDone(m2, local2, g, r + 1)
<1> DEFINE new == Word(m, local, g, r, t)  jf == To(r)  pg == PerGroup  pgg == pg * g  i == pgg + jf
           gbg == GroupBytes * g
<1>1. /\ IsInt32(new)
      /\ t # 3 => new = Truncated(Or(FirstTerms(r, t), GroupWords(g)), 32)
      /\ t = 3 => new = Whole[i]
  BY TermWord, Zenon
<1>2. /\ \A r2 \in 1 .. Len(Program) : To(r2) \in 0 .. (pg - 1) /\ (r2 # r => To(r2) # jf)
      /\ \A r2 \in 1 .. Len(Program), t2 \in 1 .. 3 : Term(r2, t2)[1] \in 0 .. (GroupBytes - 1)
      /\ Len(Program) \in Nat
  BY ProgramIsRight DEF ProgramRight, ProgramOf
<1>16. \A r2 \in 1 .. Len(Program), t2 \in 1 .. 3 :
         ~Program[r].local /\ (r2 > r \/ (r2 = r /\ t2 > t)) => (gbg + Term(r2, t2)[1]) \div 4 # i
  <2>1. g \in Nat
    BY PackingAssumption
  <2> QED
    BY <2>1, ProgramIsRight DEF ProgramRight, ProgramOf
<1>3. /\ pg \in Nat \ {0} /\ pgg \in Nat /\ pg * (g + 1) = pgg + pg
      /\ \A k \in 0 .. (pg - 1) : pgg + k \in Array
      /\ \A k \in 0 .. (GroupBytes - 1) : gbg + k \in Buffer
      /\ \A n \in 0 .. (gbg - 1) : n \in Buffer /\ n \div 4 \in 0 .. (pgg - 1)
  <2>1. pg \in Nat \ {0} /\ pgg \in Nat /\ pg * (g + 1) = pgg + pg
    BY Places
  <2>2. \A k \in 0 .. (pg - 1) : pgg + k \in Array
    BY Places
  <2>3. \A k \in 0 .. (GroupBytes - 1) : gbg + k \in Buffer
    BY Places
  <2>4. \A n \in 0 .. (gbg - 1) : n \in Buffer
    BY Places
  <2>5. \A n \in 0 .. (gbg - 1) : n \div 4 \in 0 .. (pgg - 1)
    BY Places
  <2> QED
    BY <2>1, <2>2, <2>3, <2>4, <2>5
<1>4. jf \in 0 .. (pg - 1) /\ i \in Array /\ Array \subseteq Int
  <2>1. jf \in 0 .. (pg - 1)
    BY <1>2
  <2>2. i \in Array
    BY <1>3, <2>1, Zenon
  <2>3. Array \subseteq Int
    BY DEF Array
  <2> QED
    BY <2>1, <2>2, <2>3
<1>5. /\ Program[r].local => m2 = m /\ local2 = [local EXCEPT ![jf] = new]
      /\ ~Program[r].local => m2 = Store(m, i, new) /\ local2 = local
  BY Zenon DEF NewArray, NewLocal
<1>6. ~Program[r].local =>
        /\ Load(m2, i) = new
        /\ \A i2 \in Array : i2 # i => Load(m2, i2) = Load(m, i2)
        /\ \A n \in Buffer : n \div 4 # i => m2[n] = m[n]
  <2> HIDE DEF new, i
  <2> SUFFICES ASSUME ~Program[r].local
               PROVE  /\ Load(m2, i) = new
                      /\ \A i2 \in Array : i2 # i => Load(m2, i2) = Load(m, i2)
                      /\ \A n \in Buffer : n \div 4 # i => m2[n] = m[n]
    OBVIOUS
  <2>1. /\ Load(Store(m, i, new), i) = new
        /\ \A i2 \in Array : i2 # i => Load(Store(m, i, new), i2) = Load(m, i2)
        /\ \A n \in Buffer : n \div 4 # i => Store(m, i, new)[n] = m[n]
    BY <1>1, <1>4, Stores
  <2>2. m2 = Store(m, i, new)
    BY <1>5
  <2> QED
    BY <2>1, <2>2, Zenon
<1>7. DOMAIN local2 = 0 .. (PerGroup - 1)
  <2> HIDE DEF new, jf
  <2> QED
    BY <1>5
<1>8. HeldIn(m2, local2, g, r) = new
  <2>1. CASE Program[r].local
    <3>1. local2[jf] = new
      <4> HIDE DEF new, jf, pg
      <4>1. jf \in DOMAIN local
        BY <1>4 DEF pg
      <4> QED
        BY <1>5, <2>1, <4>1
    <3> QED
      BY <2>1, <3>1, Zenon DEF HeldIn
  <2>2. CASE ~Program[r].local
    BY <1>6, <2>2, Zenon DEF HeldIn
  <2> QED
    BY <2>1, <2>2
<1>9. ASSUME NEW r2 \in 1 .. Len(Program), r2 # r
      PROVE  HeldIn(m2, local2, g, r2) = HeldIn(m, local, g, r2)
  <2> DEFINE j2 == To(r2)  i2 == pgg + j2
  <2>1. j2 \in 0 .. (pg - 1) /\ j2 # jf
    BY <1>2, <1>9
  <2>2. pgg \in Int /\ jf \in Int /\ j2 \in Int
    BY <1>3, <1>4, <2>1
  <2>3. i2 \in Array
    BY <1>3, <2>1
  <2>4. j2 \in DOMAIN local
    BY <2>1
  <2> HIDE DEF j2
  <2>5. i2 # i
    <3> HIDE DEF pgg, pg, jf
    <3> QED
      BY <2>1, <2>2
  <2>6. local2[j2] = local[j2]
    <3> HIDE DEF new, jf, pg
    <3> QED
      BY <1>5, <2>1, <2>4
  <2>7. Load(m2, i2) = Load(m, i2)
    <3> HIDE DEF i2, i, new
    <3> QED
      BY <1>5, <1>6, <2>3, <2>5
  <2> QED
    BY <2>6, <2>7, Zenon DEF HeldIn, j2
<1>10. ASSUME NEW n \in 0 .. (gbg - 1)
       PROVE  m2[n] = bytes[n]
  <2>1. n \in Buffer /\ n \div 4 \in 0 .. (pgg - 1)
    BY <1>3
  <2> HIDE DEF pgg, jf, pg
  <2>2. n \div 4 # i
    BY <1>3, <1>4, <2>1
  <2>3. m[n] = bytes[n]
    BY Zenon DEF ToRead
  <2> HIDE DEF i, new
  <2> QED
    BY <1>5, <1>6, <2>1, <2>2, <2>3
<1>11. ASSUME NEW r2 \in 1 .. Len(Program), NEW t2 \in 1 .. 3, r2 > r \/ (r2 = r /\ t2 > t)
       PROVE  m2[gbg + Term(r2, t2)[1]] = bytes[gbg + Term(r2, t2)[1]]
  <2> DEFINE n == gbg + Term(r2, t2)[1]
  <2>1. n \in Buffer
    BY <1>2, <1>3
  <2>2. m[n] = bytes[n]
    <3>1. r2 > r \/ (r2 = r /\ t2 >= t)
      BY <1>11
    <3> QED
      BY <3>1, Zenon DEF ToRead
  <2>3. ~Program[r].local => n \div 4 # i
    BY <1>11, <1>16, Zenon
  <2> HIDE DEF n, i, new
  <2>4. m2[n] = bytes[n]
    BY <1>5, <1>6, <2>1, <2>2, <2>3
  <2> QED
    BY <2>4 DEF n
<1>12. Complete(m2, g)
  <2> SUFFICES ASSUME NEW i2 \in Array, i2 >= pg * (g + 1)
               PROVE  Load(m2, i2) = Whole[i2]
    BY DEF Complete
  <2>1. Load(m, i2) = Whole[i2]
    BY DEF Complete
  <2>2. i2 # i
    <3>1. i2 >= pgg + pg /\ i2 \in Int
      BY <1>3, <1>4
    <3> HIDE DEF pgg, jf, pg
    <3> QED
      BY <1>3, <1>4, <3>1
  <2> HIDE DEF i, new
  <2> QED
    BY <1>5, <1>6, <2>1, <2>2
<1>13. RowsDone(m2, local2, g, r)
  BY <1>9 DEF RowsDone
<1>14. ASSUME t # 3
       PROVE  ToRead(m2, g, r, t + 1) /\ TermsDone(m2, local2, g, r, t + 1)
  <2>1. ToRead(m2, g, r, t + 1)
    <3>1. \A r2 \in 1 .. Len(Program), t2 \in 1 .. 3 :
            r2 > r \/ (r2 = r /\ t2 >= t + 1) => r2 > r \/ (r2 = r /\ t2 > t)
      OBVIOUS
    <3> QED
      BY <1>10, <1>11, <3>1, Zenon DEF ToRead
  <2>2. (t + 1) - 1 = t
    OBVIOUS
  <2>3. TermsDone(m2, local2, g, r, t + 1)
    BY <1>1, <1>8, <1>14, <2>2, Zenon DEF TermsDone
  <2> QED
    BY <2>1, <2>3
<1>15. ASSUME t = 3
       PROVE  ToRead(m2, g, r + 1, 1) /\ RowsDone(m2, local2, g, r + 1)
  <2>1. ToRead(m2, g, r + 1, 1)
    <3>1. \A r2 \in 1 .. Len(Program), t2 \in 1 .. 3 :
            r2 > r + 1 \/ (r2 = r + 1 /\ t2 >= 1) => r2 > r \/ (r2 = r /\ t2 > t)
      BY <1>2
    <3> QED
      BY <1>10, <1>11, <3>1, Zenon DEF ToRead
  <2>2. RowsDone(m2, local2, g, r + 1)
    <3> SUFFICES ASSUME NEW r2 \in 1 .. Len(Program), r2 < r + 1
                 PROVE  HeldIn(m2, local2, g, r2) = Whole[PerGroup * g + To(r2)]
      BY DEF RowsDone
    <3>1. CASE r2 = r
      BY <1>1, <1>8, <1>15, <3>1, Zenon
    <3>2. CASE r2 # r
      <4>1. r2 < r
        BY <1>2, <3>2
      <4> QED
        BY <1>13, <4>1 DEF RowsDone
    <3> QED
      BY <3>1, <3>2
  <2> QED
    BY <2>1, <2>2
<1> QED
  BY <1>7, <1>12, <1>13, <1>14, <1>15

(* The last step of a group.                                               *)
LocalAt(g, i) == {r \in 1 .. Len(Program) : Program[r].local /\ PerGroup * g + To(r) = i}
Subtracted(m, local, g) ==
  [n \in Buffer |->
     IF LocalAt(g, n \div 4) = {} THEN m[n]
     ELSE Truncated(Shift(local[(n \div 4) % PerGroup], -8 * (n % 4)), 8)]

LEMMA WholeIsInt32 ==
  ASSUME format \in Format, format \in {"z17", "z19"}, NEW n \in Fields
  PROVE  IsInt32(Whole[n])
<1> SUFFICES ASSUME NEW p \in Whole[n]
             PROVE  p[1] \in 0 .. 31 /\ p = <<p[1], p[2]>>
  BY Zenon DEF IsInt32
<1>1. PICK b \in 0 .. (Fmt.width - 1) : p = <<b, <<n, b>>>>
  BY Zenon DEF Whole, Field
<1>2. Fmt.width \in 1 .. 32
  BY ProgramIsRight, Zenon DEF ProgramRight
<1>3. b \in 0 .. 31
  BY <1>2
<1> QED
  BY <1>1, <1>3

LEMMA SubtractStep ==
  ASSUME format \in Format, format \in {"z17", "z19"}, Encoded, NEW m, NEW local,
         NEW g \in 0 .. (InPlaceGroups - 1),
         \A n \in 0 .. (GroupBytes * g - 1) : m[n] = bytes[n],
         Complete(m, g), RowsDone(m, local, g, Len(Program) + 1),
         NEW m2, m2 = Subtracted(m, local, g)
  PROVE  /\ \A i \in Array : i >= PerGroup * g => Load(m2, i) = Whole[i]
         /\ \A n \in 0 .. (GroupBytes * g - 1) : m2[n] = bytes[n]
<1> DEFINE pg == PerGroup  pgg == pg * g
<1>1. /\ \A r \in 1 .. Len(Program) : To(r) \in 0 .. (pg - 1)
      /\ \A r \in 1 .. Len(Program) : \A r2 \in 1 .. Len(Program) : To(r2) = To(r) => r2 = r
      /\ \A jf \in 0 .. (pg - 1) : \E r \in 1 .. Len(Program) : To(r) = jf
      /\ Len(Program) \in Nat
  BY ProgramIsRight DEF ProgramRight, ProgramOf
<1>2. pg \in Nat \ {0} /\ pgg \in Nat /\ pg * (g + 1) = pgg + pg /\ g \in Int
  BY Places, PackingAssumption
<1>3. \A i \in Array, b \in 0 .. 3 : 4 * i + b \in Buffer /\ (4 * i + b) \div 4 = i
  BY Places
<1>4. \A n \in 0 .. (GroupBytes * g - 1) : n \in Buffer /\ n \div 4 \in 0 .. (pgg - 1)
  BY Places
<1>5. \A jf \in 0 .. (pg - 1) : pgg + jf \in Fields
  BY Places
<1>6. \A n \in Buffer : m2[n] = IF LocalAt(g, n \div 4) = {} THEN m[n]
                               ELSE Truncated(Shift(local[(n \div 4) % pg], -8 * (n % 4)), 8)
  BY Zenon DEF Subtracted
<1>7. ASSUME NEW i \in Int, i < pgg \/ i >= pgg + pg
      PROVE  LocalAt(g, i) = {}
  <2> SUFFICES ASSUME NEW r \in 1 .. Len(Program), pgg + To(r) = i
               PROVE  FALSE
    BY DEF LocalAt
  <2>1. To(r) \in 0 .. (pg - 1)
    BY <1>1
  <2> HIDE DEF pgg, pg
  <2> QED
    BY <1>2, <1>7, <2>1
<1>8. ASSUME NEW i \in Array, LocalAt(g, i) = {}
      PROVE  Load(m2, i) = Load(m, i)
  <2>1. \A b \in 0 .. 3 : m2[4 * i + b] = m[4 * i + b]
    BY <1>3, <1>6, <1>8, Zenon
  <2> QED
    BY <2>1, LoadSame
<1>9. ASSUME NEW i \in Array, i >= pgg
      PROVE  Load(m2, i) = Whole[i]
  <2>1. i \in Int
    BY DEF Array
  <2>2. CASE i >= pgg + pg
    <3>1. LocalAt(g, i) = {}
      BY <1>7, <2>1, <2>2
    <3>2. i >= pg * (g + 1)
      BY <1>2, <2>2
    <3>3. Load(m, i) = Whole[i]
      BY <3>2, Zenon DEF Complete
    <3> QED
      BY <1>8, <3>1, <3>3
  <2>3. CASE ~(i >= pgg + pg)
    <3> DEFINE jf == i - pgg
    <3>1. jf \in 0 .. (pg - 1) /\ i = pgg + jf
      <4> HIDE DEF pgg, pg
      <4> QED
        BY <1>2, <1>9, <2>1, <2>3
    <3>2. PICK r \in 1 .. Len(Program) : To(r) = jf
      <4> HIDE DEF jf
      <4> QED
        BY <1>1, <3>1
    <3>3. HeldIn(m, local, g, r) = Whole[i]
      <4>1. r < Len(Program) + 1
        BY <1>1
      <4> HIDE DEF jf
      <4> QED
        BY <3>1, <3>2, <4>1, Zenon DEF RowsDone
    <3> HIDE DEF jf
    <3>4. CASE Program[r].local
      <4>1. LocalAt(g, i) # {}
        <5>1. pgg + To(r) = i
          BY <3>1, <3>2
        <5> QED
          BY <3>4, <5>1 DEF LocalAt
      <4>2. local[jf] = Whole[i]
        BY <3>2, <3>3, <3>4, Zenon DEF HeldIn
      <4>3. i % pg = jf
        <5> HIDE DEF pg
        <5> QED
          BY <1>2, <3>1, Remainder
      <4>4. HasInt32(m2, i, Whole[i])
        <5> SUFFICES ASSUME NEW b \in 0 .. 3
                     PROVE  m2[4 * i + b] = Truncated(Shift(Whole[i], -8 * b), 8)
          BY Zenon DEF HasInt32
        <5>1. (4 * i + b) % 4 = b
          BY <2>1
        <5> QED
          BY <1>3, <1>6, <4>1, <4>2, <4>3, <5>1, Zenon
      <4>5. IsInt32(Whole[i])
        BY <1>5, <3>1, WholeIsInt32
      <4> QED
        BY <4>4, <4>5, LoadWord
    <3>5. CASE ~Program[r].local
      <4>1. LocalAt(g, i) = {}
        <5> SUFFICES ASSUME NEW r2 \in 1 .. Len(Program), Program[r2].local, pgg + To(r2) = i
                     PROVE  FALSE
          BY DEF LocalAt
        <5>1. To(r2) = jf
          <6>1. To(r2) \in Int
            BY <1>1
          <6> HIDE DEF pgg
          <6> QED
            BY <1>2, <3>1, <6>1
        <5>2. r2 = r
          BY <1>1, <3>2, <5>1, Zenon
        <5> QED
          BY <3>5, <5>2
      <4>2. Load(m, i) = Whole[i]
        BY <3>1, <3>2, <3>3, <3>5, Zenon DEF HeldIn
      <4> QED
        BY <1>8, <4>1, <4>2
    <3> QED
      BY <3>4, <3>5
  <2> QED
    BY <2>2, <2>3
<1>10. ASSUME NEW n \in 0 .. (GroupBytes * g - 1)
       PROVE  m2[n] = bytes[n]
  <2>1. n \in Buffer /\ n \div 4 \in Int /\ n \div 4 < pgg
    <3>1. n \in Buffer /\ n \div 4 \in 0 .. (pgg - 1)
      BY <1>4
    <3> HIDE DEF pgg
    <3> QED
      BY <1>2, <3>1
  <2>2. LocalAt(g, n \div 4) = {}
    <3> HIDE DEF pgg
    <3> QED
      BY <1>7, <2>1
  <2> QED
    BY <1>6, <2>1, <2>2
<1> QED
  BY <1>9, <1>10

(* polyz_unpack_inplace between two of its steps.                          *)
GroupInv(m, local, g, r, t) ==
  /\ g \in 0 .. (InPlaceGroups - 1)
  /\ r \in 1 .. (Len(Program) + 1) /\ t \in 1 .. 3 /\ (r = Len(Program) + 1 => t = 1)
  /\ DOMAIN local = 0 .. (PerGroup - 1)
  /\ ToRead(m, g, r, t) /\ Complete(m, g) /\ RowsDone(m, local, g, r) /\ TermsDone(m, local, g, r, t)

InPlaceInv ==
  /\ stage \in {"inplace", "stored"} => format \in {"z17", "z19"}
  /\ stage = "inplace" => GroupInv(mem, tmp, pc[1], pc[2], pc[3])
  /\ stage = "stored" => InPlaceRight

LEMMA GroupBegins ==
  ASSUME format \in Format, format \in {"z17", "z19"}, NEW m, NEW local,
         NEW g \in 0 .. (InPlaceGroups - 1), DOMAIN local = 0 .. (PerGroup - 1),
         \A n \in 0 .. (GroupBytes * (g + 1) - 1) : m[n] = bytes[n], Complete(m, g)
  PROVE  GroupInv(m, local, g, 1, 1)
<1> DEFINE gb == GroupBytes  gbg == gb * g
<1>1. gb \in Nat \ {0} /\ gbg \in Nat /\ gb * (g + 1) = gbg + gb
  <2>1. gb \in Nat \ {0} /\ g \in Int
    BY FormatTyped, PackingAssumption
  <2>2. gbg \in Nat
    BY Places
  <2> HIDE DEF gb
  <2> QED
    BY <2>1, <2>2
<1>2. \A r \in 1 .. Len(Program), t \in 1 .. 3 : Term(r, t)[1] \in 0 .. (gb - 1)
  BY ProgramIsRight DEF ProgramRight, ProgramOf
<1>3. Len(Program) \in Nat \ {0}
  BY ProgramIsRight DEF ProgramRight, ProgramOf
<1>4. \A n \in 0 .. (gbg + gb - 1) : m[n] = bytes[n]
  BY <1>1
<1> HIDE DEF gb, gbg
<1>5. \A n \in 0 .. (gbg - 1) : m[n] = bytes[n]
  BY <1>1, <1>4
<1>6. \A k \in 0 .. (gb - 1) : m[gbg + k] = bytes[gbg + k]
  BY <1>1, <1>4
<1>7. ToRead(m, g, 1, 1)
  BY <1>2, <1>5, <1>6, Zenon DEF ToRead, gb, gbg
<1>8. RowsDone(m, local, g, 1)
  BY <1>3 DEF RowsDone
<1>9. TermsDone(m, local, g, 1, 1)
  BY DEF TermsDone
<1>10. 1 \in 1 .. (Len(Program) + 1) /\ 1 \in 1 .. 3 /\ (1 = Len(Program) + 1 => 1 = 1)
  BY <1>3
<1> QED
  BY <1>7, <1>8, <1>9, <1>10, Zenon DEF GroupInv

LEMMA GroupPrimed ==
  ASSUME UNCHANGED <<format, bytes>>, GroupInv(mem', tmp', pc'[1], pc'[2], pc'[3])
  PROVE  GroupInv(mem, tmp, pc[1], pc[2], pc[3])'
<1>1. /\ Fmt' = Fmt /\ PerGroup' = PerGroup /\ GroupBytes' = GroupBytes /\ Program' = Program
      /\ Whole' = Whole /\ Array' = Array /\ bytes' = bytes
  <2>1. Fmt' = Fmt
    BY Zenon DEF Fmt
  <2>2. PerGroup' = PerGroup
    BY <2>1, Zenon DEF PerGroup
  <2>3. GroupBytes' = GroupBytes
    BY <2>1, <2>2, Zenon DEF GroupBytes
  <2> QED
    BY <2>1, <2>2, <2>3, SameFormat, Zenon DEF Program, Array
<1> DEFINE g == pc'[1]  r == pc'[2]  t == pc'[3]
<1>2. /\ g \in 0 .. (InPlaceGroups - 1)
      /\ r \in 1 .. (Len(Program') + 1) /\ t \in 1 .. 3 /\ (r = Len(Program') + 1 => t = 1)
      /\ DOMAIN tmp' = 0 .. (PerGroup' - 1)
  BY <1>1, Zenon DEF GroupInv
<1>3. ToRead(mem, pc[1], pc[2], pc[3])'
  <2>1. ToRead(mem', g, r, t)
    BY Zenon DEF GroupInv
  <2>2. \A n \in 0 .. (GroupBytes' * g - 1) : mem'[n] = bytes'[n]
    BY <1>1, <2>1, Zenon DEF ToRead
  <2>3. ASSUME NEW r2 \in 1 .. Len(Program'), NEW t2 \in 1 .. 3, r2 > r \/ (r2 = r /\ t2 >= t)
        PROVE  mem'[GroupBytes' * g + Program'[r2].terms[t2][1]]
                 = bytes'[GroupBytes' * g + Program'[r2].terms[t2][1]]
    <3>1. r2 \in 1 .. Len(Program) /\ t2 \in 1 .. 3
      BY <1>1, Zenon
    <3>2. mem'[GroupBytes * g + Program[r2].terms[t2][1]] = bytes[GroupBytes * g + Program[r2].terms[t2][1]]
      BY <2>1, <2>3, <3>1, Zenon DEF ToRead, Term
    <3> QED
      BY <1>1, <3>2, Zenon
  <2> QED
    BY <2>2, <2>3, Zenon DEF ToRead, Term
<1>4. Complete(mem, pc[1])'
  BY <1>1, Zenon DEF GroupInv, Complete, Load
<1>5. RowsDone(mem, tmp, pc[1], pc[2])'
  <2>1. RowsDone(mem', tmp', g, r)
    BY Zenon DEF GroupInv
  <2>2. ASSUME NEW r2 \in 1 .. Len(Program'), r2 < r
        PROVE  HeldIn(mem, tmp, pc[1], r2)' = Whole'[PerGroup' * g + Program'[r2].to]
    <3>1. HeldIn(mem', tmp', g, r2) = Whole[PerGroup * g + Program[r2].to]
      BY <1>1, <2>1, <2>2, Zenon DEF RowsDone, To
    <3>2. HeldIn(mem, tmp, pc[1], r2)' = HeldIn(mem', tmp', g, r2)
      BY <1>1, Zenon DEF HeldIn, To, Load
    <3> QED
      BY <1>1, <3>1, <3>2, Zenon
  <2> QED
    BY <2>2, Zenon DEF RowsDone, To
<1>6. TermsDone(mem, tmp, pc[1], pc[2], pc[3])'
  BY <1>1, Zenon DEF GroupInv, TermsDone, HeldIn, To, Load, FirstTerms, Term, GroupWords
<1> QED
  BY <1>2, <1>3, <1>4, <1>5, <1>6, Zenon DEF GroupInv

LEMMA InPlaceTermStep ==
  ASSUME PackingInv, InPlaceInv, InPlaceTerm
  PROVE  InPlaceInv'
<1> DEFINE g == pc[1]  r == pc[2]  t == pc[3]
<1>1. stage = "inplace" /\ stage' = stage /\ format' = format /\ bytes' = bytes /\ r <= Len(Program)
  BY Zenon DEF InPlaceTerm
<1>2. format \in Format /\ format \in {"z17", "z19"} /\ Encoded
  BY <1>1 DEF PackingInv, InPlaceInv
<1>3. GroupInv(mem, tmp, g, r, t)
  BY <1>1, Zenon DEF InPlaceInv
<1>4. Len(Program) \in Nat
  BY <1>2, ProgramIsRight DEF ProgramRight, ProgramOf
<1>5. g \in 0 .. (InPlaceGroups - 1) /\ r \in 1 .. Len(Program) /\ t \in 1 .. 3
  <2>1. g \in 0 .. (InPlaceGroups - 1) /\ r \in 1 .. (Len(Program) + 1) /\ t \in 1 .. 3
    BY <1>3, Zenon DEF GroupInv
  <2> HIDE DEF g, r, t
  <2>2. r \in 1 .. Len(Program)
    BY <1>1, <1>4, <2>1 DEF r
  <2> QED
    BY <2>1, <2>2
<1>6. Len(Program[r].terms) = 3
  BY <1>2, <1>5, ProgramIsRight, Zenon DEF ProgramRight, ProgramOf
<1>7. mem' = NewArray(mem, tmp, g, r, t) /\ tmp' = NewLocal(mem, tmp, g, r, t)
  <2>1. /\ mem' = IF Program[r].local THEN mem
                  ELSE Store(mem, PerGroup * g + To(r),
                         Truncated((IF t = 1 THEN {} ELSE IF Program[r].local THEN tmp[To(r)]
                                                        ELSE Load(mem, PerGroup * g + To(r)))
                                     \cup Shift(mem[GroupBytes * g + Term(r, t)[1]], Term(r, t)[2]),
                                   IF t = 3 THEN Fmt.width ELSE 32))
        /\ tmp' = IF Program[r].local
                  THEN [tmp EXCEPT ![To(r)] =
                         Truncated((IF t = 1 THEN {} ELSE IF Program[r].local THEN tmp[To(r)]
                                                        ELSE Load(mem, PerGroup * g + To(r)))
                                     \cup Shift(mem[GroupBytes * g + Term(r, t)[1]], Term(r, t)[2]),
                                   IF t = 3 THEN Fmt.width ELSE 32)]
                  ELSE tmp
    BY <1>6, Zenon DEF InPlaceTerm, To, Term
  <2> QED
    BY <2>1, Zenon DEF NewArray, NewLocal, Word, HeldIn
<1>8. pc' = IF t = 3 THEN <<g, r + 1, 1>> ELSE <<g, r, t + 1>>
  BY <1>6, Zenon DEF InPlaceTerm
<1>9. /\ DOMAIN tmp' = 0 .. (PerGroup - 1) /\ Complete(mem', g)
      /\ t # 3 => /\ ToRead(mem', g, r, t + 1) /\ RowsDone(mem', tmp', g, r)
                  /\ TermsDone(mem', tmp', g, r, t + 1)
      /\ t = 3 => ToRead(mem', g, r + 1, 1) /\ RowsDone(mem', tmp', g, r + 1)
  <2>1. /\ DOMAIN tmp = 0 .. (PerGroup - 1) /\ ToRead(mem, g, r, t) /\ Complete(mem, g)
        /\ RowsDone(mem, tmp, g, r) /\ TermsDone(mem, tmp, g, r, t)
    BY <1>3, Zenon DEF GroupInv
  <2> HIDE DEF g, r, t
  <2> QED
    BY <1>2, <1>5, <1>7, <2>1, TermStep
<1>10. GroupInv(mem', tmp', pc'[1], pc'[2], pc'[3])
  <2>1. CASE t = 3
    <3>1. pc'[1] = g /\ pc'[2] = r + 1 /\ pc'[3] = 1
      BY <1>8, <2>1
    <3>2. TermsDone(mem', tmp', g, r + 1, 1)
      BY DEF TermsDone
    <3>3. r + 1 \in 1 .. (Len(Program) + 1) /\ 1 \in 1 .. 3 /\ (r + 1 = Len(Program) + 1 => 1 = 1)
      <4> HIDE DEF r
      <4> QED
        BY <1>4, <1>5
    <3>4. GroupInv(mem', tmp', g, r + 1, 1)
      BY <1>5, <1>9, <2>1, <3>2, <3>3, Zenon DEF GroupInv
    <3> QED
      BY <3>1, <3>4, Zenon
  <2>2. CASE t # 3
    <3>1. pc'[1] = g /\ pc'[2] = r /\ pc'[3] = t + 1
      BY <1>8, <2>2
    <3>2. /\ r \in 1 .. (Len(Program) + 1) /\ t + 1 \in 1 .. 3
          /\ (r = Len(Program) + 1 => t + 1 = 1)
      <4> HIDE DEF r, t
      <4> QED
        BY <1>4, <1>5, <2>2
    <3>3. GroupInv(mem', tmp', g, r, t + 1)
      BY <1>5, <1>9, <2>2, <3>2, Zenon DEF GroupInv
    <3> QED
      BY <3>1, <3>3, Zenon
  <2> QED
    BY <2>1, <2>2
<1>11. GroupInv(mem, tmp, pc[1], pc[2], pc[3])'
  BY <1>1, <1>10, GroupPrimed
<1>12. format' \in {"z17", "z19"} /\ stage' = "inplace"
  BY <1>1, <1>2
<1> QED
  BY <1>11, <1>12, Zenon DEF InPlaceInv

LEMMA SubtractKeeps ==
  ASSUME PackingInv, InPlaceInv, Subtract
  PROVE  InPlaceInv'
<1> DEFINE g == pc[1]
<1>1. /\ stage = "inplace" /\ format' = format /\ bytes' = bytes /\ tmp' = tmp
      /\ pc[2] = Len(Program) + 1 /\ pc' = <<g - 1, 1, 1>>
      /\ stage' = IF g = 0 THEN "stored" ELSE "inplace"
  BY Zenon DEF Subtract
<1>2. format \in Format /\ format \in {"z17", "z19"} /\ Encoded
  BY <1>1 DEF PackingInv, InPlaceInv
<1>3. /\ g \in 0 .. (InPlaceGroups - 1) /\ DOMAIN tmp = 0 .. (PerGroup - 1)
      /\ \A n \in 0 .. (GroupBytes * g - 1) : mem[n] = bytes[n]
      /\ Complete(mem, g) /\ RowsDone(mem, tmp, g, Len(Program) + 1)
  <2>1. GroupInv(mem, tmp, g, Len(Program) + 1, pc[3])
    BY <1>1, Zenon DEF InPlaceInv
  <2> QED
    BY <2>1, Zenon DEF GroupInv, ToRead
<1>4. mem' = Subtracted(mem, tmp, g)
  BY Zenon DEF Subtract, Subtracted, LocalAt, To
<1>5. /\ \A i \in Array : i >= PerGroup * g => Load(mem', i) = Whole[i]
      /\ \A n \in 0 .. (GroupBytes * g - 1) : mem'[n] = bytes[n]
  <2> HIDE DEF g
  <2> QED
    BY <1>2, <1>3, <1>4, SubtractStep
<1>6. g \in Nat /\ g < InPlaceGroups /\ InPlaceGroups \in Nat
  BY <1>3, PackingAssumption
<1>7. /\ PerGroup' = PerGroup /\ Whole' = Whole
  <2>1. Fmt' = Fmt
    BY <1>1, Zenon DEF Fmt
  <2> QED
    BY <1>1, <2>1, SameFormat, Zenon DEF PerGroup
<1>8. CASE g = 0
  <2>1. \A i \in 0 .. (PerGroup * InPlaceGroups - 1) : Load(mem', i) = Whole[i]
    <3> SUFFICES ASSUME NEW i \in 0 .. (PerGroup * InPlaceGroups - 1)
                 PROVE  Load(mem', i) = Whole[i]
      OBVIOUS
    <3>1. PerGroup * g = 0 /\ i >= 0
      <4>1. PerGroup \in Nat
        BY <1>2, FormatTyped
      <4> QED
        BY <1>8, <4>1
    <3>2. i >= PerGroup * g
      BY <3>1
    <3> QED
      BY <1>5, <3>2, Zenon DEF Array
  <2>2. InPlaceRight'
    BY <1>7, <2>1, Zenon DEF InPlaceRight, Load
  <2>3. stage' = "stored" /\ format' \in {"z17", "z19"}
    BY <1>1, <1>2, <1>8
  <2> QED
    BY <2>2, <2>3 DEF InPlaceInv
<1>9. CASE g # 0
  <2> DEFINE h == g - 1
  <2>1. h \in 0 .. (InPlaceGroups - 1) /\ h + 1 = g
    <3> HIDE DEF g
    <3> QED
      BY <1>6, <1>9
  <2>2. \A n \in 0 .. (GroupBytes * (h + 1) - 1) : mem'[n] = bytes[n]
    <3> HIDE DEF h, g
    <3> QED
      BY <1>5, <2>1, Zenon
  <2>3. Complete(mem', h)
    <3> HIDE DEF h, g
    <3> QED
      BY <1>5, <2>1, Zenon DEF Complete
  <2>4. DOMAIN tmp' = 0 .. (PerGroup - 1)
    BY <1>1, <1>3, Zenon
  <2>5. GroupInv(mem', tmp', h, 1, 1)
    <3> HIDE DEF h
    <3> QED
      BY <1>2, <2>1, <2>2, <2>3, <2>4, GroupBegins
  <2>6. pc'[1] = h /\ pc'[2] = 1 /\ pc'[3] = 1
    BY <1>1
  <2>7. GroupInv(mem', tmp', pc'[1], pc'[2], pc'[3])
    BY <2>5, <2>6, Zenon
  <2>8. GroupInv(mem, tmp, pc[1], pc[2], pc[3])'
    BY <1>1, <2>7, GroupPrimed
  <2>9. stage' = "inplace" /\ format' \in {"z17", "z19"}
    BY <1>1, <1>2, <1>9
  <2> QED
    BY <2>8, <2>9, Zenon DEF InPlaceInv
<1> QED
  BY <1>8, <1>9

LEMMA FillBufferBegins ==
  ASSUME PackingInv, FillBuffer
  PROVE  InPlaceInv'
<1> DEFINE last == InPlaceGroups - 1
<1>1. /\ stage = "bytes" /\ format \in {"z17", "z19"} /\ format' = format /\ bytes' = bytes
      /\ mem' = [n \in Buffer |-> IF n < InPlaceGroups * GroupBytes THEN bytes[n] ELSE {}]
      /\ tmp' = [i \in 0 .. (PerGroup - 1) |-> {}]
      /\ pc' = <<last, 1, 1>> /\ stage' = "inplace"
  BY Zenon DEF FillBuffer
<1>2. format \in Format
  BY DEF PackingInv
<1>3. last \in 0 .. (InPlaceGroups - 1) /\ last + 1 = InPlaceGroups /\ InPlaceGroups \in Nat
  BY PackingAssumption
<1> HIDE DEF last
<1>4. DOMAIN tmp' = 0 .. (PerGroup - 1)
  BY <1>1
<1>5. \A n \in 0 .. (GroupBytes * (last + 1) - 1) : mem'[n] = bytes[n]
  <2> DEFINE gbl == GroupBytes * last  all == GroupBytes * InPlaceGroups
  <2>1. GroupBytes \in Nat \ {0}
    BY <1>2, FormatTyped
  <2>2. all = InPlaceGroups * GroupBytes /\ all = gbl + GroupBytes /\ gbl \in Nat /\ all \in Nat
        /\ GroupBytes * (last + 1) = all
    BY <1>3, <2>1
  <2>3. \A k \in 0 .. (GroupBytes - 1) : gbl + k \in Buffer
    BY <1>1, <1>2, <1>3, Places
  <2>4. \A n \in 0 .. (gbl - 1) : n \in Buffer
    BY <1>1, <1>2, <1>3, Places
  <2> HIDE DEF gbl, all
  <2> SUFFICES ASSUME NEW n \in 0 .. (all - 1)
               PROVE  mem'[n] = bytes[n]
    BY <2>2
  <2>5. n \in Buffer
    <3>1. CASE n < gbl
      BY <2>2, <2>4, <3>1
    <3>2. CASE n >= gbl
      <4>1. n - gbl \in 0 .. (GroupBytes - 1) /\ gbl + (n - gbl) = n
        BY <2>1, <2>2, <3>2
      <4> QED
        BY <2>3, <4>1
    <3> QED
      BY <2>2, <3>1, <3>2
  <2>6. n < InPlaceGroups * GroupBytes
    BY <2>2
  <2> QED
    BY <1>1, <2>5, <2>6
<1>6. Complete(mem', last)
  <2> SUFFICES ASSUME NEW i \in Array, i >= PerGroup * (last + 1)
               PROVE  FALSE
    BY DEF Complete
  <2> DEFINE all == PerGroup * InPlaceGroups
  <2>1. all \in Int
    BY <1>2, <1>3, FormatTyped
  <2>2. i \in 0 .. (all - 1) /\ i >= all
    BY <1>3 DEF Array
  <2> HIDE DEF all
  <2> QED
    BY <2>1, <2>2
<1>7. GroupInv(mem', tmp', last, 1, 1)
  BY <1>1, <1>2, <1>3, <1>4, <1>5, <1>6, GroupBegins
<1>8. pc'[1] = last /\ pc'[2] = 1 /\ pc'[3] = 1
  BY <1>1
<1>9. GroupInv(mem', tmp', pc'[1], pc'[2], pc'[3])
  BY <1>7, <1>8, Zenon
<1>10. GroupInv(mem, tmp, pc[1], pc[2], pc[3])'
  BY <1>1, <1>9, GroupPrimed
<1>11. stage' = "inplace" /\ format' \in {"z17", "z19"}
  BY <1>1
<1> QED
  BY <1>10, <1>11, Zenon DEF InPlaceInv

(* polyz_unpack_inplace never overwrites a byte it still has to read: for  *)
(* every size of its buffer the array holds the coefficients at the end.   *)
THEOREM InPlaceCorrect == PackingSpec => []InPlaceRight
<1>1. PackingInit => InPlaceInv
  BY DEF PackingInit, InPlaceInv
<1>2. PackingInv /\ InPlaceInv /\ [PackingNext]_packingVars => InPlaceInv'
  <2> SUFFICES ASSUME PackingInv, InPlaceInv, [PackingNext]_packingVars
               PROVE  InPlaceInv'
    OBVIOUS
  <2>1. CASE Pack
    <3>1. stage' = "bytes"
      BY <2>1, Zenon DEF Pack
    <3> QED
      BY <3>1 DEF InPlaceInv
  <2>2. CASE Unpack
    <3>1. stage' = "read"
      BY <2>2, Zenon DEF Unpack
    <3> QED
      BY <3>1 DEF InPlaceInv
  <2>3. CASE FillBuffer
    BY <2>3, FillBufferBegins
  <2>4. CASE InPlaceTerm
    BY <2>4, InPlaceTermStep
  <2>5. CASE Subtract
    BY <2>5, SubtractKeeps
  <2>6. CASE UNCHANGED packingVars
    <3>1. /\ format' = format /\ bytes' = bytes /\ mem' = mem /\ tmp' = tmp /\ pc' = pc /\ stage' = stage
      BY <2>6, Zenon DEF packingVars, memVars
    <3>2. CASE stage = "inplace"
      <4>1. GroupInv(mem', tmp', pc'[1], pc'[2], pc'[3])
        BY <3>1, <3>2, Zenon DEF InPlaceInv
      <4>2. GroupInv(mem, tmp, pc[1], pc[2], pc[3])'
        BY <3>1, <4>1, GroupPrimed
      <4>3. stage' = "inplace" /\ format' \in {"z17", "z19"}
        BY <3>1, <3>2 DEF InPlaceInv
      <4> QED
        BY <4>2, <4>3, Zenon DEF InPlaceInv
    <3>3. CASE stage = "stored"
      <4>1. PerGroup' = PerGroup /\ Whole' = Whole
        <5>1. Fmt' = Fmt
          BY <3>1, Zenon DEF Fmt
        <5> QED
          BY <3>1, <5>1, SameFormat, Zenon DEF PerGroup
      <4>2. InPlaceRight
        BY <3>3, Zenon DEF InPlaceInv
      <4>3. InPlaceRight'
        BY <3>1, <3>3, <4>1, <4>2, Zenon DEF InPlaceRight, Load
      <4>4. stage' = "stored" /\ format' \in {"z17", "z19"}
        BY <3>1, <3>3 DEF InPlaceInv
      <4> QED
        BY <4>3, <4>4 DEF InPlaceInv
    <3>4. CASE stage \notin {"inplace", "stored"}
      <4>1. stage' \notin {"inplace", "stored"}
        BY <3>1, <3>4
      <4> QED
        BY <4>1 DEF InPlaceInv
    <3> QED
      BY <3>2, <3>3, <3>4
  <2> QED
    BY <2>1, <2>2, <2>3, <2>4, <2>5, <2>6, Zenon DEF PackingNext
<1>3. InPlaceInv => InPlaceRight
  BY DEF InPlaceInv, InPlaceRight
<1> QED
  BY <1>1, <1>2, <1>3, PackingInvariant, PTL DEF PackingSpec

-----------------------------------------------------------------------------
(* The types of the run, whose behaviours do one of the four parts.        *)

RoundingTyped ==
  /\ at \in {"commit", "check", "hint", "verify", "done", "rejected"}
  /\ wcomp \in 0..(Q - 1)
  /\ w1 \in 0..43 /\ w0 \in (1 - Q)..(Q - 1)
  /\ hint \in [Signer -> BOOLEAN]

PackingTyped ==
  /\ stage \in {"coeffs", "bytes", "inplace", "stored", "read"}
  /\ stage = "inplace" => DOMAIN mem = Buffer /\ pc[1] \in 0..(InPlaceGroups - 1)

LEMMA IdleHint == [s \in Signer |-> FALSE] \in [Signer -> BOOLEAN]
OBVIOUS

LEMMA HighRange ==
  ASSUME Inputs
  PROVE  HighBits(gamma2, w) \in 0..43
<1>1. PICK h \in Int : h = HighBits(gamma2, w) /\ Part(gamma2, h, LowBits(gamma2, w))
  BY SMT, InputFacts DEF Splits, Part
<1>2. Top(gamma2) = 44 \/ Top(gamma2) = 16
  BY SMT, InputFacts, Ranges, Tops
<1>3. 0 <= h /\ h <= 43
  BY SMT, <1>1, <1>2 DEF Part
<1> QED
  BY <1>1, <1>3

LEMMA RoundingTypes ==
  ASSUME RoundingInv, RoundingTyped, RoundingNext
  PROVE  RoundingTyped'
<1>1. /\ gamma2 \in Int /\ gamma2 <= 261888
      /\ w \in Int /\ 0 <= w /\ w < Q /\ cs2 \in Int /\ -261888 < cs2 /\ cs2 < 261888
      /\ LowBits(gamma2, w) \in Int /\ -gamma2 <= LowBits(gamma2, w) /\ LowBits(gamma2, w) <= gamma2
  BY SMT, InputFacts, RangeFacts DEF RoundingInv
<1>2. Inputs
  BY DEF RoundingInv
<1>0. PICK l \in Int : l = LowBits(gamma2, w) /\ -261888 <= l /\ l <= 261888
  <2>1. PICK l \in Int, g \in Int : l = LowBits(gamma2, w) /\ g = gamma2
    BY SMT, <1>1
  <2>2. g <= 261888 /\ -g <= l /\ l <= g
    BY SMT, <1>1, <2>1
  <2>3. -261888 <= l /\ l <= 261888
    BY ONLY SMT, <2>2, l \in Int, g \in Int
  <2> QED
    BY SMT, <2>1, <2>3
<1>r. \A x, m \in Int : 1 - m <= x /\ x <= m - 1 => x \in (1 - m)..(m - 1)
  OBVIOUS
<1>q. PICK q \in Int : q = Q /\ q = 8380417
  BY SMT, Tops
<1>s. l = LowBits(gamma2, w) /\ q = Q
  BY SMT, <1>0, <1>q
<1>3. CASE Commit
  <2>1. Freeze(w) \in 0..(Q - 1)
    <3>1. -2000000 <= w /\ w < Q + 2000000
      BY SMT, <1>1, QNat
    <3>2. PICK f \in Int : f = Freeze(w) /\ 0 <= f /\ f < Q
      BY SMT, <1>1, <3>1, Frozen
    <3> QED
      BY SMT, <3>2, QNat
  <2>2. LowBits(gamma2, w) \in (1 - Q)..(Q - 1)
    <3>1. 1 - q <= l /\ l <= q - 1
      BY ONLY SMT, <1>0, <1>q, l \in Int, q \in Int
    <3>2. l \in (1 - q)..(q - 1)
      BY ONLY <1>r, <3>1, l \in Int, q \in Int
    <3> QED
      BY ONLY <1>s, <3>2
  <2>3. w1' = HighBits(gamma2, w) /\ w0' = LowBits(gamma2, w) /\ wcomp' = Freeze(w)
        /\ at' = "check" /\ hint' = hint
    BY <1>3 DEF Commit, Decompose
  <2>4. HighBits(gamma2, w) \in 0..43
    BY <1>2, HighRange
  <2> QED
    BY <2>1, <2>2, <2>3, <2>4 DEF RoundingTyped
<1>4. CASE CheckLowBits
  <2>1. at = "check" /\ w0' = RefRemainder /\ wcomp' = LowramRemainder
        /\ at' \in {"hint", "rejected"} /\ w1' = w1 /\ hint' = hint
    BY <1>4 DEF CheckLowBits
  <2>2. RefRemainder = LowBits(gamma2, w) - cs2 /\ LowramRemainder = Freeze(w - cs2)
    BY <1>2, <2>1, LowChecks DEF RoundingInv
  <2>3. LowBits(gamma2, w) - cs2 \in (1 - Q)..(Q - 1)
    <3>1. PICK s \in Int : s = cs2 /\ -261888 < s /\ s < 261888
      BY SMT, <1>1
    <3>2. 1 - q <= l - s /\ l - s <= q - 1 /\ l - s \in Int
      BY ONLY SMT, <1>0, <1>q, <3>1, l \in Int, s \in Int
    <3>3. l - s \in (1 - q)..(q - 1)
      BY ONLY <1>r, <3>2, q \in Int
    <3>4. s = cs2
      BY SMT, <3>1
    <3> QED
      BY ONLY <1>s, <3>3, <3>4
  <2>4. Freeze(w - cs2) \in 0..(Q - 1)
    <3>1. w - cs2 \in Int /\ -2000000 <= w - cs2 /\ w - cs2 < Q + 2000000
      BY SMT, <1>1, QNat
    <3>2. PICK f \in Int : f = Freeze(w - cs2) /\ 0 <= f /\ f < Q
      BY SMT, <3>1, Frozen
    <3> QED
      BY SMT, <3>2, QNat
  <2> QED
    BY <2>1, <2>2, <2>3, <2>4 DEF RoundingTyped
<1>5. CASE RejectCt0
  BY <1>5 DEF RejectCt0, RoundingTyped
<1>6. CASE Hint
  <2>1. /\ at = "hint" /\ RefCt0Good /\ at' = "verify" /\ w1' = w1 /\ wcomp' = wcomp
        /\ w0' = w0 + Reduce32(Lifted(ct0))
        /\ hint' = [ref    |-> MakeHint(gamma2, w0', w1),
                    lowram |-> MakeHintLowram(gamma2, -ct0, wcomp + ct0),
                    python |-> PyMakeHint(gamma2, (-ct0) % Q, (w - cs2 + ct0) % Q)]
    BY <1>6 DEF Hint
  <2>2. w0' = LowBits(gamma2, w) - cs2 + ct0 /\ Magnitude(ct0) < gamma2
    BY <1>2, <2>1, Ct0Checks DEF RoundingInv, LowGood
  <2>3. w0' \in (1 - Q)..(Q - 1)
    <3>1. ct0 \in Int /\ -4190208 <= ct0 /\ ct0 <= 4190208
      BY SMT, <1>2, InputFacts
    <3>2. PICK c \in Int, s \in Int : c = ct0 /\ s = cs2 /\ -4190208 <= c /\ c <= 4190208
                                         /\ -261888 < s /\ s < 261888
      BY SMT, <1>1, <3>1
    <3>3. 1 - q <= l - s + c /\ l - s + c <= q - 1 /\ l - s + c \in Int
      BY ONLY SMT, <1>0, <1>q, <3>2, l \in Int, s \in Int, c \in Int
    <3>4. l - s + c \in (1 - q)..(q - 1)
      BY ONLY <1>r, <3>3, q \in Int
    <3>5. s = cs2 /\ c = ct0
      BY SMT, <3>2
    <3> QED
      BY ONLY <1>s, <2>2, <3>4, <3>5
  <2>4. hint' \in [Signer -> BOOLEAN]
    <3>1. /\ MakeHint(gamma2, w0', w1) \in BOOLEAN
          /\ MakeHintLowram(gamma2, -ct0, wcomp + ct0) \in BOOLEAN
          /\ PyMakeHint(gamma2, (-ct0) % Q, (w - cs2 + ct0) % Q) \in BOOLEAN
      BY Zenon DEF MakeHint, MakeHintLowram, PyMakeHint
    <3>2. PICK r \in BOOLEAN, lr \in BOOLEAN, p \in BOOLEAN :
            hint' = [ref |-> r, lowram |-> lr, python |-> p]
      BY <2>1, <3>1, Zenon
    <3> QED
      BY <3>2 DEF Signer
  <2> QED
    BY <2>1, <2>3, <2>4 DEF RoundingTyped
<1>7. CASE Verify
  <2>1. at = "verify" /\ at' = "done" /\ w1' = Recovered["ref"]
        /\ w0' = w0 /\ wcomp' = wcomp /\ hint' = hint
    BY <1>7 DEF Verify
  <2>2. "ref" \in Signer
    BY DEF Signer
  <2>4. w1 = HighBits(gamma2, w) /\ Recovered["ref"] = w1
    BY <2>1, <2>2, Zenon DEF RoundingInv, HintRecovers, Committed
  <2>5. w1' = HighBits(gamma2, w)
    BY ONLY <2>1, <2>4
  <2>3. HighBits(gamma2, w) \in 0..43
    BY <1>2, HighRange
  <2> QED
    BY <2>1, <2>3, <2>5 DEF RoundingTyped
<1> QED
  BY <1>3, <1>4, <1>5, <1>6, <1>7 DEF RoundingNext

LEMMA PackingTypes ==
  ASSUME PackingTyped, PackingNext
  PROVE  PackingTyped'
<1>1. format' = format
  BY DEF PackingNext, Pack, Unpack, FillBuffer, InPlaceTerm, Subtract
<1>2. PerGroup' = PerGroup
  BY <1>1, Zenon DEF PerGroup, Fmt
<1>3. Buffer' = Buffer
  BY <1>2, Zenon DEF Buffer
<1>4. CASE Pack
  <2>1. stage' = "bytes"
    BY <1>4, Zenon DEF Pack
  <2> QED
    BY <2>1 DEF PackingTyped
<1>5. CASE Unpack
  <2>1. stage' = "read"
    BY <1>5, Zenon DEF Unpack
  <2> QED
    BY <2>1 DEF PackingTyped
<1>6. CASE FillBuffer
  <2>1. stage' = "inplace" /\ pc' = <<InPlaceGroups - 1, 1, 1>>
        /\ mem' = [n \in Buffer |-> IF n < InPlaceGroups * GroupBytes THEN bytes[n] ELSE {}]
    BY <1>6, Zenon DEF FillBuffer
  <2>2. DOMAIN mem' = Buffer'
    BY <1>3, <2>1
  <2>3. pc'[1] \in 0..(InPlaceGroups - 1)
    BY <2>1, PackingAssumption
  <2> QED
    BY <2>1, <2>2, <2>3 DEF PackingTyped
<1>7. CASE InPlaceTerm
  <2>1. PICK row, r, new :
          /\ stage = "inplace" /\ stage' = stage
          /\ mem' = IF row.local THEN mem ELSE Store(mem, r, new)
          /\ \/ pc' = <<pc[1], pc[2] + 1, 1>>
             \/ pc' = <<pc[1], pc[2], pc[3] + 1>>
    BY <1>7, Zenon DEF InPlaceTerm
  <2>2. DOMAIN mem = Buffer /\ pc[1] \in 0..(InPlaceGroups - 1)
    BY <2>1 DEF PackingTyped
  <2>3. DOMAIN mem' = Buffer'
    BY <1>3, <2>1, <2>2 DEF Store
  <2>4. pc'[1] = pc[1]
    BY <2>1
  <2> QED
    BY <2>1, <2>2, <2>3, <2>4 DEF PackingTyped
<1>8. CASE Subtract
  <2>1. /\ stage = "inplace" /\ pc' = <<pc[1] - 1, 1, 1>>
        /\ stage' = IF pc[1] = 0 THEN "stored" ELSE "inplace"
        /\ DOMAIN mem' = Buffer
    BY <1>8, Zenon DEF Subtract
  <2>2. pc[1] \in 0..(InPlaceGroups - 1)
    BY <2>1 DEF PackingTyped
  <2>3. stage' = "inplace" => pc'[1] \in 0..(InPlaceGroups - 1)
    BY <2>1, <2>2, PackingAssumption
  <2> QED
    BY <1>3, <2>1, <2>3 DEF PackingTyped
<1> QED
  BY <1>4, <1>5, <1>6, <1>7, <1>8 DEF PackingNext

LEMMA IndexTypes ==
  ASSUME BufferInv, index \in 0..N, BufferNext
  PROVE  index' \in 0..N
<1>1. N \in Nat /\ N > 0 /\ N % 2 = 0
  BY BufferAssumption
<1>2. CASE Narrow
  <2>1. step = "narrow" /\ index' = IF index = 0 THEN N - 1 ELSE index - 1
    BY <1>2 DEF Narrow
  <2> QED
    BY <1>1, <2>1
<1>3. CASE TransformChallenge
  BY <1>3 DEF TransformChallenge
<1>4. CASE UnpackSecret
  <2>1. index' = 0
    BY <1>4, Zenon DEF UnpackSecret
  <2> QED
    BY <1>1, <2>1
<1>5. CASE Multiply
  <2>1. step = "multiply" /\ index' = index + 2
    BY <1>5, Zenon DEF Multiply
  <2>2. index \in 0..(N - 1) /\ index % 2 = 0
    BY <2>1, Zenon DEF BufferInv, MultiplyingInv, Coeff
  <2>3. index + 2 <= N
    BY ONLY <1>1, <2>2
  <2> QED
    BY ONLY <1>1, <2>1, <2>2, <2>3
<1>6. CASE Invert
  <2>1. index' = N - 1
    BY <1>6, Zenon DEF Invert
  <2> QED
    BY <1>1, <2>1
<1>7. CASE Widen
  <2>1. index' = IF index = 0 THEN 0 ELSE index - 1
    BY <1>7 DEF Widen
  <2> QED
    BY <1>1, <2>1
<1> QED
  BY <1>2, <1>3, <1>4, <1>5, <1>6, <1>7 DEF BufferNext

(* What a behaviour that does not round, or not pack, keeps in the         *)
(* variables of that part has these types as well.                         *)
PartsInv ==
  /\ part \in {"rounding", "packing", "buffer", "transform"}
  /\ RoundingTyped /\ PackingTyped /\ index \in 0..N
  /\ BufferInv
  /\ part = "rounding" => RoundingInv

LEMMA PartsInitial ==
  ASSUME Init
  PROVE  PartsInv
<1>1. /\ part \in {"rounding", "packing", "buffer", "transform"}
      /\ PackingInit /\ BufferInit
      /\ RoundingInit \/ RoundingIdle
      /\ part = "rounding" => RoundingInit
  BY DEF Init, PackingIdle
<1>2. RoundingTyped
  <2>1. /\ w1 = 0 /\ w0 = 0 /\ wcomp = 0 /\ at \in {"commit", "rejected"}
        /\ hint = [s \in Signer |-> FALSE]
    BY <1>1 DEF RoundingInit, RoundingIdle
  <2>2. 0 \in 0..43 /\ 0 \in 0..(Q - 1) /\ 0 \in (1 - Q)..(Q - 1)
    BY SMT, QNat
  <2>3. hint \in [Signer -> BOOLEAN]
    BY <2>1, IdleHint
  <2> QED
    BY <2>1, <2>2, <2>3 DEF RoundingTyped
<1>3. PackingTyped
  <2>1. stage = "coeffs"
    BY <1>1, Zenon DEF PackingInit
  <2> QED
    BY <2>1 DEF PackingTyped
<1>4. BufferInv /\ index \in 0..N
  <2>1. index = N - 1
    BY <1>1, Zenon DEF BufferInit
  <2> QED
    BY <1>1, <2>1, InvInit, NPositive
<1>5. part = "rounding" => RoundingInv
  BY <1>1, RoundingInitial
<1> QED
  BY <1>1, <1>2, <1>3, <1>4, <1>5, Zenon DEF PartsInv

LEMMA RoundingRests ==
  ASSUME UNCHANGED roundingVars, RoundingTyped
  PROVE  RoundingTyped'
BY DEF roundingVars, RoundingTyped

LEMMA PackingRests ==
  ASSUME UNCHANGED packingVars, PackingTyped
  PROVE  PackingTyped'
<1>1. UNCHANGED <<stage, mem, pc, format>>
  BY DEF packingVars, memVars
<1>2. Buffer' = Buffer
  BY <1>1, Zenon DEF Buffer, PerGroup, Fmt
<1> QED
  BY <1>1, <1>2, Zenon DEF PackingTyped

LEMMA PartsStep ==
  ASSUME PartsInv, [Next]_vars
  PROVE  PartsInv'
<1>1. part' = part
  BY DEF Next, vars
<1>2. RoundingTyped' /\ (part' = "rounding" => RoundingInv')
  <2>1. CASE part = "rounding" /\ RoundingNext
    <3>1. [RoundingNext]_roundingVars
      BY <2>1
    <3> QED
      BY <2>1, <3>1, RoundingStep, RoundingTypes DEF PartsInv
  <2>2. CASE UNCHANGED roundingVars
    <3>1. [RoundingNext]_roundingVars
      BY <2>2
    <3> QED
      BY <1>1, <2>2, <3>1, RoundingStep, RoundingRests DEF PartsInv
  <2>3. (part = "rounding" /\ RoundingNext) \/ UNCHANGED roundingVars
    BY DEF Next, vars
  <2> QED
    BY <2>1, <2>2, <2>3
<1>3. PackingTyped'
  <2>1. PackingNext \/ UNCHANGED packingVars
    BY DEF Next, vars
  <2> QED
    BY <2>1, PackingTypes, PackingRests DEF PartsInv
<1>4. BufferInv' /\ index' \in 0..N
  <2>1. BufferNext \/ UNCHANGED bufferVars
    BY DEF Next, vars
  <2>2. CASE BufferNext
    BY <2>2, InvNext, IndexTypes DEF PartsInv
  <2>3. CASE UNCHANGED bufferVars
    <3>1. index' = index
      BY <2>3 DEF bufferVars
    <3> QED
      BY <2>3, <3>1, InvNext DEF PartsInv
  <2> QED
    BY <2>1, <2>2, <2>3
<1> QED
  BY <1>1, <1>2, <1>3, <1>4, Zenon DEF PartsInv

(* For every parameter set and every choice of inputs: between its steps,  *)
(* the coefficient of w that c-lowram keeps in 24 bits is a residue, so    *)
(* that none of its bits is cut; the parts that c-ref keeps stay in the    *)
(* range of decompose; polyz_unpack_inplace writes inside its buffer; and  *)
(* the indices of the loops over the union stay within it.                 *)
THEOREM TypeCorrect == Spec => []TypeOK
<1>1. Init => PartsInv
  BY PartsInitial
<1>2. PartsInv /\ [Next]_vars => PartsInv'
  BY PartsStep
<1>3. PartsInv => TypeOK
  BY DEF PartsInv, RoundingTyped, PackingTyped, TypeOK
<1> QED
  BY <1>1, <1>2, <1>3, PTL DEF Spec
================================================================================
