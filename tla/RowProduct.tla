------------------------------- MODULE RowProduct -------------------------------
(***************************************************************************)
(* The products that the transforms are for, computed three times from     *)
(* tables and loops that have nothing in common: a row A*z - c*t1*2^d of   *)
(* the verification by ntt and invntt_tomont of c-ref, which count through *)
(* one table of Montgomery forms, forwards and backwards; the same row by  *)
(* nttFw and nttInv of the contracts, which find an entry in one of two    *)
(* tables by the layer and the block; and the product of the challenge and *)
(* a secret by the incomplete transform of c-lowram, which stops at pairs  *)
(* of coefficients.                                                        *)
(*                                                                         *)
(* A coefficient is its residue: what sizes it takes in C is the business  *)
(* of Butterflies and Transforms.  The fields and the degree are constants,*)
(* the tables are the powers of the root that precomp.gp generates.  A     *)
(* step is one block of a layer: its butterflies touch disjoint pairs.     *)
(***************************************************************************)
EXTENDS Integers, Sequences, Sums

CONSTANTS
  Size,                              \* N, a power of two
  Modulus, Root, Mont,               \* q, a primitive 2N-th root, 2^32
  SmallModulus, SmallRoot, SmallMont,  \* 3329, a primitive N-th root, 2^16
  Lanes,                             \* coefficients in a word of a contract's key
  TwoToD,                            \* 2^d
  RowLen,    \* L, the columns of the matrix
  Row,       \* the inputs of a verification: [A, z, c, t1], A and z by columns
  Secret     \* the inputs of a signer's product: [c, s]

Coeffs == 0..(Size - 1)
Column == 0..(RowLen - 1)

(* The product modulo X^N + 1, over the integers. *)
Product(x, y) ==
  [n \in Coeffs |->
     SumBelow([i \in Coeffs |-> x[i] * (IF i <= n THEN y[n - i] ELSE -y[n - i + Size])], Size)]

(* The degree of the code is 256; the roots have an even order, twice that *)
(* of the blocks that are left, and one can divide by what the loops leave *)
(* behind.  A challenge has few coefficients, a secret small ones: what    *)
(* c-lowram multiplies stays below half its modulus.                       *)
ASSUME RowProductAssumption ==
  /\ Size \in {4, 8, 16, 32, 64, 128, 256}
  /\ Modulus \in Nat /\ Modulus > 1 /\ Root \in Nat /\ Mont \in Nat
  /\ PowerMod(Root, Size, Modulus) = Modulus - 1
  /\ \A x \in {Mont, Size} : \E y \in 1..(Modulus - 1) : (x * y) % Modulus = 1
  /\ SmallModulus \in Nat /\ SmallModulus > 1 /\ SmallRoot \in Nat /\ SmallMont \in Nat
  /\ PowerMod(SmallRoot, Size \div 2, SmallModulus) = SmallModulus - 1
  /\ \A x \in {SmallMont, Size \div 2} : \E y \in 1..(SmallModulus - 1) : (x * y) % SmallModulus = 1
  /\ Lanes \in Nat \ {0} /\ Size % Lanes = 0
  /\ TwoToD \in Int
  /\ RowLen \in Nat
  /\ Row \subseteq [A : [Column -> [Coeffs -> Int]], z : [Column -> [Coeffs -> Int]],
                    c : [Coeffs -> Int], t1 : [Coeffs -> Int]]
  /\ Secret \subseteq [c : [Coeffs -> Int], s : [Coeffs -> Int]]
  /\ \A in \in Secret, n \in Coeffs :
        -SmallModulus < 2 * Product(in.c, in.s)[n] /\ 2 * Product(in.c, in.s)[n] < SmallModulus

VARIABLES
  impl,              \* whose code runs
  input,
  todo,              \* the operands that are still to be transformed
  hat,               \* the ones that have been
  a,                 \* the polynomial in the hands of a transform
  loop, len, start, k  \* its loops, and its place in the table

productVars == <<impl, input, todo, hat, a, loop, len, start, k>>

Lowram == impl = "c-lowram"
Contract == impl \in {"ZKNOX_dilithium", "ZKNOX_ethdilithium"}

-----------------------------------------------------------------------------
(* The fields and the tables                                               *)

q == IF Lowram THEN SmallModulus ELSE Modulus

ModInverse(x) == CHOOSE y \in 1..(q - 1) : (x * y) % q = 1

Power(x, n) == PowerMod(x, n, q)

(* The bits of m, of which there are as many as n has, the other way round *)
Reversed(n, m) ==
  LET brv[i \in 0..(n - 1)] == IF i = 0 THEN 0 ELSE brv[i \div 2] \div 2 + (i % 2) * (n \div 2)
  IN brv[m]

zetas == [i \in Coeffs |-> IF i = 0 THEN 0 ELSE (Mont * Power(Root, Reversed(Size, i))) % q]

psirev == [i \in Coeffs |-> Power(Root, Reversed(Size, i))]
psirevInverse == [i \in Coeffs |-> Power(Root, 2 * Size - Reversed(Size, i))]

small_zetas ==
  [i \in 0..(Size \div 2 - 1) |-> (SmallMont * Power(SmallRoot, Reversed(Size \div 2, i))) % q]

montgomery_reduce(x) == (x * ModInverse(Mont)) % q
fqmul(x, y) == (x * y * ModInverse(SmallMont)) % q

-----------------------------------------------------------------------------
(* Keys of the contracts: words of several coefficients                    *)

compact(p) ==
  [w \in 0..(Size \div Lanes - 1) |-> [lane \in 0..(Lanes - 1) |-> p[w * Lanes + lane]]]

expand(words) == [i \in Coeffs |-> words[i \div Lanes][i % Lanes]]

-----------------------------------------------------------------------------
(* What is to be computed, by definition                                   *)

(* The values at the odd powers of the root, in the order in which the     *)
(* transforms give them.                                                   *)
Values(p) ==
  [i \in Coeffs |->
     SumBelow([n \in Coeffs |-> (p[n] * Power(Root, (2 * Reversed(Size, i) + 1) * n)) % q], Size) % q]

RowByDefinition ==
  [n \in Coeffs |->
     (SumBelow([j \in Column |-> Product(input.A[j], input.z[j])[n]], RowLen)
        - TwoToD * Product(input.c, input.t1)[n]) % q]

-----------------------------------------------------------------------------
(* The operands                                                            *)

Residues(p) == [i \in Coeffs |-> p[i] % q]

(* The matrix is sampled transformed, and a contract has it in its key;    *)
(* with pk_for_eth, also t1 is scaled and transformed before.              *)
ScaledT1 == [i \in Coeffs |-> (input.t1[i] * TwoToD) % q]

Given ==
  IF Lowram THEN {}
  ELSE {<<"A", j>> : j \in Column} \cup IF impl = "ZKNOX_ethdilithium" THEN {<<"t1", 1>>} ELSE {}

InKey(name) ==
  LET p == IF name[1] = "A" THEN Values(input.A[name[2]]) ELSE Values(ScaledT1)
  IN IF Contract THEN expand(compact(p)) ELSE p

(* poly_shiftl, or t1New[i][j] <<= d of what the contract has in its key *)
Operand(name) ==
  CASE name[1] = "z" -> Residues(input.z[name[2]])
    [] name[1] = "c" -> Residues(input.c)
    [] name[1] = "s" -> Residues(input.s)
    [] name[1] = "t1" -> IF Contract THEN expand(compact(ScaledT1)) ELSE ScaledT1

Columns == [j \in 1..RowLen |-> <<"z", j - 1>>]

(* The order in which each transforms them. *)
Operands ==
  CASE impl = "c-ref" -> Columns \o <<<<"c", 1>>, <<"t1", 1>>>>
    [] impl = "ZKNOX_dilithium" -> <<<<"c", 1>>, <<"t1", 1>>>> \o Columns
    [] impl = "ZKNOX_ethdilithium" -> <<<<"c", 1>>>> \o Columns
    [] Lowram -> <<<<"c", 1>>, <<"s", 1>>>>

ProductInit ==
  /\ \/ impl \in {"c-ref", "ZKNOX_dilithium", "ZKNOX_ethdilithium"} /\ input \in Row
     \/ impl = "c-lowram" /\ input \in Secret
  /\ todo = Operands
  /\ hat = [name \in Given |-> InKey(name)]
  /\ a = [i \in Coeffs |-> 0]
  /\ loop = "none" /\ len = 0 /\ start = 0 /\ k = 0

-----------------------------------------------------------------------------
(* The forward transforms                                                  *)

SmallestLen == IF Lowram THEN 2 ELSE 1

(* k = 0 before ++k in ntt, k = 1 before k++ in small_ntt. *)
EnterForward ==
  /\ loop = "none"
  /\ todo # <<>>
  /\ a' = Operand(Head(todo))
  /\ loop' = "forward"
  /\ len' = Size \div 2 /\ start' = 0
  /\ k' = IF Lowram THEN 1 ELSE 0
  /\ UNCHANGED <<impl, input, todo, hat>>

(* The block of butterflies from start on, with t = term[j + len]. *)
ForwardBlock(term) ==
  /\ loop = "forward" /\ len >= SmallestLen
  /\ a' = [i \in Coeffs |->
             CASE i \in start..(start + len - 1) -> (a[i] + term[i + len]) % q
               [] i \in (start + len)..(start + 2 * len - 1) -> (a[i - len] - term[i]) % q
               [] OTHER -> a[i]]
  /\ IF start + 2 * len < Size THEN start' = start + 2 * len /\ len' = len
                               ELSE start' = 0 /\ len' = len \div 2
  /\ UNCHANGED <<impl, input, todo, hat, loop>>

ntt ==
  /\ impl = "c-ref"
  /\ k' = k + 1
  /\ ForwardBlock([i \in Coeffs |-> montgomery_reduce(zetas[k'] * a[i])])

(* m blocks in a layer, with t = n / (2 * m): entry m + i for block i.     *)
PerLayer == Size \div (2 * len)
Block == start \div (2 * len)

nttFw ==
  /\ Contract
  /\ ForwardBlock([i \in Coeffs |-> (psirev[PerLayer + Block] * a[i]) % q])
  /\ UNCHANGED k

small_ntt ==
  /\ Lowram
  /\ ForwardBlock([i \in Coeffs |-> fqmul(small_zetas[k], a[i])])
  /\ k' = k + 1

Transformed ==
  /\ loop = "forward" /\ len < SmallestLen
  /\ hat' = [name \in DOMAIN hat \cup {Head(todo)} |-> IF name = Head(todo) THEN a ELSE hat[name]]
  /\ todo' = Tail(todo)
  /\ loop' = "none"
  /\ UNCHANGED <<impl, input, a, len, start, k>>

-----------------------------------------------------------------------------
(* The products of transformed operands                                    *)

EnterInverse ==
  /\ loop = "none"
  /\ todo = <<>>
  /\ loop' = "inverse"
  /\ len' = SmallestLen /\ start' = 0
  /\ UNCHANGED <<impl, input, todo, hat>>

(* polyvec_matrix_pointwise_montgomery, minus cp * t1; k = 256 before --k. *)
PointwiseRow ==
  /\ impl = "c-ref"
  /\ EnterInverse
  /\ a' = [i \in Coeffs |->
            (SumBelow([j \in Column |-> montgomery_reduce(hat[<<"A", j>>][i] * hat[<<"z", j>>][i])], RowLen)
               - montgomery_reduce(hat[<<"c", 1>>][i] * hat[<<"t1", 1>>][i])) % q]
  /\ k' = Size

(* The sum of a row is reduced once, at its end. *)
matVecProduct ==
  [i \in Coeffs |->
     SumBelow([j \in Column |-> (hat[<<"A", j>>][i] * hat[<<"z", j>>][i]) % q], RowLen) % q]

vecMulMod(x, y) == [i \in Coeffs |-> (x[i] * y[i]) % q]
vecSubMod(x, y) == [i \in Coeffs |-> (x[i] + (q - y[i])) % q]

dilithiumCore2 ==
  /\ Contract
  /\ EnterInverse
  /\ a' = vecSubMod(matVecProduct, vecMulMod(hat[<<"t1", 1>>], hat[<<"c", 1>>]))
  /\ UNCHANGED k

(* Pairs are products modulo X^2 - zeta and X^2 + zeta by turns.           *)
PairZeta(i) ==
  LET zeta == small_zetas[Size \div 4 + i \div 4] IN IF i % 4 < 2 THEN zeta ELSE -zeta

small_basemul ==
  /\ Lowram
  /\ EnterInverse
  /\ LET x == hat[<<"c", 1>>]
         y == hat[<<"s", 1>>]
     IN a' = [i \in Coeffs |->
               IF i % 2 = 0
               THEN (fqmul(fqmul(x[i + 1], y[i + 1]), PairZeta(i)) + fqmul(x[i], y[i])) % q
               ELSE (fqmul(x[i - 1], y[i]) + fqmul(x[i], y[i - 1])) % q]
  /\ k' = Size \div 2 - 1

-----------------------------------------------------------------------------
(* The inverse transforms                                                  *)

(* The block from start on; the difference is a[start + ..] minus the      *)
(* other, times factor.                                                    *)
InverseBlock(factor) ==
  /\ loop = "inverse" /\ len < Size
  /\ a' = [i \in Coeffs |->
             CASE i \in start..(start + len - 1) -> (a[i] + a[i + len]) % q
               [] i \in (start + len)..(start + 2 * len - 1) -> (factor * (a[i - len] - a[i])) % q
               [] OTHER -> a[i]]
  /\ IF start + 2 * len < Size THEN start' = start + 2 * len /\ len' = len
                               ELSE start' = 0 /\ len' = 2 * len
  /\ UNCHANGED <<impl, input, todo, hat, loop>>

(* A slip: the table is read from its last entry on, but not negated. *)
InverseZetaPositive == montgomery_reduce(zetas[k - 1])

(* -zetas[--k] *)
InverseZeta == montgomery_reduce(-zetas[k - 1])

invntt_tomont ==
  /\ impl = "c-ref"
  /\ InverseBlock(InverseZeta)
  /\ k' = k - 1

nttInv ==
  /\ Contract
  /\ InverseBlock(psirevInverse[PerLayer + Block])
  /\ UNCHANGED k

(* small_zetas[k--], with the difference the other way round. *)
small_invntt_tomont ==
  /\ Lowram
  /\ InverseBlock(-fqmul(small_zetas[k], 1))
  /\ k' = k - 1

(* f = mont^2/256, f = mont^2/128, and the inverse of n.                   *)
ScaleFactor ==
  CASE impl = "c-ref" -> montgomery_reduce(Mont * Mont * ModInverse(Size))
    [] Contract -> ModInverse(Size)
    [] Lowram -> fqmul(SmallMont * SmallMont, ModInverse(Size \div 2))

ScaleAll ==
  /\ loop = "inverse" /\ len = Size
  /\ a' = [i \in Coeffs |-> (a[i] * ScaleFactor) % q]
  /\ loop' = "done"
  /\ UNCHANGED <<impl, input, todo, hat, len, start, k>>

ProductNext ==
  \/ EnterForward \/ ntt \/ nttFw \/ small_ntt \/ Transformed
  \/ PointwiseRow \/ dilithiumCore2 \/ small_basemul
  \/ invntt_tomont \/ nttInv \/ small_invntt_tomont \/ ScaleAll

ProductSpec == ProductInit /\ [][ProductNext]_productVars

-----------------------------------------------------------------------------
(* Properties                                                              *)

(* The tables, the order of the loops and the factors of three             *)
(* implementations cancel: a row is A*z - c*t1*2^d, the same in the C      *)
(* verifier and in both contracts, whatever form the key has.              *)
RowRight == loop = "done" /\ ~Lowram => a = RowByDefinition

Centred(x) == IF 2 * x > q THEN x - q ELSE x

(* barrett_reduce leaves the product of the challenge and a secret itself, *)
(* not only its residue.                                                   *)
SecretProductRight ==
  loop = "done" /\ Lowram => [i \in Coeffs |-> Centred(a[i])] = Product(input.c, input.s)

(* Every product of polynomials that a signature or its verification needs *)
(* is the product in the ring.                                             *)
ProductsRight == RowRight /\ SecretProductRight
=============================================================================
