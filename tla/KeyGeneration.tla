---------------------------- MODULE KeyGeneration ----------------------------
(***************************************************************************)
(* crypto_sign_keypair of c-ref and of c-lowram on the same seed.  c-ref   *)
(* expands the whole matrix and the whole of s1 and s2, and packs the keys *)
(* at the end.  c-lowram has three polynomials: it samples s1 again for    *)
(* every row of A, packs a piece of a key when it has it, and hashes the   *)
(* public key where the third polynomial was.                              *)
(*                                                                         *)
(* A polynomial is the seed's name and the nonce it was sampled with, and  *)
(* a key is a function from byte offsets to what was packed there.  The    *)
(* signers read c-ref's key by moving a pointer (unpack_sk), c-lowram's by *)
(* computing offsets, and Python by slices.                                *)
(***************************************************************************)
EXTENDS Integers, Sequences

CONSTANT Level   \* the parameter sets: [k, l, eta, t1, t0, rows of A and
                 \* columns, and the bytes of a packed polynomial of each kind]

SEEDBYTES == 32
TRBYTES == 64

(* A packed t0 has POLYT0_PACKEDBYTES, 416, which Python writes out. *)
ASSUME LevelAssumption ==
  Level \subseteq [k : Nat \ {0}, l : Nat \ {0}, eta : Nat \ {0}, t1 : Nat \ {0}, t0 : {416}]

VARIABLES
  level,
  refDone,               \* where the reference stands
  mat, s1, s2, t,        \* its matrices and vectors
  refPk, refSk,
  lowAt, atRow, atCol,       \* where c-lowram stands, and its loops
  tA, tB, tC,            \* its polynomials; tC shares its bytes with tr
  pk, sk

refKeyVars == <<refDone, mat, s1, s2, t, refPk, refSk>>
lowKeyVars == <<lowAt, atRow, atCol, tA, tB, tC, pk, sk>>
keyVars == <<level, refKeyVars, lowKeyVars>>

Row == 0..(level.k - 1)
Col == 0..(level.l - 1)

Blank == <<>>                              \* memory nobody has written
Empty == [offset \in {} |-> Blank]

Uniform(nonce) == <<"A", nonce>>
Eta(nonce) == <<"eta", nonce, "plain">>
Ntt(p) == <<p[1], p[2], "ntt">>
Product(a, s) == <<a, s>>

Written(bytes, offset, piece) ==
  [o \in {offset} \cup DOMAIN bytes |-> IF o = offset THEN piece ELSE bytes[o]]

(* The parts t1 and t0 of t = the sum of the products + the error vector. *)
High(sum, error) == <<"t1", sum, error>>
Low(sum, error) == <<"t0", sum, error>>

KeyInit ==
  /\ level \in Level
  /\ refDone = "seed"
  /\ mat = Blank /\ s1 = Blank /\ s2 = Blank /\ t = Blank
  /\ refPk = Empty /\ refSk = Empty
  /\ lowAt = "seed" /\ atRow = 0 /\ atCol = 0
  /\ tA = Blank /\ tB = Blank /\ tC = Blank
  /\ pk = Empty /\ sk = Empty

-----------------------------------------------------------------------------
(* c-ref                                                                   *)

(* polyvec_matrix_expand *)
Expanded == [i \in Row |-> [j \in Col |-> Uniform(256 * i + j)]]

(* polyvecl_uniform_eta and polyveck_uniform_eta *)
SampledFrom(nonce, rows) == [i \in rows |-> Eta(nonce + i)]

RefSample ==
  /\ refDone = "seed"
  /\ mat' = Expanded
  /\ s1' = SampledFrom(0, Col)
  /\ s2' = SampledFrom(level.l, Row)
  /\ refDone' = "sampled"
  /\ UNCHANGED <<level, t, refPk, refSk, lowKeyVars>>

(* polyvecl_pointwise_acc_montgomery, of the copy of s1 in NTT form. *)
AccMontgomery(a, v) == [n \in 1..level.l |-> Product(a[n - 1], Ntt(v[n - 1]))]

RefMultiply ==
  /\ refDone = "sampled"
  /\ t' = [i \in Row |-> [sum |-> AccMontgomery(mat[i], s1), error |-> s2[i]]]
  /\ refDone' = "multiplied"
  /\ UNCHANGED <<level, mat, s1, s2, refPk, refSk, lowKeyVars>>

(* `n` pieces of `size` bytes, from the offset on. *)
Packed(offset, n, size, pieces) ==
  [o \in {offset + size * i : i \in 0..(n - 1)} |-> pieces[(o - offset) \div size]]

(* Pieces behind pieces. *)
Behind(first, second) ==
  [o \in DOMAIN first \cup DOMAIN second |-> IF o \in DOMAIN first THEN first[o] ELSE second[o]]

(* pack_pk *)
PackPk(t1) == Written(Packed(SEEDBYTES, level.k, level.t1, t1), 0, <<"rho">>)

(* The pointer of pack_sk and unpack_sk at the vectors. *)
AtS1 == 2 * SEEDBYTES + TRBYTES
AtS2 == AtS1 + level.l * level.eta
AtT0 == AtS2 + level.k * level.eta

(* pack_sk *)
PackSk(tr, t0) ==
  LET vectors == Behind(Packed(AtS1, level.l, level.eta, s1),
                   Behind(Packed(AtS2, level.k, level.eta, s2),
                          Packed(AtT0, level.k, level.t0, t0)))
  IN Written(Written(Written(vectors, 2 * SEEDBYTES, tr), SEEDBYTES, <<"key">>), 0, <<"rho">>)

RefPack ==
  /\ refDone = "multiplied"
  /\ refPk' = PackPk([i \in Row |-> High(t[i].sum, t[i].error)])
  /\ refSk' = PackSk(<<"tr", refPk'>>, [i \in Row |-> Low(t[i].sum, t[i].error)])
  /\ refDone' = "packed"
  /\ UNCHANGED <<level, mat, s1, s2, t, lowKeyVars>>

-----------------------------------------------------------------------------
(* c-lowram                                                                *)

(* pack_sk_rho, pack_sk_key and pack_pk_rho *)
LowStart ==
  /\ lowAt = "seed"
  /\ sk' = Written(Written(sk, 0, <<"rho">>), SEEDBYTES, <<"key">>)
  /\ pk' = Written(pk, 0, <<"rho">>)
  /\ lowAt' = "rows"
  /\ UNCHANGED <<level, atRow, atCol, tA, tB, tC, refKeyVars>>

(* The offsets pack_sk_s1, pack_sk_s2, pack_sk_t0 and pack_pk_t1 write to. *)
S1Offset(i) == 2 * SEEDBYTES + TRBYTES + i * level.eta
S2Offset(i) == 2 * SEEDBYTES + TRBYTES + level.l * level.eta + i * level.eta
T0Offset(i) ==
  2 * SEEDBYTES + TRBYTES + level.l * level.eta + level.k * level.eta + i * level.t0
T1Offset(i) == SEEDBYTES + i * level.t1

(* A column of s1 is packed when it is sampled for the first row. *)
PackS1 == IF atRow = 0 THEN Written(sk, S1Offset(atCol), Eta(atCol)) ELSE sk

LowColumn ==
  /\ lowAt = "rows"
  /\ atRow < level.k
  /\ atCol < level.l
  /\ sk' = PackS1
  /\ tC' = Ntt(Eta(atCol))
  /\ tB' = Uniform(256 * atRow + atCol)
  /\ tA' = IF atCol = 0 THEN <<Product(tB', tC')>> ELSE Append(tA, Product(tB', tC'))
  /\ atCol' = atCol + 1
  /\ UNCHANGED <<level, lowAt, atRow, pk, refKeyVars>>

(* A slip: the error vector is sampled with the nonces of s1. *)
ErrorNonceFromZero == atRow

ErrorNonce == level.l + atRow

LowRow ==
  /\ lowAt = "rows"
  /\ atRow < level.k
  /\ atCol = level.l
  /\ tC' = High(tA, Eta(ErrorNonce))
  /\ tB' = Low(tA, Eta(ErrorNonce))
  /\ sk' = Written(Written(sk, S2Offset(atRow), Eta(ErrorNonce)), T0Offset(atRow), tB')
  /\ pk' = Written(pk, T1Offset(atRow), tC')
  /\ atRow' = atRow + 1
  /\ atCol' = 0
  /\ UNCHANGED <<level, lowAt, tA, refKeyVars>>

(* tr is written over tC, and pack_sk_tr into the key. *)
LowHash ==
  /\ lowAt = "rows"
  /\ atRow = level.k
  /\ tC' = <<"tr", pk>>
  /\ sk' = Written(sk, 2 * SEEDBYTES, tC')
  /\ lowAt' = "packed"
  /\ UNCHANGED <<level, atRow, atCol, tA, tB, pk, refKeyVars>>

KeyNext == RefSample \/ RefMultiply \/ RefPack \/ LowStart \/ LowColumn \/ LowRow \/ LowHash

-----------------------------------------------------------------------------
(* The readers: what each takes from a secret key.                         *)

(* unpack_sk *)
UnpackSk(key) ==
  [rho |-> key[0], key |-> key[SEEDBYTES], tr |-> key[2 * SEEDBYTES],
   s1 |-> [i \in Col |-> key[AtS1 + i * level.eta]],
   s2 |-> [i \in Row |-> key[AtS2 + i * level.eta]],
   t0 |-> [i \in Row |-> key[AtT0 + i * level.t0]]]

(* The pointer that the low-RAM signer hands to poly_schoolbook. *)
T0Pointer(i) ==
  SEEDBYTES + TRBYTES + SEEDBYTES + level.l * level.eta + level.k * level.eta + i * level.t0

(* unpack_sk_s1 and unpack_sk_s2 *)
ReadLowram(key) ==
  [rho |-> key[0], key |-> key[SEEDBYTES], tr |-> key[2 * SEEDBYTES],
   s1 |-> [i \in Col |-> key[2 * SEEDBYTES + TRBYTES + i * level.eta]],
   s2 |-> [i \in Row |-> key[2 * SEEDBYTES + TRBYTES + level.l * level.eta + i * level.eta]],
   t0 |-> [i \in Row |-> IF T0Pointer(i) \in DOMAIN key THEN key[T0Pointer(i)] ELSE Blank]]

(* _sk_size and _unpack_sk: t0 is the last t0_len bytes, whatever precedes. *)
PySkSize == 2 * 32 + 64 + level.eta * level.l + level.eta * level.k + 416 * level.k
PyUnpackSk(key) ==
  [rho |-> key[0], key |-> key[32], tr |-> key[64],
   s1 |-> [i \in Col |-> key[128 + i * level.eta]],
   s2 |-> [i \in Row |-> key[128 + level.eta * level.l + i * level.eta]],
   t0 |-> [i \in Row |-> key[PySkSize - 416 * level.k + i * level.t0]]]

-----------------------------------------------------------------------------
(* Properties                                                              *)

(* The two implementations make the same pair of keys of a seed, byte for  *)
(* byte of its layout: every nonce, every place in the keys, and the hash  *)
(* of the complete public key.                                             *)
SameKeys ==
  (refDone = "packed" /\ lowAt = "packed") => pk = refPk /\ sk = refSk

(* What every signer reads from a key is what went into it: the vectors    *)
(* sampled, not in NTT form, and the low part of t with the tr of the key. *)
ReadersAgree ==
  (lowAt = "packed") =>
    /\ ReadLowram(sk) = UnpackSk(sk)
    /\ PyUnpackSk(sk) = UnpackSk(sk)
    /\ UnpackSk(sk).s1 = [i \in Col |-> Eta(i)]
    /\ UnpackSk(sk).s2 = [i \in Row |-> Eta(level.l + i)]
    /\ \A i \in Row : UnpackSk(sk).t0[i] = Low(pk[T1Offset(i)][2], Eta(level.l + i))
    /\ UnpackSk(sk).tr = <<"tr", pk>>

(* Whichever implementation made a key and whichever signs with it, they   *)
(* mean the same key.                                                      *)
KeysAgree == SameKeys /\ ReadersAgree
=============================================================================
