------------------------------ MODULE Challenge ------------------------------
(***************************************************************************)
(* SampleInBall and what becomes of its result.  Five implementations read *)
(* one stream of bytes through buffers of different sizes: poly_challenge  *)
(* takes a block of SHAKE-256, poly_challenge_eth eight bytes and then 64  *)
(* at a time, poly_challenge_lowram eight at a time, the contracts and     *)
(* Python single bytes.  c-lowram then compresses the challenge to the     *)
(* positions and signs of its TAU coefficients, uses its buffer for other  *)
(* things, and unpacks or multiplies with the compressed form for every    *)
(* row.                                                                    *)
(***************************************************************************)
EXTENDS Integers, Sequences, FiniteSets

CONSTANTS
  Size,       \* N, 256: the coefficients, and the values of a byte
  TAU,        \* the coefficients that are not zero
  SignBytes,  \* 8: the bytes at the start of the stream that give the signs
  Requests,   \* the sizes of the first and of every later request
  StreamLen,  \* bytes of the stream that vary; behind them all are 0
  T           \* the packed polynomial t0 or t1

ASSUME ChallengeAssumption ==
  /\ Size \in Nat /\ TAU \in 1..Size
  /\ SignBytes \in Nat \ {0} /\ StreamLen \in Nat
  /\ Requests \subseteq [first : Nat \ {0}, later : Nat \ {0}]
  /\ \A r \in Requests : r.first >= SignBytes
  /\ T \in [0..(Size - 1) -> Int]

VARIABLES
  stream,    \* the signs, one for each coefficient, and the bytes behind them
  requests,  \* the implementation
  phase,     \* "sign", "sample", "compress", "row", "decompressed", "product"
  pulled,    \* the bytes drawn from the stream
  buf, pos,  \* its buffer, as stream positions, and the next byte in it
  i,         \* the loop over the last TAU coefficients
  signs,     \* the signs that are left
  c,         \* the polynomial
  ccomp,     \* its compressed form
  row        \* c * t0, or c * t1

challengeVars ==
  <<stream, requests, phase, pulled, buf, pos, i, signs, c, ccomp, row>>

Coefficient == 0..(Size - 1)
Zero == [j \in Coefficient |-> 0]

(* The byte at a position of the stream, behind the SignBytes. *)
ByteAt(p) == IF p - SignBytes \in 1..StreamLen THEN stream.bytes[p - SignBytes] ELSE 0

(* Requests of a size append the next positions of the stream. *)
Pulled(from, size) == [n \in 1..size |-> from + n]

ChallengeInit ==
  /\ stream \in [signs : [1..TAU -> {0, 1}], bytes : [1..StreamLen -> Coefficient]]
  /\ requests \in Requests
  /\ phase = "sign"
  /\ pulled = 0
  /\ buf = <<>> /\ pos = 0
  /\ i = Size - TAU
  /\ signs = <<>>
  /\ c \in {[j \in Coefficient |-> 1]}
  /\ ccomp = [at |-> [k \in 1..TAU |-> Size - 1], signs |-> [k \in 1..TAU |-> 1]]
  /\ row = Zero

(* A slip: the rest of the first request is thrown away. *)
PosAfterFirst == requests.first

(* pos = 8 behind the signs; poly_challenge_eth, the contracts and Python  *)
(* have asked for no more than the signs.                                  *)
PosAfterSigns == SignBytes

TakeSigns ==
  /\ phase = "sign"
  /\ buf' = Pulled(0, requests.first)
  /\ pulled' = requests.first
  /\ pos' = PosAfterSigns
  /\ signs' = stream.signs
  /\ c' = Zero
  /\ phase' = "sample"
  /\ UNCHANGED <<stream, requests, i, ccomp, row>>

(* if (pos >= size of the buffer) squeeze again *)
Refill ==
  /\ phase = "sample"
  /\ i < Size
  /\ pos >= Len(buf)
  /\ buf' = Pulled(pulled, requests.later)
  /\ pulled' = pulled + requests.later
  /\ pos' = 0
  /\ UNCHANGED <<stream, requests, phase, i, signs, c, ccomp, row>>

NextByte == ByteAt(buf[pos + 1])

(* while (b > i) *)
Rejected == NextByte > i

RejectByte ==
  /\ phase = "sample"
  /\ i < Size
  /\ pos < Len(buf)
  /\ Rejected
  /\ pos' = pos + 1
  /\ UNCHANGED <<stream, requests, phase, pulled, buf, i, signs, c, ccomp, row>>

(* c[i] = c[b]; c[b] = 1 - 2 * (signs & 1); signs >>= 1; *)
PlaceSign ==
  /\ phase = "sample"
  /\ i < Size
  /\ pos < Len(buf)
  /\ ~Rejected
  /\ c' = [[c EXCEPT ![i] = c[NextByte]] EXCEPT ![NextByte] = 1 - 2 * Head(signs)]
  /\ signs' = Tail(signs)
  /\ i' = i + 1
  /\ pos' = pos + 1
  /\ phase' = IF i' = Size THEN "compress" ELSE "sample"
  /\ UNCHANGED <<stream, requests, pulled, buf, ccomp, row>>

-----------------------------------------------------------------------------
(* The low-RAM side.                                                       *)

Support(p) == {j \in Coefficient : p[j] # 0}

(* The k-th position of the challenge in ascending order. *)
Nth(S, k) == CHOOSE j \in S : Cardinality({x \in S : x < j}) = k - 1

(* poly_challenge_compress *)
Compressed(p) ==
  [at |-> [k \in 1..TAU |-> Nth(Support(p), k)],
   signs |-> [k \in 1..TAU |-> IF p[Nth(Support(p), k)] = -1 THEN 1 ELSE 0]]

(* The buffer of the challenge is used for other polynomials from here on. *)
Compress ==
  /\ phase = "compress"
  /\ ccomp' = Compressed(c)
  /\ c' = [j \in Coefficient |-> 1]
  /\ phase' = "row"
  /\ UNCHANGED <<stream, requests, pulled, buf, pos, i, signs, row>>

(* poly_challenge_decompress *)
Decompress ==
  /\ phase = "row"
  /\ c' = [j \in Coefficient |->
       IF \E k \in 1..TAU : ccomp.at[k] = j
       THEN LET k == CHOOSE k \in 1..TAU : ccomp.at[k] = j IN 1 - 2 * ccomp.signs[k]
       ELSE 0]
  /\ phase' = "decompressed"
  /\ UNCHANGED <<stream, requests, pulled, buf, pos, i, signs, ccomp, row>>

(* The sum of the first n values of f. *)
SumOver(f, n) ==
  LET sum[k \in 0..n] == IF k = 0 THEN 0 ELSE sum[k - 1] + f[k] IN sum[n]

(* A slip: what is shifted past the end comes back with the same sign. *)
ContributionCyclic(j, at, sign) == (1 - 2 * sign) * T[(j + Size - at) % Size]

(* poly_schoolbook and poly_schoolbook_t1: position `at` of the challenge  *)
(* moves t up by that much; what passes the end comes back negated.        *)
Contribution(j, at, sign) ==
  IF j >= at THEN (1 - 2 * sign) * T[j - at] ELSE (2 * sign - 1) * T[j + Size - at]

MultiplyRow ==
  /\ phase = "decompressed"
  /\ row' = [j \in Coefficient |->
       SumOver([k \in 1..TAU |-> Contribution(j, ccomp.at[k], ccomp.signs[k])], TAU)]
  /\ phase' = "product"
  /\ UNCHANGED <<stream, requests, pulled, buf, pos, i, signs, c, ccomp>>

ChallengeNext ==
  TakeSigns \/ Refill \/ RejectByte \/ PlaceSign \/ Compress \/ Decompress \/ MultiplyRow

-----------------------------------------------------------------------------
(* Properties                                                              *)

(* The polynomial FIPS 204 defines: read bytes one by one, without buffer. *)
(* A byte is for coefficient n = Size - TAU + k after k signs were used.   *)
Take(r, b) ==
  LET n == Size - TAU + r.k
  IN IF r.k = TAU \/ b > n
     THEN r
     ELSE [k |-> r.k + 1,
           poly |-> [[r.poly EXCEPT ![n] = r.poly[b]]
                       EXCEPT ![b] = 1 - 2 * stream.signs[r.k + 1]]]

Reading[p \in 0..(StreamLen + TAU)] ==
  IF p = 0 THEN [k |-> 0, poly |-> Zero] ELSE Take(Reading[p - 1], ByteAt(SignBytes + p))

Reference == Reading[StreamLen + TAU].poly

(* Every implementation samples the challenge of the definition, with      *)
(* exactly TAU coefficients that are not zero, wherever the requests cut   *)
(* the stream and however many bytes are rejected; and the challenge that  *)
(* c-lowram unpacks for a later row is still that one, although its        *)
(* polynomial was overwritten in between.                                  *)
ChallengeAgrees ==
  phase \in {"compress", "decompressed"} =>
    c = Reference /\ Cardinality(Support(c)) = TAU

(* The product with the compressed challenge is the product modulo         *)
(* x^N + 1 that c-ref computes with the NTT.                               *)
SchoolbookProduct ==
  phase = "product" =>
    \A j \in Coefficient :
      row[j] = SumOver([m \in 1..Size |-> Reference[m - 1] *
                          (IF m - 1 <= j THEN T[j - (m - 1)] ELSE -T[j + Size - (m - 1)])],
                       Size)
=============================================================================
