------------------------------ MODULE BitPacking ------------------------------
(***************************************************************************)
(* Polynomials as bytes.  Every packing of poly.c, and each of its         *)
(* readers, is a table of shifts written out by hand; c-lowram reads       *)
(* single coefficients with tables of its own, and unpacks z in the buffer *)
(* that holds its bytes; the contracts and Python use one loop over bits.  *)
(*                                                                         *)
(* A word is the set of its bits, each a pair of a position and the bit of *)
(* the polynomial it carries, so that a run covers all values at once: an  *)
(* OR is a union, and two bits that meet in one place are both there.      *)
(***************************************************************************)
EXTENDS Integers, Sequences

CONSTANTS
  Format,    \* which packings: members of DOMAIN Formats
  Value(_),  \* and which coefficients of each
  Groups,    \* how many groups of the unrolled loops
  InPlaceGroups   \* POLY_UNIFORM_GAMMA1_BUFFERSIZE, 1 in the code: the last
                  \* group of a larger buffer takes its path

ASSUME PackingAssumption ==
  Groups \in Nat \ {0} /\ InPlaceGroups \in 1..Groups

-----------------------------------------------------------------------------
(* Words                                                                   *)

Field(i, width) == {<<b, <<i, b>>>> : b \in 0..(width - 1)}

Shift(word, s) == {<<p[1] + s, p[2]>> : p \in word}

Truncated(word, n) == {p \in word : p[1] \in 0..(n - 1)}

(* A term <<k, s>> of a table is the operand number k, shifted to the left *)
(* by s, or to the right where s is negative.                              *)
Or(terms, operand) == UNION {Shift(operand[t[1]], t[2]) : t \in terms}

-----------------------------------------------------------------------------
(* The tables of poly.c: for each byte the coefficients of the group that  *)
(* are shifted into it, for each coefficient the bytes it is put together  *)
(* from.                                                                   *)

Eta2Pack == <<{<<0, 0>>, <<1, 3>>, <<2, 6>>}, {<<2, -2>>, <<3, 1>>, <<4, 4>>, <<5, 7>>},
              {<<5, -1>>, <<6, 2>>, <<7, 5>>}>>
Eta2Unpack == <<{<<0, 0>>}, {<<0, -3>>}, {<<0, -6>>, <<1, 2>>}, {<<1, -1>>}, {<<1, -4>>},
                {<<1, -7>>, <<2, 1>>}, {<<2, -2>>}, {<<2, -5>>}>>
Eta4Pack == <<{<<0, 0>>, <<1, 4>>}>>
Eta4Unpack == <<{<<0, 0>>}, {<<0, -4>>}>>

T1Pack == <<{<<0, 0>>}, {<<0, -8>>, <<1, 2>>}, {<<1, -6>>, <<2, 4>>}, {<<2, -4>>, <<3, 6>>},
            {<<3, -2>>}>>
T1Unpack == <<{<<0, 0>>, <<1, 8>>}, {<<1, -2>>, <<2, 6>>}, {<<2, -4>>, <<3, 4>>},
              {<<3, -6>>, <<4, 2>>}>>

T0Pack == <<{<<0, 0>>}, {<<0, -8>>, <<1, 5>>}, {<<1, -3>>}, {<<1, -11>>, <<2, 2>>},
            {<<2, -6>>, <<3, 7>>}, {<<3, -1>>}, {<<3, -9>>, <<4, 4>>}, {<<4, -4>>},
            {<<4, -12>>, <<5, 1>>}, {<<5, -7>>, <<6, 6>>}, {<<6, -2>>},
            {<<6, -10>>, <<7, 3>>}, {<<7, -5>>}>>

(* A slip: the third byte of a coefficient that spans three is left out. *)
T0UnpackTwoBytes ==
  <<{<<0, 0>>, <<1, 8>>}, {<<1, -5>>, <<2, 3>>}, {<<3, -2>>, <<4, 6>>},
    {<<4, -7>>, <<5, 1>>}, {<<6, -4>>, <<7, 4>>}, {<<8, -1>>, <<9, 7>>},
    {<<9, -6>>, <<10, 2>>}, {<<11, -3>>, <<12, 5>>}>>

T0Unpack == <<{<<0, 0>>, <<1, 8>>}, {<<1, -5>>, <<2, 3>>, <<3, 11>>}, {<<3, -2>>, <<4, 6>>},
              {<<4, -7>>, <<5, 1>>, <<6, 9>>}, {<<6, -4>>, <<7, 4>>, <<8, 12>>},
              {<<8, -1>>, <<9, 7>>}, {<<9, -6>>, <<10, 2>>, <<11, 10>>},
              {<<11, -3>>, <<12, 5>>}>>

(* A slip: a coefficient begins one bit too far to the left. *)
Z17PackOff == <<{<<0, 0>>}, {<<0, -8>>}, {<<0, -16>>, <<1, 3>>}, {<<1, -6>>},
                {<<1, -14>>, <<2, 4>>}, {<<2, -4>>}, {<<2, -12>>, <<3, 6>>}, {<<3, -2>>},
                {<<3, -10>>}>>

Z17Pack == <<{<<0, 0>>}, {<<0, -8>>}, {<<0, -16>>, <<1, 2>>}, {<<1, -6>>},
             {<<1, -14>>, <<2, 4>>}, {<<2, -4>>}, {<<2, -12>>, <<3, 6>>}, {<<3, -2>>},
             {<<3, -10>>}>>
Z17Unpack == <<{<<0, 0>>, <<1, 8>>, <<2, 16>>}, {<<2, -2>>, <<3, 6>>, <<4, 14>>},
               {<<4, -4>>, <<5, 4>>, <<6, 12>>}, {<<6, -6>>, <<7, 2>>, <<8, 10>>}>>
Z19Pack == <<{<<0, 0>>}, {<<0, -8>>}, {<<0, -16>>, <<1, 4>>}, {<<1, -4>>}, {<<1, -12>>}>>
Z19Unpack == <<{<<0, 0>>, <<1, 8>>, <<2, 16>>}, {<<2, -4>>, <<3, 4>>, <<4, 12>>}>>

W16Pack == <<{<<0, 0>>, <<1, 6>>}, {<<1, -2>>, <<2, 4>>}, {<<2, -4>>, <<3, 2>>}>>
W14Pack == <<{<<0, 0>>, <<1, 4>>}>>

(* The tables of lowram.c: polyw_pack and polyw_unpack, and the readers of *)
(* one coefficient of t0 and of t1.                                        *)
WPack == <<{<<0, 0>>}, {<<0, -8>>}, {<<0, -16>>}>>
WUnpack == <<{<<0, 0>>, <<1, 8>>, <<2, 16>>}>>
T0UnpackIdx == <<{<<0, 0>>, <<1, 8>>}, {<<1, -5>>, <<2, 3>>, <<3, 11>>}, {<<3, -2>>, <<4, 6>>},
                 {<<4, -7>>, <<5, 1>>, <<6, 9>>}, {<<6, -4>>, <<7, 4>>, <<8, 12>>},
                 {<<8, -1>>, <<9, 7>>}, {<<9, -6>>, <<10, 2>>, <<11, 10>>},
                 {<<11, -3>>, <<12, 5>>}>>
T1UnpackIdx == <<{<<0, 0>>, <<1, 8>>}, {<<1, -2>>, <<2, 6>>}, {<<2, -4>>, <<3, 4>>},
                 {<<3, -6>>, <<4, 2>>}>>

(* The slices of useHintDilithium; result0 is the low end of its byte.     *)
SolW1Pack == <<{<<0, 0>>, <<1, 6>>}, {<<1, -2>>, <<2, 4>>}, {<<2, -4>>, <<3, 2>>}>>

(* A coefficient c is stored as offset - c, or as it is; low and high are  *)
(* the ends of its range.  A format without readers has none in C.         *)
Formats ==
  [eta2 |-> [width |-> 3, offset |-> 2, low |-> -2, high |-> 2,
             pack |-> {Eta2Pack}, unpack |-> {Eta2Unpack}],
   eta4 |-> [width |-> 4, offset |-> 4, low |-> -4, high |-> 4,
             pack |-> {Eta4Pack}, unpack |-> {Eta4Unpack}],
   t1 |-> [width |-> 10, offset |-> 0, low |-> 0, high |-> 2^10 - 1,
           pack |-> {T1Pack}, unpack |-> {T1Unpack, T1UnpackIdx}],
   t0 |-> [width |-> 13, offset |-> 2^12, low |-> 1 - 2^12, high |-> 2^12,
           pack |-> {T0Pack}, unpack |-> {T0Unpack, T0UnpackIdx}],
   z17 |-> [width |-> 18, offset |-> 2^17, low |-> 1 - 2^17, high |-> 2^17,
            pack |-> {Z17Pack}, unpack |-> {Z17Unpack}],
   z19 |-> [width |-> 20, offset |-> 2^19, low |-> 1 - 2^19, high |-> 2^19,
            pack |-> {Z19Pack}, unpack |-> {Z19Unpack}],
   w16 |-> [width |-> 6, offset |-> 0, low |-> 0, high |-> 43,
            pack |-> {W16Pack, SolW1Pack}, unpack |-> {}],
   w14 |-> [width |-> 4, offset |-> 0, low |-> 0, high |-> 15,
            pack |-> {W14Pack}, unpack |-> {}],
   w |-> [width |-> 24, offset |-> 0, low |-> 0, high |-> 8380416,
          pack |-> {WPack}, unpack |-> {WUnpack}]]

ASSUME FormatAssumption ==
  /\ Format \subseteq DOMAIN Formats
  /\ \A f \in Format : Value(f) \subseteq Formats[f].low .. Formats[f].high

-----------------------------------------------------------------------------
(* Writers and readers.                                                    *)

VARIABLES
  format,   \* the packing
  coeff,    \* the value of one coefficient
  stage,    \* "coeffs", "bytes", "inplace", "stored" or "read"
  stored,   \* that coefficient as it is stored
  bytes,    \* the bytes, as words
  fields,   \* the coefficients that were read, as words
  mem,      \* the bytes of buf in polyz_unpack_inplace
  tmp,      \* its local variables
  pc        \* <<group, row of the program, term of the row>>

memVars == <<mem, tmp, pc>>
packingVars == <<format, coeff, stage, stored, bytes, fields, memVars>>

Fmt == Formats[format]

(* A group is the fewest coefficients that fill whole bytes. *)
PerGroup == CHOOSE n \in {1, 2, 4, 8} :
  (n * Fmt.width) % 8 = 0 /\ \A k \in {1, 2, 4, 8} : (k * Fmt.width) % 8 = 0 => n <= k

GroupBytes == (PerGroup * Fmt.width) \div 8

Fields == 0..(Groups * PerGroup - 1)
Bytes == 0..(Groups * GroupBytes - 1)

Whole == [i \in Fields |-> Field(i, Fmt.width)]

(* One unrolled loop of poly.c: group i begins at a multiple of PerGroup   *)
(* and of GroupBytes.                                                      *)
PackWith(table) ==
  [n \in Bytes |->
    LET i == n \div GroupBytes
    IN Truncated(Or(table[(n % GroupBytes) + 1], [k \in 0..(PerGroup - 1) |-> Whole[PerGroup * i + k]]), 8)]

UnpackWith(table) ==
  [n \in Fields |->
    LET i == n \div PerGroup
    IN Truncated(Or(table[(n % PerGroup) + 1], [k \in 0..(GroupBytes - 1) |-> bytes[GroupBytes * i + k]]),
                 Fmt.width)]

(* __bit_pack: the coefficients are shifted into one integer from the last *)
(* to the first, and its bytes taken from the low end.                     *)
PyPack ==
  LET r == UNION {Shift(Whole[i], Fmt.width * i) : i \in Fields}
  IN [n \in Bytes |-> Truncated(Shift(r, -8 * n), 8)]

PyUnpack ==
  LET r == UNION {Shift(bytes[n], 8 * n) : n \in Bytes}
  IN [i \in Fields |-> Truncated(Shift(r, -Fmt.width * i), Fmt.width)]

NeededBytes(bitInByte, coeffBits) == (bitInByte + coeffBits + 7) \div 8

(* bitUnpackAtOffset reads only the bytes a coefficient lies in. *)
SolUnpack ==
  [i \in Fields |->
    LET bitOffset  == i * Fmt.width
        byteOffset == bitOffset \div 8
        bitInByte  == bitOffset % 8
        needed     == {j \in 0..(NeededBytes(bitInByte, Fmt.width) - 1) : byteOffset + j \in Bytes}
        value      == UNION {Shift(bytes[byteOffset + j], 8 * j) : j \in needed}
    IN Truncated(Shift(value, -bitInByte), Fmt.width)]

(* The coefficient as it is stored, and back: by C, by unpackZ and by      *)
(* Python modulo Q.                                                        *)
Stored(c) == IF Fmt.offset = 0 THEN c ELSE Fmt.offset - c

QMod == 8380417

Restored(s) == IF Fmt.offset = 0 THEN s ELSE Fmt.offset - s
SolRestored(s) == IF s < Fmt.offset THEN Fmt.offset - s ELSE QMod + Fmt.offset - s

PackingInit ==
  /\ format \in Format
  /\ coeff \in Value(format)
  /\ stage = "coeffs"
  /\ stored = 0
  /\ bytes = <<>> /\ fields = <<>>
  /\ mem = <<>> /\ tmp = <<>> /\ pc = <<0, 1, 1>>

Pack ==
  /\ stage = "coeffs"
  /\ bytes' \in {PackWith(table) : table \in Fmt.pack} \cup {PyPack}
  /\ stored' = Stored(coeff)
  /\ stage' = "bytes"
  /\ UNCHANGED <<format, coeff, fields, memVars>>

Unpack ==
  /\ stage = "bytes"
  /\ fields' \in {UnpackWith(table) : table \in Fmt.unpack} \cup {PyUnpack, SolUnpack}
  /\ stored' = Restored(stored)
  /\ stage' = "read"
  /\ UNCHANGED <<format, coeff, bytes, memVars>>

-----------------------------------------------------------------------------
(* polyz_unpack_inplace: the bytes lie at the start of the array of int32  *)
(* that receives the coefficients.  A row puts together one coefficient,   *)
(* in the array itself or in a local variable, one term at a time.         *)

Z17InPlace ==
  <<[to |-> 3, local |-> FALSE, terms |-> <<<<6, -6>>, <<7, 2>>, <<8, 10>>>>],
    [to |-> 2, local |-> FALSE, terms |-> <<<<4, -4>>, <<5, 4>>, <<6, 12>>>>],
    [to |-> 1, local |-> FALSE, terms |-> <<<<4, 14>>, <<2, -2>>, <<3, 6>>>>],
    [to |-> 0, local |-> TRUE, terms |-> <<<<0, 0>>, <<1, 8>>, <<2, 16>>>>]>>

Z19InPlace ==
  <<[to |-> 1, local |-> TRUE, terms |-> <<<<2, -4>>, <<3, 4>>, <<4, 12>>>>],
    [to |-> 0, local |-> TRUE, terms |-> <<<<0, 0>>, <<1, 8>>, <<2, 16>>>>]>>

(* A slip: the coefficients are unpacked from the first to the last. *)
ProgramForwards ==
  <<Z17InPlace[4], Z17InPlace[3], Z17InPlace[2], Z17InPlace[1]>>

Program == IF format = "z17" THEN Z17InPlace ELSE Z19InPlace

Buffer == 0..(4 * PerGroup * InPlaceGroups - 1)

Load(m, r) == UNION {Shift(m[4 * r + k], 8 * k) : k \in 0..3}

Store(m, r, word) ==
  [n \in Buffer |-> IF n \div 4 = r THEN Truncated(Shift(word, -8 * (n % 4)), 8) ELSE m[n]]

(* shake256_squeeze or inner_keccak256_extract filled the start of buf. *)
FillBuffer ==
  /\ stage = "bytes"
  /\ format \in {"z17", "z19"}
  /\ mem' = [n \in Buffer |-> IF n < InPlaceGroups * GroupBytes THEN bytes[n] ELSE {}]
  /\ tmp' = [i \in 0..(PerGroup - 1) |-> {}]
  /\ pc' = <<InPlaceGroups - 1, 1, 1>>
  /\ stage' = "inplace"
  /\ UNCHANGED <<format, coeff, stored, bytes, fields>>

(* r = byte shifted; r |= byte shifted; ...; r &= mask. *)
InPlaceTerm ==
  /\ stage = "inplace"
  /\ pc[2] <= Len(Program)
  /\ LET row  == Program[pc[2]]
         r    == PerGroup * pc[1] + row.to
         last == pc[3] = Len(row.terms)
         byte == Shift(mem[GroupBytes * pc[1] + row.terms[pc[3]][1]], row.terms[pc[3]][2])
         old  == IF pc[3] = 1 THEN {} ELSE IF row.local THEN tmp[row.to] ELSE Load(mem, r)
         new  == Truncated(old \cup byte, IF last THEN Fmt.width ELSE 32)
     IN /\ mem' = IF row.local THEN mem ELSE Store(mem, r, new)
        /\ tmp' = IF row.local THEN [tmp EXCEPT ![row.to] = new] ELSE tmp
        /\ pc' = IF last THEN <<pc[1], pc[2] + 1, 1>> ELSE <<pc[1], pc[2], pc[3] + 1>>
  /\ UNCHANGED <<format, coeff, stage, stored, bytes, fields>>

(* r = GAMMA1 - local; the others are subtracted where they lie. *)
Subtract ==
  /\ stage = "inplace"
  /\ pc[2] = Len(Program) + 1
  /\ mem' = [n \in Buffer |->
        LET row == {i \in 1..Len(Program) :
                     Program[i].local /\ PerGroup * pc[1] + Program[i].to = n \div 4}
        IN IF row = {} THEN mem[n]
           ELSE Truncated(Shift(tmp[(n \div 4) % PerGroup], -8 * (n % 4)), 8)]
  /\ pc' = <<pc[1] - 1, 1, 1>>
  /\ stage' = IF pc[1] = 0 THEN "stored" ELSE "inplace"
  /\ UNCHANGED <<format, coeff, stored, bytes, fields, tmp>>

PackingNext == Pack \/ Unpack \/ FillBuffer \/ InPlaceTerm \/ Subtract

PackingSpec == PackingInit /\ [][PackingNext]_packingVars

-----------------------------------------------------------------------------
(* Properties                                                              *)

(* All writers of a format -- C, the contract that packs the corrected     *)
(* high bits for the hash, Python -- give the same bytes: the bit string   *)
(* of the fields, lowest bit first.                                        *)
BytesInOrder ==
  stage # "coeffs" =>
    bytes = [n \in Bytes |->
      {<<b, <<(8 * n + b) \div Fmt.width, (8 * n + b) % Fmt.width>>>> : b \in 0..7}]

(* All readers -- the loops of poly.c, the single coefficients of lowram.c, *)
(* the contracts and Python -- get the fields back, and a coefficient at   *)
(* either end of its range fits its field and survives.                    *)
RoundTrip ==
  /\ stage = "bytes" =>
       /\ stored \in 0..(2^Fmt.width - 1)
       /\ format \in {"z17", "z19"} => SolRestored(stored) % QMod = coeff % QMod
  /\ stage = "read" => fields = Whole /\ stored = coeff

(* polyz_unpack_inplace never overwrites a byte it still has to read,      *)
(* whatever the size of its buffer.                                        *)
InPlaceRight ==
  stage = "stored" =>
    \A i \in 0..(PerGroup * InPlaceGroups - 1) : Load(mem, i) = Whole[i]
=============================================================================
