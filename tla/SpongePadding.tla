---------------------------- MODULE SpongePadding -----------------------------
(***************************************************************************)
(* The padding of a sponge with Rate bytes per block, as a reference for   *)
(* the three incremental implementations of the repository (keccak256.c,   *)
(* fips202.c, ZKNOX_shake.sol).  A byte of a block is the set of what was  *)
(* put or XORed into it: the number of an input byte, the first and the    *)
(* last padding bit; the empty set is zero.                                *)
(***************************************************************************)
EXTENDS Integers, Sequences

CONSTANT Rate

ASSUME SpongePaddingAssumption == Rate \in Nat \ {0}

Index == 0 .. Rate - 1
FirstPad == -1   \* 0x01 of Keccak-256, 0x1F of SHAKE
LastPad == -2    \* 0x80

ZeroBlock == [i \in Index |-> {}]

(* The padding in place i of the last block, if `rest` input bytes are in it. *)
PadAt(i, rest) ==
  (IF i = rest THEN {FirstPad} ELSE {}) \cup (IF i = Rate - 1 THEN {LastPad} ELSE {})

(* What is in place i of block b (from 1) of the padded input of n bytes. *)
PaddedByte(n, b, i) ==
  LET p == Rate * (b - 1) + i
  IN  IF p < n THEN {p} ELSE PadAt(i, n % Rate)

(* The blocks of the padded input of n bytes. *)
Padded(n) ==
  [b \in 1 .. (n \div Rate) + 1 |-> [i \in Index |-> PaddedByte(n, b, i)]]

(* The blocks of n bytes of input that are complete. *)
Whole(n) ==
  [b \in 1 .. n \div Rate |-> [i \in Index |-> {Rate * (b - 1) + i}]]

(* Byte p of the output for n bytes of input: the place it has in the state *)
(* that the padded input and one zero block per earlier output block give. *)
OutputByte(n, p) ==
  [hash |-> Padded(n) \o [k \in 1 .. p \div Rate |-> ZeroBlock],
   at |-> p % Rate, xored |-> {}]
=============================================================================
