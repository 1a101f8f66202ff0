---------------------------- MODULE SignedMessage ----------------------------
(***************************************************************************)
(* crypto_sign and crypto_sign_open (c-ref/sign.c and c-lowram/sign.c, the *)
(* same code): a signature is put in front of a message, and taken off     *)
(* again, in arrays that the caller may let overlap: sm "can be equal to   *)
(* m".  The copy loops run one byte per step over one memory, in which the *)
(* message array is either the array of the signed message or another one. *)
(* A signature of a text cannot be made without signing that text.         *)
(***************************************************************************)
EXTENDS Integers, Sequences

CONSTANTS
  SigLen,     \* CRYPTO_BYTES
  MaxLen,     \* bound of the model: bytes of a message
  StaleLen    \* what *smlen may hold before the call

ASSUME SignedMessageAssumption ==
  /\ SigLen \in Nat \ {0}
  /\ MaxLen \in Nat
  /\ StaleLen \subseteq Nat

Size == SigLen + MaxLen
Address == 0 .. 2 * Size - 1
SmAt == 0                    \* the array sm of Size bytes, then another one
Arrays == {SmAt, Size}       \* where m may begin

(* What a byte holds: a byte of the text, of a signature, or neither. *)
TextByte(i) == <<"text", i>>
SigByte(text, j) == <<"sig", j, text>>
Zero == <<"zero">>
Noise == <<"noise">>

VARIABLES
  pc,
  mem,
  m_at,        \* the pointer m of the running call
  n,           \* the length of the message that is signed
  ctx_fits,    \* ctxlen <= 255
  i,           \* the loop index
  smlen,       \* *smlen
  tampered,    \* whether the signed message was changed on its way
  mlen,        \* *mlen
  ret

vars == <<pc, mem, m_at, n, ctx_fits, i, smlen, tampered, mlen, ret>>

Block(from, length) == [j \in 1 .. length |-> mem[from + j - 1]]

Text == [j \in 1 .. n |-> TextByte(j - 1)]

Init ==
  /\ pc = "sign"
  /\ m_at \in Arrays
  /\ n \in 0 .. MaxLen
  /\ ctx_fits \in BOOLEAN
  /\ mem = [a \in Address |-> IF a \in m_at .. m_at + n - 1 THEN TextByte(a - m_at) ELSE Noise]
  /\ i = 0
  /\ smlen \in StaleLen
  /\ tampered = FALSE
  /\ mlen = 0
  /\ ret = 0

-----------------------------------------------------------------------------
(* A slip: the loop copies from the first byte on. *)
SignCopyForward(at) == [mem EXCEPT ![SmAt + SigLen + at] = mem[m_at + at]]

(* sm[CRYPTO_BYTES + mlen - 1 - i] = m[mlen - 1 - i] *)
SignCopy(at) == [mem EXCEPT ![SmAt + SigLen + n - 1 - at] = mem[m_at + n - 1 - at]]

SignCopyStep ==
  /\ pc = "sign"
  /\ i < n
  /\ mem' = SignCopy(i)
  /\ i' = i + 1
  /\ UNCHANGED <<pc, m_at, n, ctx_fits, smlen, tampered, mlen, ret>>

(* crypto_sign_signature on the copy. *)
SignSignature ==
  /\ pc = "sign"
  /\ i = n
  /\ ctx_fits
  /\ mem' = [a \in Address |->
               IF a \in SmAt .. SmAt + SigLen - 1
                 THEN SigByte(Block(SmAt + SigLen, n), a - SmAt)
                 ELSE mem[a]]
  /\ smlen' = SigLen
  /\ ret' = 0
  /\ pc' = "add"
  /\ UNCHANGED <<m_at, n, ctx_fits, i, tampered, mlen>>

SignatureRefused ==
  /\ pc = "sign"
  /\ i = n
  /\ ~ctx_fits
  /\ ret' = -1
  /\ pc' = "add"
  /\ UNCHANGED <<mem, m_at, n, ctx_fits, i, smlen, tampered, mlen>>

(* *smlen += mlen, whatever crypto_sign_signature returned. *)
AddLength ==
  /\ pc = "add"
  /\ smlen' = smlen + n
  /\ pc' = "signed"
  /\ UNCHANGED <<mem, m_at, n, ctx_fits, i, tampered, mlen, ret>>

-----------------------------------------------------------------------------
(***************************************************************************)
(* The receiver gets the signed message, perhaps with a byte changed or    *)
(* with another length, and calls crypto_sign_open with m = sm or another  *)
(* array.                                                                  *)
(***************************************************************************)
OpenCall(length, changed) ==
  /\ pc = "signed"
  /\ ret = 0
  /\ pc' = "open"
  /\ smlen' = length
  /\ mem' = [a \in Address |-> IF a \in changed THEN Noise ELSE mem[a]]
  /\ tampered' = (length # smlen \/ changed # {})
  /\ m_at' \in Arrays
  /\ i' = 0
  /\ UNCHANGED <<n, ctx_fits, mlen, ret>>

Verifies ==
  \A j \in 0 .. SigLen - 1 :
    mem[SmAt + j] = SigByte(Block(SmAt + SigLen, smlen - SigLen), j)

TextLength == smlen - SigLen

OpenGood ==
  /\ pc = "open"
  /\ smlen >= SigLen
  /\ Verifies
  /\ mlen' = TextLength
  /\ pc' = "copy"
  /\ UNCHANGED <<mem, m_at, n, ctx_fits, i, smlen, tampered, ret>>

(* A slip: the bytes of the signature in front of the text are forgotten. *)
BadLengthOfText == IF smlen < SigLen THEN smlen ELSE smlen - SigLen

(* badsig: this many bytes of m are cleared. *)
BadLength == smlen

OpenBad ==
  /\ pc = "open"
  /\ smlen < SigLen \/ ~Verifies
  /\ mlen' = 0
  /\ pc' = "clear"
  /\ UNCHANGED <<mem, m_at, n, ctx_fits, i, smlen, tampered, ret>>

(* A slip: the loop copies from the last byte on. *)
OpenCopyBackward(at) == [mem EXCEPT ![m_at + mlen - 1 - at] = mem[SmAt + SigLen + mlen - 1 - at]]

(* m[i] = sm[CRYPTO_BYTES + i] *)
OpenCopy(at) == [mem EXCEPT ![m_at + at] = mem[SmAt + SigLen + at]]

OpenCopyStep ==
  /\ pc = "copy"
  /\ i < mlen
  /\ mem' = OpenCopy(i)
  /\ i' = i + 1
  /\ UNCHANGED <<pc, m_at, n, ctx_fits, smlen, tampered, mlen, ret>>

OpenCopied ==
  /\ pc = "copy"
  /\ i = mlen
  /\ ret' = 0
  /\ pc' = "opened"
  /\ UNCHANGED <<mem, m_at, n, ctx_fits, i, smlen, tampered, mlen>>

OpenClearStep ==
  /\ pc = "clear"
  /\ i < BadLength
  /\ mem' = [mem EXCEPT ![m_at + i] = Zero]
  /\ i' = i + 1
  /\ UNCHANGED <<pc, m_at, n, ctx_fits, smlen, tampered, mlen, ret>>

OpenCleared ==
  /\ pc = "clear"
  /\ i >= BadLength
  /\ ret' = -1
  /\ pc' = "opened"
  /\ UNCHANGED <<mem, m_at, n, ctx_fits, i, smlen, tampered, mlen>>

Transmission ==
  \E length \in 0 .. Size :
    \E changed \in {{}} \cup {{a} : a \in SmAt .. SmAt + length - 1} :
      OpenCall(length, changed)

Next ==
  \/ SignCopyStep
  \/ SignSignature
  \/ SignatureRefused
  \/ AddLength
  \/ Transmission
  \/ OpenGood
  \/ OpenBad
  \/ OpenCopyStep
  \/ OpenCopied
  \/ OpenClearStep
  \/ OpenCleared

Spec == Init /\ [][Next]_vars

-----------------------------------------------------------------------------
(***************************************************************************)
(* "can be equal to m": in either layout, the text behind the signature,   *)
(* and the text that is signed, is the message (sign.c 293-295).           *)
(***************************************************************************)
SignsTheMessage ==
  pc = "signed" =>
    /\ Block(SmAt + SigLen, n) = Text
    /\ ret = 0 =>
         /\ smlen = SigLen + n
         /\ \A j \in 0 .. SigLen - 1 : mem[SmAt + j] = SigByte(Text, j)

(***************************************************************************)
(* crypto_sign_open returns 0 exactly for what crypto_sign made, and m     *)
(* then begins with the message, in either layout (sign.c 451-463).        *)
(***************************************************************************)
OpensTheMessage ==
  pc = "opened" =>
    /\ ret = 0 <=> ~tampered
    /\ ret = 0 => mlen = n /\ Block(m_at, mlen) = Text

(***************************************************************************)
(* A signed message that is not authentic leaves none of its bytes in the  *)
(* output array (badsig, sign.c 465-471).                                  *)
(***************************************************************************)
NothingReleased ==
  (pc = "opened" /\ ret = -1) =>
    /\ mlen = 0
    /\ \A a \in m_at .. m_at + smlen - 1 : mem[a] = Zero
=============================================================================
