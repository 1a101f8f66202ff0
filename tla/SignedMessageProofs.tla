-------------------------- MODULE SignedMessageProofs --------------------------
(***************************************************************************)
(* crypto_sign and crypto_sign_open are right in both layouts, for every   *)
(* length of signature and message.  While a loop copies, the bytes it has *)
(* passed are in place and those it has still to read are untouched,       *)
(* although it may read and write one array.                               *)
(***************************************************************************)
EXTENDS SignedMessage, TLAPS

(* A byte of the message that is signed. *)
TextIndex == 0 .. n - 1

(* The text lies behind the signature, the signature in front of it. *)
TextInPlace == \A x \in TextIndex : mem[SigLen + x] = TextByte(x)
SignatureInPlace == \A j \in 0 .. SigLen - 1 : mem[j] = SigByte(Text, j)

Shape ==
  /\ pc \in {"sign", "add", "signed", "open", "copy", "clear", "opened"}
  /\ DOMAIN mem = Address
  /\ m_at \in Arrays
  /\ n \in 0 .. MaxLen
  /\ i \in Nat /\ smlen \in Nat /\ mlen \in Nat
  /\ ret \in {0, -1}
  /\ tampered \in BOOLEAN

(* The loop of crypto_sign has copied the last i bytes. *)
Signing ==
  pc = "sign" =>
    /\ i <= n
    /\ \A x \in 0 .. n - i - 1 : mem[m_at + x] = TextByte(x)
    /\ \A x \in n - i .. n - 1 : mem[SigLen + x] = TextByte(x)

Signed ==
  pc \in {"add", "signed"} =>
    /\ TextInPlace
    /\ ret = 0 => /\ SignatureInPlace
                  /\ smlen = IF pc = "add" THEN SigLen ELSE SigLen + n

(* A signed message verifies exactly if it arrives as it was made. *)
Received ==
  pc = "open" =>
    /\ i = 0
    /\ smlen \in 0 .. Size
    /\ ~tampered => smlen = SigLen + n /\ TextInPlace /\ SignatureInPlace
    /\ tampered => smlen < SigLen \/ ~Verifies

(* The loop of crypto_sign_open has copied the first i bytes. *)
Opening ==
  pc = "copy" =>
    /\ ~tampered
    /\ mlen = n
    /\ i <= n
    /\ \A x \in i .. n - 1 : mem[SigLen + x] = TextByte(x)
    /\ \A x \in 0 .. i - 1 : mem[m_at + x] = TextByte(x)

Clearing ==
  pc = "clear" =>
    /\ tampered
    /\ mlen = 0
    /\ smlen \in 0 .. Size
    /\ i <= smlen
    /\ \A x \in 0 .. i - 1 : mem[m_at + x] = Zero

Opened ==
  pc = "opened" =>
    /\ ret = 0 <=> ~tampered
    /\ ret = 0 => mlen = n /\ \A x \in TextIndex : mem[m_at + x] = TextByte(x)
    /\ ret = -1 => mlen = 0 /\ \A x \in 0 .. smlen - 1 : mem[m_at + x] = Zero

CopyInv ==
  /\ Shape
  /\ Signing
  /\ Signed
  /\ Received
  /\ Opening
  /\ Clearing
  /\ Opened

-----------------------------------------------------------------------------
LEMMA Sizes ==
  /\ SigLen \in Nat /\ SigLen > 0
  /\ MaxLen \in Nat
  /\ StaleLen \subseteq Nat
  /\ SmAt = 0
  /\ Arrays = {0, SigLen + MaxLen}
  /\ Size = SigLen + MaxLen
  /\ Address = 0 .. 2 * (SigLen + MaxLen) - 1
BY SignedMessageAssumption DEF SmAt, Arrays, Size, Address

(* Noise is no byte that a signer or the caller wrote. *)
LEMMA NoiseIsNew ==
  ASSUME NEW x, NEW t
  PROVE  Noise # TextByte(x) /\ Noise # SigByte(t, x)
<1>1. DOMAIN Noise = 1 .. 1 /\ DOMAIN TextByte(x) = 1 .. 2 /\ DOMAIN SigByte(t, x) = 1 .. 3
  BY DEF Noise, TextByte, SigByte
<1> QED
  BY <1>1

(* A byte of a signature names the text it is for. *)
LEMMA SigByteBinds ==
  ASSUME NEW s, NEW t, NEW x, SigByte(s, x) = SigByte(t, x)
  PROVE  s = t
<1>1. SigByte(s, x)[3] = s /\ SigByte(t, x)[3] = t
  BY DEF SigByte
<1> QED
  BY <1>1

(* A block of memory is the message when its bytes are. *)
LEMMA BlockIsText ==
  ASSUME n \in Nat, NEW from \in Int, \A x \in TextIndex : mem[from + x] = TextByte(x)
  PROVE  Block(from, n) = Text
<1>1. ASSUME NEW y \in 1 .. n
      PROVE  mem[from + y - 1] = TextByte(y - 1)
  <2>1. y - 1 \in TextIndex /\ from + (y - 1) = from + y - 1
    BY <1>1 DEF TextIndex
  <2> QED
    BY <2>1
<1> QED
  BY <1>1 DEF Block, Text

(* A block that is the message has its length and its bytes. *)
LEMMA TextOfBlock ==
  ASSUME n \in Nat, NEW from \in Int, NEW length \in Nat, Block(from, length) = Text
  PROVE  /\ length = n
         /\ \A x \in TextIndex : mem[from + x] = TextByte(x)
<1>1. DOMAIN Block(from, length) = 1 .. length /\ DOMAIN Text = 1 .. n
  BY DEF Block, Text
<1>2. length = n
  BY <1>1
<1>3. ASSUME NEW x \in TextIndex
      PROVE  mem[from + x] = TextByte(x)
  <2> DEFINE y == x + 1
  <2>1. y \in 1 .. n /\ y \in 1 .. length /\ y - 1 = x /\ from + y - 1 = from + x
    BY <1>2, <1>3 DEF TextIndex
  <2> HIDE DEF y
  <2>2. Block(from, length)[y] = mem[from + y - 1]
    BY <2>1 DEF Block
  <2>3. Text[y] = TextByte(y - 1)
    BY <2>1 DEF Text
  <2> QED
    BY <2>1, <2>2, <2>3
<1> QED
  BY <1>2, <1>3

(* The copy and its signature, as crypto_sign_open reads them. *)
LEMMA InPlaceVerifies ==
  ASSUME n \in Nat, smlen = SigLen + n, TextInPlace, SignatureInPlace
  PROVE  Verifies
<1>1. smlen - SigLen = n /\ SmAt + SigLen = SigLen
  BY Sizes
<1>2. Block(SmAt + SigLen, smlen - SigLen) = Text
  BY <1>1, BlockIsText, Sizes DEF TextInPlace
<1> QED
  BY <1>2, Sizes DEF Verifies, SignatureInPlace

-----------------------------------------------------------------------------
LEMMA InitCopyInv ==
  ASSUME Init
  PROVE  CopyInv
<1>1. Shape
  BY Sizes DEF Init, Shape
<1>2. Signing
  <2>1. n \in Nat /\ n <= MaxLen /\ m_at \in {0, SigLen + MaxLen}
    BY Sizes DEF Init
  <2>2. ASSUME NEW x \in 0 .. n - 1
        PROVE  mem[m_at + x] = TextByte(x)
    <3> DEFINE a == m_at + x
    <3>1. a \in Address /\ a \in m_at .. m_at + n - 1 /\ a - m_at = x
      BY <2>1, <2>2, Sizes
    <3> HIDE DEF a
    <3>2. mem[a] = TextByte(a - m_at)
      BY <3>1 DEF Init
    <3>3. mem[a] = TextByte(x)
      BY <3>1, <3>2
    <3> QED
      BY <3>3 DEF a
  <2> QED
    BY <2>2, Sizes DEF Init, Signing
<1> QED
  BY <1>1, <1>2 DEF CopyInv, Init, Signed, Received, Opening, Clearing, Opened

(* The byte that is copied is read before anything is written over it.     *)
LEMMA SignCopyCopyInv ==
  ASSUME CopyInv, SignCopyStep
  PROVE  CopyInv'
<1> DEFINE to == SigLen + n - 1 - i
<1>1. /\ i \in Nat /\ n \in 0 .. MaxLen /\ i < n /\ m_at \in {0, SigLen + MaxLen}
      /\ DOMAIN mem = Address /\ to \in Address
  BY Sizes DEF CopyInv, Shape, SignCopyStep
<1>2. mem' = [mem EXCEPT ![to] = mem[m_at + n - 1 - i]]
  <2>1. SmAt + SigLen + n - 1 - i = to
    BY <1>1, Sizes
  <2> HIDE DEF to
  <2> QED
    BY <2>1 DEF SignCopyStep, SignCopy
<1>3. /\ DOMAIN mem' = Address
      /\ mem'[to] = mem[m_at + n - 1 - i]
      /\ \A a \in Int : a # to => mem'[a] = mem[a]
  BY <1>1, <1>2
<1>4. Shape'
  BY <1>1, <1>3, Sizes DEF CopyInv, Shape, SignCopyStep
<1>5. Signing'
  <2>1. ASSUME NEW x \in 0 .. n - (i + 1) - 1
        PROVE  mem'[m_at + x] = TextByte(x)
    <3>1. m_at + x \in Int /\ m_at + x # to /\ x \in 0 .. n - i - 1
      BY <1>1, <2>1, Sizes
    <3> QED
      BY <1>3, <3>1 DEF CopyInv, Signing, SignCopyStep
  <2>2. ASSUME NEW x \in n - (i + 1) .. n - 1
        PROVE  mem'[SigLen + x] = TextByte(x)
    <3>1. CASE x = n - 1 - i
      <4>1. SigLen + x = to /\ x \in 0 .. n - i - 1 /\ m_at + n - 1 - i = m_at + x
        BY <1>1, <3>1, Sizes
      <4> HIDE DEF to
      <4> QED
        BY <1>3, <4>1 DEF CopyInv, Signing, SignCopyStep
    <3>2. CASE x # n - 1 - i
      <4>1. SigLen + x \in Int /\ SigLen + x # to /\ x \in n - i .. n - 1
        BY <1>1, <2>2, <3>2, Sizes
      <4> HIDE DEF to
      <4> QED
        BY <1>3, <4>1 DEF CopyInv, Signing, SignCopyStep
    <3> QED
      BY <3>1, <3>2
  <2> QED
    BY <1>1, <2>1, <2>2 DEF CopyInv, SignCopyStep, Signing
<1> QED
  BY <1>4, <1>5 DEF CopyInv, SignCopyStep, Signed, Received, Opening, Clearing, Opened

LEMMA SignSignatureCopyInv ==
  ASSUME CopyInv, SignSignature
  PROVE  CopyInv'
<1>1. /\ n \in 0 .. MaxLen /\ i = n /\ n' = n
      /\ SmAt + SigLen = SigLen /\ Text' = Text
  BY Sizes DEF CopyInv, Shape, SignSignature, Text
<1>2. TextInPlace
  BY <1>1 DEF CopyInv, Signing, SignSignature, TextInPlace, TextIndex
<1>3. Block(SigLen, n) = Text
  BY <1>1, <1>2, BlockIsText, Sizes DEF TextInPlace
<1>4. mem' = [a \in Address |-> IF a \in 0 .. SigLen - 1 THEN SigByte(Text, a - SmAt) ELSE mem[a]]
  BY <1>1, <1>3, Sizes DEF SignSignature
<1>5. TextInPlace'
  <2>1. \A x \in TextIndex : SigLen + x \in Address /\ SigLen + x \notin 0 .. SigLen - 1
    BY <1>1, Sizes DEF TextIndex
  <2> QED
    BY <1>1, <1>2, <1>4, <2>1 DEF TextInPlace, TextIndex
<1>6. SignatureInPlace'
  <2>1. \A x \in 0 .. SigLen - 1 : x \in Address /\ x - SmAt = x
    BY Sizes
  <2>2. ASSUME NEW x \in 0 .. SigLen - 1
        PROVE  mem'[x] = SigByte(Text, x)
    <3>1. mem'[x] = SigByte(Text, x - SmAt)
      BY <1>4, <2>1
    <3> QED
      BY <2>1, <3>1
  <2> QED
    BY <1>1, <2>2 DEF SignatureInPlace
<1>7. Shape'
  BY <1>4, Sizes DEF CopyInv, Shape, SignSignature
<1> QED
  BY <1>1, <1>5, <1>6, <1>7 DEF CopyInv, SignSignature, Signing, Signed, Received, Opening, Clearing, Opened

LEMMA SignatureRefusedCopyInv ==
  ASSUME CopyInv, SignatureRefused
  PROVE  CopyInv'
<1>1. Shape'
  BY DEF CopyInv, Shape, SignatureRefused
<1>2. TextInPlace'
  BY DEF CopyInv, Shape, Signing, SignatureRefused, TextInPlace, TextIndex
<1> QED
  BY <1>1, <1>2
  DEF CopyInv, SignatureRefused, Signing, Signed, Received, Opening, Clearing, Opened

LEMMA AddLengthCopyInv ==
  ASSUME CopyInv, AddLength
  PROVE  CopyInv'
<1>1. Shape'
  BY Sizes DEF CopyInv, Shape, AddLength
<1>2. TextInPlace' /\ (ret' = 0 => SignatureInPlace' /\ smlen' = SigLen + n')
  BY DEF CopyInv, Signed, AddLength, TextInPlace, TextIndex, SignatureInPlace, Text
<1> QED
  BY <1>1, <1>2 DEF CopyInv, AddLength, Signing, Signed, Received, Opening, Clearing, Opened

-----------------------------------------------------------------------------
(* What was not sent as it was made does not verify: a byte of it is noise *)
(* or it has another length, and one byte of the signature at least still  *)
(* names the whole text.                                                   *)
LEMMA TamperedFails ==
  ASSUME CopyInv, NEW length \in 0 .. Size,
         NEW changed \in {{}} \cup {{a} : a \in SmAt .. SmAt + length - 1},
         OpenCall(length, changed), tampered', length >= SigLen
  PROVE  ~Verifies'
<1>1. /\ n \in Nat /\ n' = n /\ smlen = SigLen + n /\ smlen' = length
      /\ TextInPlace /\ SignatureInPlace /\ Text' = Text
      /\ SmAt + SigLen = SigLen /\ length \in Nat
      /\ length # SigLen + n \/ changed # {}
  <2>1. n \in Nat /\ n' = n /\ SmAt + SigLen = SigLen /\ length \in Nat
    BY Sizes DEF CopyInv, Shape, OpenCall
  <2>2. smlen = SigLen + n /\ TextInPlace /\ SignatureInPlace
    BY DEF CopyInv, Signed, OpenCall
  <2>3. smlen' = length /\ (length # smlen \/ changed # {})
    <3>1. tampered' = (length # smlen \/ changed # {})
      BY DEF OpenCall
    <3> QED
      BY <3>1, Zenon DEF OpenCall
  <2>4. Text' = Text
    BY <2>1 DEF Text
  <2> QED
    BY <2>1, <2>2, <2>3, <2>4
<1>2. mem' = [a \in Address |-> IF a \in changed THEN Noise ELSE mem[a]]
  BY DEF OpenCall
<1> SUFFICES ASSUME Verifies' PROVE FALSE
  OBVIOUS
<1>3. \A j \in 0 .. SigLen - 1 : mem'[j] = SigByte(Block(SigLen, length - SigLen)', j)
  <2>1. \A j \in 0 .. SigLen - 1 : SmAt + j = j
    BY Sizes
  <2>2. \A j \in 0 .. SigLen - 1 :
          mem'[SmAt + j] = SigByte(Block(SigLen, length - SigLen)', j)
    BY <1>1 DEF Verifies, Block
  <2> QED
    BY <2>1, <2>2
<1>4. \A j \in 0 .. SigLen - 1 : j \notin changed
  <2>1. ASSUME NEW j \in 0 .. SigLen - 1, j \in changed
        PROVE  FALSE
    <3>1. j \in Address
      BY <2>1, Sizes
    <3>2. mem'[j] = Noise
      BY <1>2, <2>1, <3>1
    <3> QED
      BY <1>3, <2>1, <3>2, NoiseIsNew
  <2> QED
    BY <2>1
<1>5. Block(SigLen, length - SigLen)' = Text'
  <2>1. 0 \in 0 .. SigLen - 1 /\ 0 \in Address
    BY Sizes
  <2>2. mem'[0] = SigByte(Text, 0)
    BY <1>1, <1>2, <1>4, <2>1 DEF SignatureInPlace
  <2>3. SigByte(Block(SigLen, length - SigLen)', 0) = SigByte(Text, 0)
    BY <1>3, <2>1, <2>2
  <2> QED
    BY <1>1, <2>3, SigByteBinds
<1>6. length = SigLen + n /\ \A x \in TextIndex : mem'[SigLen + x] = TextByte(x)
  <2>1. SigLen \in Int /\ length - SigLen \in Nat
    BY <1>1, Sizes
  <2>2. DOMAIN Block(SigLen, length - SigLen)' = 1 .. length - SigLen /\ DOMAIN Text = 1 .. n
    BY DEF Block, Text
  <2>3. length - SigLen = n
    BY <1>1, <1>5, <2>1, <2>2
  <2>4. ASSUME NEW x \in TextIndex
        PROVE  mem'[SigLen + x] = TextByte(x)
    <3> DEFINE y == x + 1
    <3>1. y \in 1 .. n /\ y \in 1 .. length - SigLen /\ y - 1 = x /\ SigLen + y - 1 = SigLen + x
      BY <1>1, <2>1, <2>3, <2>4 DEF TextIndex
    <3> HIDE DEF y
    <3>2. Block(SigLen, length - SigLen)'[y] = mem'[SigLen + y - 1]
      BY <3>1 DEF Block
    <3>3. Text[y] = TextByte(y - 1)
      BY <3>1 DEF Text
    <3> QED
      BY <1>1, <1>5, <3>1, <3>2, <3>3
  <2> QED
    BY <1>1, <2>1, <2>3, <2>4
<1>7. PICK a \in 0 .. length - 1 : changed = {a}
  BY <1>1, <1>6, Sizes
<1>8. a \in Address /\ mem'[a] = Noise
  BY <1>2, <1>7, Sizes
<1>9. a - SigLen \in TextIndex /\ SigLen + (a - SigLen) = a
  BY <1>1, <1>4, <1>6, <1>7, Sizes DEF TextIndex
<1> QED
  BY <1>6, <1>8, <1>9, NoiseIsNew

LEMMA TransmissionCopyInv ==
  ASSUME CopyInv, Transmission
  PROVE  CopyInv'
<1>1. PICK length \in 0 .. Size :
        \E changed \in {{}} \cup {{a} : a \in SmAt .. SmAt + length - 1} :
          OpenCall(length, changed)
  BY DEF Transmission
<1>2. PICK changed \in {{}} \cup {{a} : a \in SmAt .. SmAt + length - 1} : OpenCall(length, changed)
  BY <1>1
<1>3. Shape'
  <2>1. tampered' \in BOOLEAN /\ length \in Nat
    BY <1>2, Sizes DEF OpenCall
  <2> QED
    BY <1>2, <2>1 DEF CopyInv, Shape, OpenCall
<1>4. ASSUME ~tampered'
      PROVE  smlen' = SigLen + n' /\ TextInPlace' /\ SignatureInPlace'
  <2>1. /\ n \in 0 .. MaxLen /\ n' = n /\ Text' = Text /\ smlen' = SigLen + n
        /\ TextInPlace /\ SignatureInPlace
        /\ \A a \in Address : mem'[a] = mem[a]
    BY <1>2, <1>4 DEF CopyInv, Shape, Signed, OpenCall, Text
  <2>2. /\ \A x \in TextIndex : SigLen + x \in Address
        /\ \A j \in 0 .. SigLen - 1 : j \in Address
    BY <2>1, Sizes DEF TextIndex
  <2> QED
    BY <2>1, <2>2 DEF TextInPlace, SignatureInPlace, TextIndex
<1>5. ASSUME tampered'
      PROVE  smlen' < SigLen \/ ~Verifies'
  <2>1. smlen' = length /\ length \in Nat
    BY <1>2, Sizes DEF OpenCall
  <2>2. CASE length >= SigLen
    BY <1>2, <1>5, <2>2, TamperedFails
  <2> QED
    BY <2>1, <2>2, Sizes
<1>6. Received'
  <2>1. i' = 0 /\ smlen' \in 0 .. Size
    BY <1>2, Sizes DEF OpenCall, Size
  <2> QED
    BY <1>4, <1>5, <2>1, Sizes DEF Received, Size
<1>7. pc' = "open"
  BY <1>2 DEF OpenCall
<1> QED
  BY <1>3, <1>6, <1>7 DEF CopyInv, Signing, Signed, Opening, Clearing, Opened

LEMMA OpenGoodCopyInv ==
  ASSUME CopyInv, OpenGood
  PROVE  CopyInv'
<1>1. ~tampered /\ smlen = SigLen + n /\ TextInPlace /\ i = 0 /\ n \in 0 .. MaxLen
  BY Sizes DEF CopyInv, Shape, Received, OpenGood
<1>2. mlen' = n
  BY <1>1, Sizes DEF OpenGood, TextLength
<1>3. Shape'
  BY <1>1, <1>2 DEF CopyInv, Shape, OpenGood
<1>4. Opening'
  BY <1>1, <1>2 DEF OpenGood, Opening, TextInPlace, TextIndex
<1> QED
  BY <1>3, <1>4 DEF CopyInv, OpenGood, Signing, Signed, Received, Clearing, Opened

LEMMA OpenBadCopyInv ==
  ASSUME CopyInv, OpenBad
  PROVE  CopyInv'
<1>1. tampered
  <2>1. CASE smlen < SigLen
    BY <2>1, Sizes DEF CopyInv, Shape, Received, OpenBad
  <2>2. CASE ~Verifies
    BY <2>2, InPlaceVerifies DEF CopyInv, Shape, Received, OpenBad
  <2> QED
    BY <2>1, <2>2 DEF OpenBad
<1>2. Shape'
  BY DEF CopyInv, Shape, OpenBad
<1>3. Clearing'
  BY <1>1, Sizes DEF CopyInv, Received, OpenBad, Clearing, Size
<1> QED
  BY <1>2, <1>3 DEF CopyInv, OpenBad, Signing, Signed, Received, Opening, Opened

(* No byte of the text that is still to be read lies before the one that   *)
(* is written.                                                             *)
LEMMA OpenCopyCopyInv ==
  ASSUME CopyInv, OpenCopyStep
  PROVE  CopyInv'
<1> DEFINE to == m_at + i
<1>1. /\ i \in Nat /\ n \in 0 .. MaxLen /\ i < n /\ m_at \in {0, SigLen + MaxLen}
      /\ DOMAIN mem = Address /\ to \in Address
  BY Sizes DEF CopyInv, Shape, Opening, OpenCopyStep
<1>2. mem' = [mem EXCEPT ![to] = mem[SigLen + i]]
  <2>1. SmAt + SigLen + i = SigLen + i
    BY <1>1, Sizes
  <2> QED
    BY <2>1 DEF OpenCopyStep, OpenCopy
<1>3. /\ DOMAIN mem' = Address
      /\ mem'[to] = mem[SigLen + i]
      /\ \A a \in Int : a # to => mem'[a] = mem[a]
  BY <1>1, <1>2
<1>4. Shape'
  BY <1>1, <1>3 DEF CopyInv, Shape, OpenCopyStep
<1>5. Opening'
  <2>1. ASSUME NEW x \in i + 1 .. n - 1
        PROVE  mem'[SigLen + x] = TextByte(x)
    <3>1. SigLen + x \in Int /\ SigLen + x # to /\ x \in i .. n - 1
      BY <1>1, <2>1, Sizes
    <3> QED
      BY <1>3, <3>1 DEF CopyInv, Opening, OpenCopyStep
  <2>2. ASSUME NEW x \in 0 .. i
        PROVE  mem'[m_at + x] = TextByte(x)
    <3>1. CASE x = i
      <4>1. i \in i .. n - 1
        BY <1>1
      <4> QED
        BY <1>3, <3>1, <4>1 DEF CopyInv, Opening, OpenCopyStep
    <3>2. CASE x # i
      <4>1. m_at + x \in Int /\ m_at + x # to /\ x \in 0 .. i - 1
        BY <1>1, <2>2, <3>2, Sizes
      <4> HIDE DEF to
      <4> QED
        BY <1>3, <4>1 DEF CopyInv, Opening, OpenCopyStep
    <3> QED
      BY <3>1, <3>2
  <2>3. i' = i + 1 /\ i' - 1 = i
    BY <1>1 DEF OpenCopyStep
  <2> QED
    BY <1>1, <2>1, <2>2, <2>3 DEF CopyInv, OpenCopyStep, Opening
<1> QED
  BY <1>4, <1>5 DEF CopyInv, OpenCopyStep, Signing, Signed, Received, Clearing, Opened

LEMMA OpenCopiedCopyInv ==
  ASSUME CopyInv, OpenCopied
  PROVE  CopyInv'
<1>1. Shape'
  BY DEF CopyInv, Shape, OpenCopied
<1>2. Opened'
  BY DEF CopyInv, Opening, OpenCopied, Opened, TextIndex
<1> QED
  BY <1>1, <1>2 DEF CopyInv, OpenCopied, Signing, Signed, Received, Opening, Clearing

LEMMA OpenClearCopyInv ==
  ASSUME CopyInv, OpenClearStep
  PROVE  CopyInv'
<1> DEFINE to == m_at + i
<1>1. /\ i \in Nat /\ i < smlen /\ smlen \in 0 .. Size /\ m_at \in {0, SigLen + MaxLen}
      /\ DOMAIN mem = Address /\ to \in Address
  BY Sizes DEF CopyInv, Shape, Clearing, OpenClearStep, BadLength
<1>2. mem' = [mem EXCEPT ![to] = Zero]
  BY DEF OpenClearStep
<1>3. /\ DOMAIN mem' = Address
      /\ mem'[to] = Zero
      /\ \A a \in Int : a # to => mem'[a] = mem[a]
  BY <1>1, <1>2
<1>4. Shape'
  BY <1>1, <1>3 DEF CopyInv, Shape, OpenClearStep
<1>5. Clearing'
  <2>1. ASSUME NEW x \in 0 .. i
        PROVE  mem'[m_at + x] = Zero
    <3>1. CASE x = i
      BY <1>3, <3>1
    <3>2. CASE x # i
      <4>1. m_at + x \in Int /\ m_at + x # to /\ x \in 0 .. i - 1
        BY <1>1, <2>1, <3>2, Sizes
      <4> HIDE DEF to
      <4> QED
        BY <1>3, <4>1 DEF CopyInv, Clearing, OpenClearStep
    <3> QED
      BY <3>1, <3>2
  <2>2. i' = i + 1 /\ i' - 1 = i /\ i' <= smlen'
    BY <1>1, Sizes DEF OpenClearStep
  <2> QED
    BY <2>1, <2>2 DEF CopyInv, OpenClearStep, Clearing, Size
<1> QED
  BY <1>4, <1>5 DEF CopyInv, OpenClearStep, Signing, Signed, Received, Opening, Opened

LEMMA OpenClearedCopyInv ==
  ASSUME CopyInv, OpenCleared
  PROVE  CopyInv'
<1>1. Shape'
  BY DEF CopyInv, Shape, OpenCleared
<1>2. i = smlen
  BY Sizes DEF CopyInv, Shape, Clearing, OpenCleared, BadLength
<1>3. Opened'
  BY <1>2 DEF CopyInv, Clearing, OpenCleared, Opened
<1> QED
  BY <1>1, <1>3 DEF CopyInv, OpenCleared, Signing, Signed, Received, Opening, Clearing

LEMMA StutterCopyInv ==
  ASSUME CopyInv, UNCHANGED vars
  PROVE  CopyInv'
<1>1. Shape' /\ Signing' /\ Signed' /\ Opening' /\ Clearing' /\ Opened'
  BY DEF CopyInv, Shape, Signing, Signed, Opening, Clearing, Opened, TextInPlace,
         SignatureInPlace, TextIndex, Text, vars
<1>2. Received'
  BY DEF CopyInv, Received, TextInPlace, SignatureInPlace, TextIndex, Text, Verifies, Block, vars
<1> QED
  BY <1>1, <1>2 DEF CopyInv

THEOREM CopyCorrect == Spec => []CopyInv
<1>1. Init => CopyInv
  BY InitCopyInv
<1>2. CopyInv /\ [Next]_vars => CopyInv'
  BY SignCopyCopyInv, SignSignatureCopyInv, SignatureRefusedCopyInv, AddLengthCopyInv,
     TransmissionCopyInv, OpenGoodCopyInv, OpenBadCopyInv, OpenCopyCopyInv, OpenCopiedCopyInv,
     OpenClearCopyInv, OpenClearedCopyInv, StutterCopyInv
  DEF Next
<1> QED
  BY <1>1, <1>2, PTL DEF Spec

-----------------------------------------------------------------------------
(* crypto_sign signs the message, in either layout (sign.c 293-297).       *)
THEOREM SignCorrect == Spec => []SignsTheMessage
<1>1. CopyInv => SignsTheMessage
  <2> SUFFICES ASSUME CopyInv, pc = "signed" PROVE SignsTheMessage
    BY DEF SignsTheMessage
  <2>1. n \in Nat /\ SmAt + SigLen = SigLen /\ SigLen \in Int
    BY Sizes DEF CopyInv, Shape
  <2>2. Block(SmAt + SigLen, n) = Text
    BY <2>1, BlockIsText DEF CopyInv, Signed, TextInPlace
  <2>3. \A j \in 0 .. SigLen - 1 : SmAt + j = j
    BY Sizes
  <2> QED
    BY <2>2, <2>3 DEF CopyInv, Signed, SignatureInPlace, SignsTheMessage
<1> QED
  BY <1>1, CopyCorrect, PTL

(* crypto_sign_open gives the message back, and accepts nothing that was   *)
(* changed, in either layout (sign.c 451-463).                             *)
THEOREM OpenCorrect == Spec => []OpensTheMessage
<1>1. CopyInv => OpensTheMessage
  <2> SUFFICES ASSUME CopyInv, pc = "opened" PROVE OpensTheMessage
    BY DEF OpensTheMessage
  <2>1. ret = 0 => mlen = n /\ Block(m_at, n) = Text
    BY BlockIsText, Sizes DEF CopyInv, Shape, Opened
  <2> QED
    BY <2>1 DEF CopyInv, Opened, OpensTheMessage
<1> QED
  BY <1>1, CopyCorrect, PTL

(* badsig leaves none of the bytes in the output (sign.c 465-471).         *)
THEOREM ClearCorrect == Spec => []NothingReleased
<1>1. CopyInv => NothingReleased
  <2> SUFFICES ASSUME CopyInv, pc = "opened", ret = -1 PROVE NothingReleased
    BY DEF NothingReleased
  <2>1. ASSUME NEW a \in m_at .. m_at + smlen - 1
        PROVE  mem[a] = Zero
    <3>1. a - m_at \in 0 .. smlen - 1 /\ m_at + (a - m_at) = a
      BY <2>1, Sizes DEF CopyInv, Shape
    <3> QED
      BY <3>1 DEF CopyInv, Opened
  <2> QED
    BY <2>1 DEF CopyInv, Opened, NothingReleased
<1> QED
  BY <1>1, CopyCorrect, PTL
=============================================================================
