---------------------------- MODULE SamplersProofs ----------------------------
(***************************************************************************)
(* What MCSamplers checks of a few sizes, proved of all that the           *)
(* assumptions of its modules allow:                                       *)
(*   - rejection sampling: the window is a piece of the stream that begins *)
(*     where a candidate begins, and behind the last coefficient only      *)
(*     candidates that are too large were passed over;                     *)
(*   - key generation: what c-lowram has packed after so many columns and  *)
(*     rows, each polynomial at its place and no place used twice, and the *)
(*     same of the keys that c-ref packs at once;                          *)
(*   - the challenge: after every byte the loop has what the definition    *)
(*     has after as many bytes, wherever the buffer was filled again; the  *)
(*     compressed form has every position that is not zero once, so that   *)
(*     unpacking it gives the challenge back, and the sum over its         *)
(*     positions is the sum over all coefficients.                         *)
(***************************************************************************)
EXTENDS MCSamplers, SequenceTheorems, FiniteSetTheorems, IntegerLemmas

-----------------------------------------------------------------------------
(* Rejection sampling.                                                     *)

(* A multiple of m and the next one. *)
LEMMA Multiples ==
  ASSUME NEW m \in Nat \ {0}, NEW x \in Nat, x % m = 0
  PROVE  /\ x \div m \in Nat
         /\ x = (x \div m) * m
         /\ (x + m) % m = 0
         /\ (x + m) \div m = x \div m + 1
<1> DEFINE p == x \div m  q == (x + m) \div m
<1>1. p \in Int /\ x = m * p + (x % m)
  BY Division
<1>2. (x + m) % m = x % m
  <2> PICK k \in Int : k = 1
    OBVIOUS
  <2> x \in Int
    OBVIOUS
  <2>1. (x + m * k) % m = x % m
    BY RemainderOfSum
  <2>2. x + m * k = x + m
    OBVIOUS
  <2> QED
    BY <2>1, <2>2
<1>3. q \in Int /\ x + m = m * q + ((x + m) % m)
  <2>1. x + m \in Int
    OBVIOUS
  <2> QED
    BY <2>1, Division
<1> HIDE DEF p, q
<1>4. x = m * p /\ x + m = m * q
  BY <1>1, <1>2, <1>3
<1>5. m * (p + 1) + 0 = m * q + 0 /\ 0 \in 0 .. m - 1 /\ p + 1 \in Int
  BY <1>1, <1>4
<1>6. q = p + 1
  BY <1>3, <1>5, DivisionUnique
<1>7. p \in Nat /\ x = p * m
  BY <1>1, <1>4
<1> QED
  BY <1>2, <1>6, <1>7 DEF p, q

LEMMA WithMultiple ==
  ASSUME NEW m \in Nat \ {0}, NEW x \in Nat, NEW y \in Int, x % m = 0
  PROVE  (y + x) % m = y % m
<1>1. x \div m \in Int /\ x = m * (x \div m) + (x % m)
  BY Division
<1>2. y + x = y + m * (x \div m)
  BY <1>1
<1> QED
  BY <1>1, <1>2, RemainderOfSum

(* What is left after the last whole multiple. *)
LEMMA LeftOver ==
  ASSUME NEW m \in Nat \ {0}, NEW x \in Nat, NEW y \in Nat, x % m = 0, x <= y, y - x < m
  PROVE  y % m = y - x
<1> PICK d \in 0 .. m - 1 : d = y - x
  OBVIOUS
<1> d \in Int
  OBVIOUS
<1>1. (d + x) % m = d % m
  BY WithMultiple
<1>2. d + x = y /\ d % m = d
  BY RemainderOfSmall
<1> QED
  BY <1>1, <1>2

(* Where the window begins in the stream, and the candidate looked at next. *)
Begin == drawn * sampler.perByte - Len(window)
Upcoming == (Begin + taken) \div sampler.perCandidate

SamplingTyped ==
  /\ sampler \in Sampler
  /\ verdict \in [0 .. (Decided - 1) -> BOOLEAN]
  /\ drawn \in Nat /\ window \in Seq(Nat) /\ taken \in 0 .. Len(window)
  /\ coeffs \in Seq(Seq(Nat)) /\ Len(coeffs) <= Wanted
  /\ Len(window) <= (sampler.first + 2) * sampler.perByte

(* The window is a piece of the stream that begins with a whole candidate. *)
WindowInStream ==
  /\ Begin \in Nat
  /\ \A n \in 1 .. Len(window) : window[n] = Begin + n - 1
  /\ Begin % sampler.perCandidate = 0
  /\ taken % sampler.perCandidate = 0
  /\ ~sampler.carries => Len(window) % sampler.perCandidate = 0
  /\ drawn = 0 => window = << >>

(* Behind the last coefficient all candidates so far were too large. *)
NoneLost ==
  /\ \A n \in 0 .. Len(coeffs) : At(n) \in Int
  /\ At(Len(coeffs)) < Upcoming
  /\ \A k \in (At(Len(coeffs)) + 1) .. (Upcoming - 1) : ~SmallEnough(k)

SamplingInv == SamplingTyped /\ WindowInStream /\ NoneLost /\ SampledInOrder

LEMMA SamplerTyped ==
  ASSUME SamplingTyped
  PROVE  /\ sampler.perByte \in Nat \ {0} /\ sampler.perCandidate \in Nat \ {0}
         /\ sampler.first \in Nat \ {0} /\ sampler.later \in Nat \ {0}
         /\ sampler.carries \in BOOLEAN
         /\ sampler.later <= sampler.first
         /\ sampler.carries => sampler.perCandidate - 1 <= 2 * sampler.perByte
         /\ ~sampler.carries =>
              /\ (sampler.first * sampler.perByte) % sampler.perCandidate = 0
              /\ (sampler.later * sampler.perByte) % sampler.perCandidate = 0
         /\ Wanted \in Nat \ {0}
<1>1. sampler \in Sampler /\ sampler \in Samplers
  BY SamplerAssumption DEF SamplingTyped
<1> QED
  BY <1>1, SamplerAssumption DEF Samplers

LEMMA SamplingInitial == SamplingInit => SamplingInv
<1> SUFFICES ASSUME SamplingInit PROVE SamplingInv
  OBVIOUS
<1>1. SamplingTyped
  <2>1. sampler \in Samplers
    BY SamplerAssumption DEF SamplingInit
  <2>2. sampler.first \in Nat /\ sampler.perByte \in Nat
    BY <2>1 DEF Samplers
  <2>3. 0 <= (sampler.first + 2) * sampler.perByte
    BY <2>2
  <2> QED
    BY <2>3, SamplerAssumption DEF SamplingInit, SamplingTyped
<1>2. Begin = 0 /\ Len(window) = 0 /\ Len(coeffs) = 0 /\ window = << >> /\ taken = 0
  BY <1>1, SamplerTyped DEF SamplingInit, Begin
<1>3. 0 % sampler.perCandidate = 0 /\ 0 \div sampler.perCandidate = 0
  BY <1>1, SamplerTyped
<1>4. WindowInStream
  BY <1>2, <1>3 DEF WindowInStream
<1>5. Upcoming = 0
  BY <1>2, <1>3 DEF Upcoming
<1>6. NoneLost
  BY <1>2, <1>5 DEF NoneLost, At
<1> QED
  BY <1>1, <1>2, <1>4, <1>6 DEF SamplingInv, SampledInOrder

(* A candidate of the window is the one the definition cuts. *)
LEMMA CandidateCut ==
  ASSUME SamplingTyped, WindowInStream, WholeCandidate
  PROVE  /\ Candidate = InStream(Upcoming) /\ Number(Candidate) = Upcoming
         /\ Candidate \in Seq(Nat) /\ Upcoming \in Nat
<1> DEFINE pc == sampler.perCandidate  first == Begin + taken
<1>1. pc \in Nat \ {0} /\ Begin \in Nat /\ taken \in Nat /\ taken + pc <= Len(window)
      /\ window \in Seq(Nat) /\ Len(window) \in Nat
  BY SamplerTyped DEF SamplingTyped, WindowInStream, WholeCandidate
<1>2. first \in Nat /\ first % pc = 0
  <2>1. taken % pc = 0 /\ Begin % pc = 0
    BY DEF WindowInStream
  <2> HIDE DEF pc
  <2> Begin \in Int
    BY <1>1
  <2>2. (Begin + taken) % pc = Begin % pc
    BY <1>1, <2>1, WithMultiple
  <2> QED
    BY <1>1, <2>1, <2>2
<1>3. Upcoming \in Nat /\ first = Upcoming * pc
  <2>1. Upcoming = first \div pc
    BY DEF Upcoming
  <2> HIDE DEF pc, first
  <2> QED
    BY <1>1, <1>2, <2>1, Multiples
<1>4. \A n \in 1 .. Len(window) : window[n] = Begin + n - 1
  BY DEF WindowInStream
<1>5. /\ Candidate \in Seq(Nat) /\ Len(Candidate) = pc
      /\ \A u \in 1 .. pc : Candidate[u] = window[taken + u]
  <2>1. Candidate = SubSeq(window, taken + 1, taken + pc)
    BY DEF Candidate
  <2> HIDE DEF pc
  <2>2. taken + 1 \in Int /\ taken + pc \in Int /\ taken + 1 <= taken + pc
        /\ \A u \in taken + 1 .. taken + pc : window[u] \in Nat
    BY <1>1
  <2>3. (taken + pc) - (taken + 1) + 1 = pc /\ \A u \in 1 .. pc : (taken + 1) + u - 1 = taken + u
    BY <1>1
  <2> QED
    BY <2>1, <2>2, <2>3, SubSeqProperties
<1>6. \A u \in 1 .. pc : window[taken + u] = Upcoming * pc + u - 1
  <2> SUFFICES ASSUME NEW u \in 1 .. pc PROVE window[taken + u] = Upcoming * pc + u - 1
    OBVIOUS
  <2>1. taken + u \in 1 .. Len(window)
    BY <1>1
  <2>2. window[taken + u] = Begin + (taken + u) - 1
    BY <1>4, <2>1
  <2> QED
    BY <1>1, <1>3, <2>2
<1>7. Candidate = InStream(Upcoming)
  <2>1. \A u \in 1 .. pc : Candidate[u] = Upcoming * pc + u - 1
    BY <1>5, <1>6
  <2>2. Candidate = [u \in 1 .. pc |-> Candidate[u]]
    BY <1>5
  <2> QED
    BY <2>1, <2>2 DEF InStream
<1>8. Candidate[1] = first
  <2>1. 1 \in 1 .. pc
    BY <1>1
  <2>2. Candidate[1] = Upcoming * pc + 1 - 1
    BY <1>5, <1>6, <2>1
  <2>3. first \in Nat /\ Upcoming * pc = first
    BY <1>2, <1>3
  <2> HIDE DEF first, pc
  <2> QED
    BY <2>2, <2>3
<1> QED
  BY <1>3, <1>5, <1>7, <1>8 DEF Number, Upcoming

LEMMA LookInv ==
  ASSUME SamplingInv, Look
  PROVE  SamplingInv'
<1> USE DEF SamplingInv
<1> DEFINE pc == sampler.perCandidate
<1> PICK last \in Nat : last = Len(coeffs)
  BY DEF SamplingTyped
<1>1. /\ WholeCandidate /\ last < Wanted /\ taken' = taken + pc
      /\ coeffs' = IF Accepted(Candidate) THEN Append(coeffs, Candidate) ELSE coeffs
      /\ UNCHANGED <<sampler, verdict, drawn, window>>
  BY DEF Look, Room
<1>2. /\ Candidate = InStream(Upcoming) /\ Number(Candidate) = Upcoming
      /\ Candidate \in Seq(Nat) /\ Upcoming \in Nat
  BY <1>1, CandidateCut
<1>3. pc \in Nat \ {0} /\ Wanted \in Nat /\ last \in Nat /\ taken \in Nat /\ Begin \in Nat
      /\ taken % pc = 0 /\ Begin % pc = 0
  BY SamplerTyped DEF SamplingTyped, WindowInStream
<1>4. SamplingTyped'
  <2>1. taken' \in 0 .. Len(window')
    BY <1>1, <1>3 DEF WholeCandidate, SamplingTyped
  <2>2. coeffs' \in Seq(Seq(Nat)) /\ Len(coeffs') <= Wanted
    BY <1>1, <1>2, <1>3 DEF SamplingTyped
  <2> QED
    BY <1>1, <2>1, <2>2 DEF SamplingTyped
<1>5. Begin' = Begin
  BY <1>1 DEF Begin
<1>6. (taken + pc) % pc = 0
  <2> HIDE DEF pc
  <2> QED
    BY <1>3, Multiples
<1>7. WindowInStream'
  BY <1>1, <1>5, <1>6 DEF WindowInStream
<1>8. Upcoming' = Upcoming + 1
  <2>1. Upcoming = (Begin + taken) \div pc /\ Upcoming' = ((Begin + taken) + pc) \div pc
    <3>1. Begin' + taken' = (Begin + taken) + pc
      BY <1>1, <1>3, <1>5
    <3> QED
      BY <1>1, <3>1 DEF Upcoming
  <2> HIDE DEF pc
  <2>2. (Begin + taken) % pc = 0
    <3> Begin \in Int
      BY <1>3
    <3> QED
      BY <1>3, WithMultiple
  <2>3. Begin + taken \in Nat
    BY <1>3
  <2> QED
    BY <1>3, <2>1, <2>2, <2>3, Multiples
<1>9. /\ \A n \in 0 .. last : At(n) \in Int
      /\ At(last) < Upcoming
      /\ \A k \in (At(last) + 1) .. (Upcoming - 1) : ~SmallEnough(k)
  BY DEF NoneLost
<1>10. \A k : SmallEnough(k)' = SmallEnough(k) /\ InStream(k)' = InStream(k)
  BY <1>1 DEF SmallEnough, InStream
<1>11. Accepted(Candidate) = SmallEnough(Upcoming)
  BY <1>2 DEF Accepted
<1>12. CASE ~Accepted(Candidate)
  <2>1. coeffs' = coeffs /\ \A n : At(n)' = At(n)
    BY <1>1, <1>12 DEF At, Number
  <2>2. NoneLost'
    BY <1>2, <1>8, <1>9, <1>10, <1>11, <1>12, <2>1 DEF NoneLost
  <2>3. SampledInOrder'
    BY <1>10, <2>1 DEF SampledInOrder
  <2> QED
    BY <1>4, <1>7, <2>2, <2>3
<1>13. CASE Accepted(Candidate)
  <2>1. /\ coeffs' = Append(coeffs, Candidate) /\ Len(coeffs') = last + 1
        /\ coeffs'[last + 1] = Candidate
        /\ \A n \in 1 .. last : coeffs'[n] = coeffs[n]
    BY <1>1, <1>2, <1>13 DEF SamplingTyped
  <2>2. \A n \in 0 .. last : At(n)' = At(n)
    <3> SUFFICES ASSUME NEW n \in 0 .. last PROVE At(n)' = At(n)
      OBVIOUS
    <3>1. n = 0 \/ n \in 1 .. last
      OBVIOUS
    <3> QED
      BY <1>1, <2>1, <3>1 DEF At, Number
  <2>3. \A n \in Nat : n = last + 1 => At(n)' = Upcoming
    BY <1>1, <1>2, <1>3, <2>1 DEF At, Number
  <2>4. \A n \in 1 .. last + 1 : At(n - 1)' = At(n - 1)
    <3> SUFFICES ASSUME NEW n \in 1 .. last + 1 PROVE At(n - 1)' = At(n - 1)
      OBVIOUS
    <3>1. n - 1 = 0 \/ n - 1 \in 1 .. last
      OBVIOUS
    <3> QED
      BY <1>1, <2>1, <3>1 DEF At, Number
  <2>5. NoneLost'
    <3>1. \A n \in 0 .. last + 1 : At(n)' \in Int
      <4> SUFFICES ASSUME NEW n \in 0 .. last + 1 PROVE At(n)' \in Int
        OBVIOUS
      <4>1. n \in 0 .. last \/ n = last + 1
        OBVIOUS
      <4> QED
        BY <1>2, <1>9, <2>2, <2>3, <4>1
    <3>2. At(last + 1)' < Upcoming'
      BY <1>2, <1>8, <2>3
    <3>3. \A k \in (At(last + 1)' + 1) .. (Upcoming' - 1) : FALSE
      BY <1>2, <1>8, <2>3
    <3> QED
      BY <2>1, <3>1, <3>2, <3>3 DEF NoneLost
  <2>6. SampledInOrder'
    <3> SUFFICES ASSUME NEW n \in 1 .. last + 1
                 PROVE  /\ coeffs'[n] = InStream(At(n)')
                        /\ At(n - 1)' < At(n)'
                        /\ \A k \in (At(n - 1)' + 1) .. At(n)' : SmallEnough(k) <=> k = At(n)'
      BY <1>10, <2>1 DEF SampledInOrder
    <3>1. CASE n = last + 1
      <4>1. n - 1 = last /\ n - 1 \in 0 .. last
        BY <3>1
      <4>2. At(n - 1)' = At(n - 1)
        BY <2>4, Zenon
      <4>3. At(n - 1) = At(last)
        BY <4>1
      <4>4. At(n)' = Upcoming
        BY <2>3, <3>1
      <4>5. \A k \in (At(last) + 1) .. Upcoming : SmallEnough(k) <=> k = Upcoming
        <5> SUFFICES ASSUME NEW k \in (At(last) + 1) .. Upcoming
                     PROVE  SmallEnough(k) <=> k = Upcoming
          OBVIOUS
        <5>1. At(last) \in Int
          BY <1>9
        <5>2. k = Upcoming \/ k \in (At(last) + 1) .. (Upcoming - 1)
          BY <1>2, <5>1
        <5>3. Upcoming - 1 # Upcoming /\ Upcoming \notin (At(last) + 1) .. (Upcoming - 1)
          BY <1>2, <5>1
        <5> QED
          BY <1>9, <1>11, <1>13, <5>2, <5>3
      <4>6. coeffs'[n] = InStream(Upcoming)
        BY <1>2, <2>1, <3>1
      <4>7. At(n - 1)' = At(last)
        BY <4>2, <4>3, Zenon
      <4> QED
        BY <1>9, <4>4, <4>5, <4>6, <4>7
    <3>2. CASE n \in 1 .. last
      <4>1. At(n - 1)' = At(n - 1) /\ At(n)' = At(n) /\ coeffs'[n] = coeffs[n]
        BY <2>1, <2>2, <2>4, <3>2
      <4> QED
        BY <3>2, <4>1 DEF SampledInOrder
    <3> QED
      BY <1>3, <3>1, <3>2
  <2> QED
    BY <1>4, <1>7, <2>5, <2>6
<1> QED
  BY <1>12, <1>13

LEMMA UnitsInStream ==
  ASSUME NEW from \in Nat, NEW size \in Nat, sampler.perByte \in Nat \ {0}
  PROVE  /\ Units(from, size) \in Seq(Nat)
         /\ Len(Units(from, size)) = size * sampler.perByte
         /\ size * sampler.perByte \in Nat /\ from * sampler.perByte \in Nat
         /\ \A n \in 1 .. size * sampler.perByte :
              Units(from, size)[n] = from * sampler.perByte + n - 1
<1> DEFINE f == from * sampler.perByte  z == size * sampler.perByte
<1>1. f \in Nat /\ z \in Nat
  OBVIOUS
<1>2. Units(from, size) = [n \in 1 .. z |-> f + n - 1]
  BY DEF Units
<1> HIDE DEF f, z
<1>3. \A n \in 1 .. z : f + n - 1 \in Nat
  BY <1>1
<1>4. /\ Units(from, size) \in Seq(Nat) /\ Len(Units(from, size)) = z
      /\ \A n \in 1 .. z : Units(from, size)[n] = f + n - 1
  BY <1>1, <1>2, <1>3
<1> QED
  BY <1>1, <1>4 DEF f, z

(* A request moves nothing: the window grows at its end, and loses only    *)
(* what was looked at.                                                     *)
LEMMA RequestKeeps ==
  ASSUME SamplingInv, UNCHANGED <<sampler, verdict, coeffs>>, taken' = 0,
         Begin' = Begin + taken
  PROVE  NoneLost' /\ SampledInOrder'
<1>1. Begin' + taken' = Begin + taken
  BY DEF SamplingInv, SamplingTyped, WindowInStream
<1>2. Upcoming' = Upcoming
  BY <1>1 DEF Upcoming
<1> QED
  BY <1>2 DEF SamplingInv, NoneLost, SampledInOrder, At, Number, SmallEnough, InStream

LEMMA FirstRequestInv ==
  ASSUME SamplingInv, FirstRequest
  PROVE  SamplingInv'
<1> USE DEF SamplingInv
<1> DEFINE pb == sampler.perByte  pc == sampler.perCandidate  f == sampler.first
<1>1. /\ drawn = 0 /\ window' = Units(0, f) /\ drawn' = f /\ taken' = 0
      /\ UNCHANGED <<sampler, verdict, coeffs>>
  BY DEF FirstRequest
<1>2. pb \in Nat \ {0} /\ pc \in Nat \ {0} /\ f \in Nat \ {0}
  BY SamplerTyped
<1>3. /\ window' \in Seq(Nat) /\ Len(window') = f * pb /\ f * pb \in Nat
      /\ \A n \in 1 .. f * pb : window'[n] = n - 1
  <2> DEFINE units == Units(0, f)
  <2>1. /\ units \in Seq(Nat) /\ Len(units) = f * pb /\ f * pb \in Nat
        /\ \A n \in 1 .. f * pb : units[n] = 0 * pb + n - 1
    BY <1>2, UnitsInStream
  <2>2. 0 * pb = 0
    BY <1>2
  <2> HIDE DEF units, f, pb
  <2>3. \A n \in 1 .. f * pb : units[n] = n - 1
    BY <2>1, <2>2
  <2>4. window' = units
    BY <1>1 DEF units
  <2> QED
    BY <2>1, <2>3, <2>4
<1>4. Begin = 0 /\ taken = 0 /\ Begin' = 0
  <2>1. window = << >> /\ taken \in 0 .. Len(window)
    BY <1>1 DEF SamplingTyped, WindowInStream
  <2>2. Len(window) = 0 /\ taken = 0
    BY <2>1
  <2>3. Begin = 0
    BY <1>1, <1>2, <2>2 DEF Begin
  <2>4. Begin' = f * pb - f * pb
    BY <1>1, <1>3 DEF Begin
  <2> QED
    BY <1>3, <2>2, <2>3, <2>4
<1>5. f * pb <= (f + 2) * pb
  <2> HIDE DEF f, pb
  <2>1. (f + 2) * pb = f * pb + 2 * pb
    BY <1>2
  <2> QED
    BY <1>2, <2>1
<1>6. SamplingTyped'
  BY <1>1, <1>2, <1>3, <1>5 DEF SamplingTyped
<1>7. WindowInStream'
  <2>1. 0 % pc = 0
    BY <1>2
  <2>2. ~sampler.carries => (f * pb) % pc = 0
    BY SamplerTyped
  <2> HIDE DEF f, pb
  <2>3. \A n \in 1 .. Len(window') : window'[n] = Begin' + n - 1
    BY <1>3, <1>4
  <2>4. drawn' # 0
    BY <1>1, <1>2
  <2> QED
    BY <1>1, <1>3, <1>4, <2>1, <2>2, <2>3, <2>4 DEF WindowInStream
<1> QED
  BY <1>1, <1>4, <1>6, <1>7, RequestKeeps

LEMMA LaterRequestInv ==
  ASSUME SamplingInv, LaterRequest
  PROVE  SamplingInv'
<1> USE DEF SamplingInv
<1> DEFINE pb == sampler.perByte  pc == sampler.perCandidate  z == sampler.later
           left == Len(window) - taken
<1>1. /\ drawn > 0 /\ ~WholeCandidate /\ window' = Kept \o Units(drawn, z)
      /\ drawn' = drawn + z /\ taken' = 0
      /\ UNCHANGED <<sampler, verdict, coeffs>>
  BY DEF LaterRequest, Refilled
<1>2. /\ pb \in Nat \ {0} /\ pc \in Nat \ {0} /\ z \in Nat \ {0}
      /\ sampler.carries \in BOOLEAN
      /\ drawn \in Nat /\ Len(window) \in Nat /\ taken \in Nat /\ taken <= Len(window)
      /\ window \in Seq(Nat) /\ Begin \in Nat
      /\ taken % pc = 0 /\ Begin % pc = 0
  BY SamplerTyped DEF SamplingTyped, WindowInStream
<1>3. left \in Nat /\ left < pc /\ Len(window) % pc = left
  <2>1. Len(window) < taken + pc
    BY <1>1, <1>2 DEF WholeCandidate
  <2> HIDE DEF pc
  <2>2. Len(window) - taken < pc
    BY <1>2, <2>1
  <2> QED
    BY <1>2, <2>2, LeftOver
<1>4. \A n \in 1 .. Len(window) : window[n] = Begin + n - 1
  BY DEF WindowInStream
<1>5. /\ Kept \in Seq(Nat) /\ Len(Kept) = left
      /\ \A n \in 1 .. left : Kept[n] = Begin + taken + n - 1
  <2>1. CASE sampler.carries
    <3>1. Kept = SubSeq(window, Len(window) - left + 1, Len(window))
      BY <1>3, <2>1 DEF Kept
    <3>2. Len(window) - left + 1 = taken + 1
      BY <1>2
    <3>3. Kept = SubSeq(window, taken + 1, Len(window))
      BY <3>1, <3>2
    <3>4. /\ taken + 1 \in Int /\ Len(window) \in Int
          /\ \A n \in taken + 1 .. Len(window) : window[n] \in Nat
          /\ Len(window) - (taken + 1) + 1 = left
          /\ IF taken + 1 <= Len(window) THEN Len(window) - (taken + 1) + 1 = left ELSE left = 0
      BY <1>2
    <3>5. /\ Kept \in Seq(Nat) /\ Len(Kept) = left
          /\ \A n \in 1 .. left : Kept[n] = window[(taken + 1) + n - 1]
      BY <3>3, <3>4, SubSeqProperties
    <3>6. \A n \in 1 .. left : (taken + 1) + n - 1 = taken + n /\ taken + n \in 1 .. Len(window)
      BY <1>2
    <3>7. \A n \in 1 .. left : Kept[n] = Begin + (taken + n) - 1
      BY <1>4, <3>5, <3>6
    <3> QED
      BY <1>2, <3>5, <3>7
  <2>2. CASE ~sampler.carries
    <3>1. Kept = << >>
      BY <2>2 DEF Kept
    <3>2. left = 0
      BY <1>3, <2>2 DEF WindowInStream
    <3> HIDE DEF left
    <3> QED
      BY <3>1, <3>2
  <2> QED
    BY <1>2, <2>1, <2>2
<1>6. /\ Units(drawn, z) \in Seq(Nat) /\ Len(Units(drawn, z)) = z * pb
      /\ z * pb \in Nat /\ drawn * pb \in Nat
      /\ \A n \in 1 .. z * pb : Units(drawn, z)[n] = drawn * pb + n - 1
  BY <1>2, UnitsInStream
<1>7. drawn * pb = Begin + taken + left
  BY <1>2, <1>6 DEF Begin
<1>8. /\ window' \in Seq(Nat) /\ Len(window') = left + z * pb
      /\ \A n \in 1 .. Len(window') : window'[n] = Begin + taken + n - 1
  <2> HIDE DEF left, pb, pc, z
  <2>1. /\ window' \in Seq(Nat) /\ Len(window') = left + z * pb
        /\ \A n \in 1 .. left + z * pb :
             window'[n] = IF n <= left THEN Kept[n] ELSE Units(drawn, z)[n - left]
    <3> DEFINE units == Units(drawn, z)
    <3>1. window' = Kept \o units /\ units \in Seq(Nat) /\ Len(units) = z * pb
      BY <1>1, <1>6
    <3> HIDE DEF units
    <3>2. /\ Kept \o units \in Seq(Nat) /\ Len(Kept \o units) = Len(Kept) + Len(units)
          /\ \A n \in 1 .. Len(Kept) + Len(units) :
               (Kept \o units)[n] = IF n <= Len(Kept) THEN Kept[n] ELSE units[n - Len(Kept)]
      BY <1>5, <3>1, ConcatProperties
    <3> QED
      BY <1>5, <3>1, <3>2 DEF units
  <2> SUFFICES ASSUME NEW n \in 1 .. left + z * pb
               PROVE  window'[n] = Begin + taken + n - 1
    BY <2>1
  <2>2. CASE n <= left
    BY <1>3, <1>5, <2>1, <2>2
  <2>3. CASE n > left
    <3>1. n - left \in 1 .. z * pb /\ ~(n <= left)
      BY <1>3, <1>6, <2>3
    <3>2. window'[n] = drawn * pb + (n - left) - 1
      BY <1>6, <2>1, <3>1
    <3> QED
      BY <1>2, <1>3, <1>7, <3>2
  <2> QED
    BY <1>3, <2>2, <2>3
<1>9. Begin' = Begin + taken
  <2>1. Begin' = (drawn + z) * pb - (left + z * pb)
    BY <1>1, <1>8 DEF Begin
  <2> HIDE DEF left, pb, z
  <2>2. (drawn + z) * pb = drawn * pb + z * pb
    BY <1>2
  <2> QED
    BY <1>2, <1>3, <1>6, <1>7, <2>1, <2>2
<1>10. left + z * pb <= (sampler.first + 2) * pb
  <2> DEFINE f == sampler.first
  <2>1. /\ f \in Nat /\ z <= f
        /\ sampler.carries => pc - 1 <= 2 * pb
    BY SamplerTyped
  <2>2. ~sampler.carries => left = 0
    BY <1>3 DEF WindowInStream
  <2> HIDE DEF left, pb, pc, z, f
  <2>3. left <= 2 * pb
    BY <1>2, <1>3, <2>1, <2>2
  <2>4. f * pb = z * pb + (f - z) * pb /\ (f - z) * pb >= 0
    BY <1>2, <2>1
  <2>5. (f + 2) * pb = f * pb + 2 * pb
    BY <1>2, <2>1
  <2>6. left + z * pb <= (f + 2) * pb
    <3> DEFINE fp == f * pb  zp == z * pb  d == (f - z) * pb  f2 == (f + 2) * pb
    <3>1. fp \in Int /\ zp \in Int /\ d \in Int /\ f2 \in Int
      BY <1>2, <2>1
    <3>2. fp = zp + d /\ d >= 0 /\ f2 = fp + 2 * pb
      BY <2>4, <2>5
    <3> HIDE DEF fp, zp, d, f2
    <3>3. left + zp <= f2
      BY <1>2, <1>3, <2>3, <3>1, <3>2
    <3> QED
      BY <3>3 DEF zp, f2
  <2> QED
    BY <2>6 DEF f
<1>11. SamplingTyped'
  <2>1. taken' \in 0 .. Len(window')
    BY <1>1, <1>3, <1>6, <1>8
  <2>2. drawn' \in Nat
    BY <1>1, <1>2
  <2> QED
    BY <1>1, <1>8, <1>10, <2>1, <2>2 DEF SamplingTyped
<1>12. WindowInStream'
  <2>1. Begin' \in Nat /\ drawn' # 0
    BY <1>1, <1>2, <1>9
  <2>2. \A n \in 1 .. Len(window') : window'[n] = Begin' + n - 1
    BY <1>8, <1>9
  <2>3. Begin' % pc = 0
    <3> HIDE DEF pc
    <3> Begin \in Int
      BY <1>2
    <3>1. (Begin + taken) % pc = Begin % pc
      BY <1>2, WithMultiple
    <3>2. Begin % pc = 0
      BY <1>2
    <3> QED
      BY <1>9, <3>1, <3>2, Zenon
  <2>4. taken' % pc = 0
    <3>1. 0 % pc = 0
      <4> HIDE DEF pc
      <4> QED
        BY <1>2
    <3> QED
      BY <1>1, <3>1
  <2>5. ~sampler.carries => Len(window') % pc = 0
    <3> SUFFICES ASSUME ~sampler.carries PROVE Len(window') % pc = 0
      OBVIOUS
    <3>1. left = 0 /\ (z * pb) % pc = 0
      BY <1>3, SamplerTyped DEF WindowInStream
    <3> HIDE DEF left, pb, pc, z
    <3>2. Len(window') = z * pb
      BY <1>6, <1>8, <3>1
    <3> QED
      BY <3>1, <3>2
  <2> QED
    BY <1>1, <2>1, <2>2, <2>3, <2>4, <2>5 DEF WindowInStream
<1> QED
  BY <1>1, <1>9, <1>11, <1>12, RequestKeeps

LEMMA SamplingStep == SamplingInv /\ [SamplingNext]_samplingVars => SamplingInv'
<1> SUFFICES ASSUME SamplingInv, [SamplingNext]_samplingVars PROVE SamplingInv'
  OBVIOUS
<1>1. CASE UNCHANGED samplingVars
  <2>1. /\ sampler' = sampler /\ verdict' = verdict /\ drawn' = drawn /\ window' = window
        /\ taken' = taken /\ coeffs' = coeffs
    BY <1>1 DEF samplingVars
  <2>2. SamplingTyped'
    BY <2>1 DEF SamplingInv, SamplingTyped
  <2>3. WindowInStream'
    BY <2>1, Zenon DEF SamplingInv, WindowInStream, Begin
  <2>4. NoneLost'
    BY <2>1, Zenon DEF SamplingInv, NoneLost, At, Number, SmallEnough, Upcoming, Begin
  <2>5. SampledInOrder'
    <3>1. /\ \A n : At(n)' = At(n)
          /\ \A n : SmallEnough(n)' = SmallEnough(n)
          /\ \A n : InStream(n)' = InStream(n)
      BY <2>1, Zenon DEF At, Number, SmallEnough, InStream
    <3>2. SampledInOrder
      BY DEF SamplingInv
    <3> QED
      BY <2>1, <3>1, <3>2 DEF SampledInOrder
  <2> QED
    BY <2>2, <2>3, <2>4, <2>5, Zenon DEF SamplingInv
<1>2. CASE SamplingNext
  BY <1>2, FirstRequestInv, LookInv, LaterRequestInv DEF SamplingNext
<1> QED
  BY <1>1, <1>2

-----------------------------------------------------------------------------
(* Key generation.                                                         *)

(* The rows of t, as sums of products. *)
RowOfT(n) == [m \in 1 .. level.l |-> Product(Uniform(256 * n + (m - 1)), Ntt(Eta(m - 1)))]

(* The places of a vector in a key. *)
Places(from, size, n) == {from + size * m : m \in 0 .. (n - 1)}

(* What c-lowram has packed: the seeds, `cols` polynomials of s1, `rows`   *)
(* of s2 and of t0, and tr once the public key is complete.                *)
SecretIs(key, public, cols, rows, hashed) ==
  /\ key = [o \in DOMAIN key |-> key[o]]
  /\ DOMAIN key = {0, SEEDBYTES} \cup (IF hashed THEN {2 * SEEDBYTES} ELSE {})
                    \cup Places(AtS1, level.eta, cols) \cup Places(AtS2, level.eta, rows)
                    \cup Places(AtT0, level.t0, rows)
  /\ key[0] = <<"rho">> /\ key[SEEDBYTES] = <<"key">>
  /\ hashed => key[2 * SEEDBYTES] = <<"tr", public>>
  /\ \A m \in 0 .. (cols - 1) : key[AtS1 + level.eta * m] = Eta(m)
  /\ \A m \in 0 .. (rows - 1) :
       /\ key[AtS2 + level.eta * m] = Eta(level.l + m)
       /\ key[AtT0 + level.t0 * m] = Low(RowOfT(m), Eta(level.l + m))

PublicIs(key, rows) ==
  /\ key = [o \in DOMAIN key |-> key[o]]
  /\ DOMAIN key = {0} \cup Places(SEEDBYTES, level.t1, rows)
  /\ key[0] = <<"rho">>
  /\ \A m \in 0 .. (rows - 1) :
       key[SEEDBYTES + level.t1 * m] = High(RowOfT(m), Eta(level.l + m))

PackedCols == IF atRow = 0 THEN atCol ELSE level.l

LowKeyTyped ==
  /\ level \in Level
  /\ lowAt \in {"seed", "rows", "packed"}
  /\ atRow \in 0 .. level.k /\ atCol \in 0 .. level.l
  /\ lowAt = "seed" => atRow = 0 /\ atCol = 0 /\ pk = Empty /\ sk = Empty
  /\ lowAt = "packed" => atRow = level.k

SummedTo(sum, at, cols) == cols > 0 => sum = [m \in 1 .. cols |-> RowOfT(at)[m]]

LowKeyInv ==
  /\ LowKeyTyped
  /\ SummedTo(tA, atRow, atCol)
  /\ lowAt # "seed" =>
       /\ PublicIs(pk, atRow)
       /\ SecretIs(sk, pk, PackedCols, atRow, lowAt = "packed")

(* c-ref. *)
RefKeyInv ==
  /\ refDone \in {"seed", "sampled", "multiplied", "packed"}
  /\ refDone # "seed" => mat = Expanded /\ s1 = SampledFrom(0, Col)
                         /\ s2 = SampledFrom(level.l, Row)
  /\ refDone \in {"multiplied", "packed"} =>
       t = [n \in Row |-> [sum |-> RowOfT(n), error |-> Eta(level.l + n)]]
  /\ refDone = "packed" =>
       /\ PublicIs(refPk, level.k)
       /\ SecretIs(refSk, refPk, level.l, level.k, TRUE)

KeyInv == LowKeyInv /\ RefKeyInv

LEMMA LevelTyped ==
  ASSUME level \in Level
  PROVE  /\ level.k \in Nat \ {0} /\ level.l \in Nat \ {0} /\ level.eta \in Nat \ {0}
         /\ level.t1 \in Nat \ {0} /\ level.t0 \in Nat \ {0} /\ level.t0 = 416
BY LevelAssumption

(* Multiples of a size are in the order of their numbers. *)
LEMMA Steps ==
  ASSUME NEW size \in Nat \ {0}, NEW m \in Nat, NEW n \in Nat
  PROVE  /\ size * m \in Nat
         /\ m < n => size * m + size <= size * n
         /\ size * m = size * n => m = n
         /\ size * m = m * size
<1>1. ASSUME NEW p \in Nat, NEW q \in Nat, p < q
      PROVE  size * p + size <= size * q
  <2>1. size * q = size * p + size * (q - p)
    OBVIOUS
  <2>2. size * (q - p) >= size
    BY <1>1
  <2> QED
    BY <2>1, <2>2
<1>2. size * m \in Nat /\ size * n \in Nat
  OBVIOUS
<1>3. m < n \/ m = n \/ n < m
  OBVIOUS
<1> QED
  BY <1>1, <1>2, <1>3

(* The vectors of a secret key lie one behind the other. *)
LEMMA Apart ==
  ASSUME level \in Level, NEW m \in Nat, NEW n \in Nat
  PROVE  /\ AtS1 + level.eta * m \in Nat /\ AtS2 + level.eta * m \in Nat
         /\ AtT0 + level.t0 * m \in Nat
         /\ AtS1 + level.eta * m > 2 * SEEDBYTES
         /\ AtS2 + level.eta * m > 2 * SEEDBYTES
         /\ AtT0 + level.t0 * m > 2 * SEEDBYTES
         /\ m < level.l => AtS1 + level.eta * m < AtS2 + level.eta * n
         /\ m < level.l => AtS1 + level.eta * m < AtT0 + level.t0 * n
         /\ m < level.k => AtS2 + level.eta * m < AtT0 + level.t0 * n
         /\ AtS1 + level.eta * m = AtS1 + level.eta * n => m = n
         /\ AtS2 + level.eta * m = AtS2 + level.eta * n => m = n
         /\ AtT0 + level.t0 * m = AtT0 + level.t0 * n => m = n
<1> DEFINE e == level.eta  z == level.t0  l == level.l  k == level.k
           em == e * m  en == e * n  zm == z * m  zn == z * n  el == e * l  ek == e * k
<1>1. /\ e \in Nat \ {0} /\ z \in Nat \ {0} /\ l \in Nat \ {0} /\ k \in Nat \ {0}
  BY LevelTyped
<1>2. AtS1 = 128 /\ AtS2 = 128 + el /\ AtT0 = 128 + el + ek
  <2>1. AtS1 = 128
    BY DEF AtS1, SEEDBYTES, TRBYTES
  <2>2. l * e = el /\ k * e = ek /\ el \in Nat /\ ek \in Nat
    <3> HIDE DEF e, l, k
    <3> QED
      BY <1>1, Steps
  <2>3. AtS2 = 128 + l * e /\ AtT0 = (128 + l * e) + k * e
    BY <2>1 DEF AtS2, AtT0
  <2> HIDE DEF el, ek, e, l, k
  <2> QED
    BY <2>1, <2>2, <2>3
<1>3. /\ em \in Nat /\ en \in Nat /\ zm \in Nat /\ zn \in Nat /\ el \in Nat /\ ek \in Nat
      /\ m < l => em + e <= el
      /\ m < k => em + e <= ek
      /\ em = en => m = n
      /\ zm = zn => m = n
  <2> HIDE DEF e, z, l, k
  <2> QED
    BY <1>1, Steps
<1> HIDE DEF em, en, zm, zn, el, ek
<1>4. /\ 128 + em \in Nat /\ (128 + el) + em \in Nat /\ (128 + el + ek) + zm \in Nat
      /\ 128 + em > 64 /\ (128 + el) + em > 64 /\ (128 + el + ek) + zm > 64
      /\ m < l => 128 + em < (128 + el) + en
      /\ m < l => 128 + em < (128 + el + ek) + zn
      /\ m < k => (128 + el) + em < (128 + el + ek) + zn
      /\ 128 + em = 128 + en => m = n
      /\ (128 + el) + em = (128 + el) + en => m = n
      /\ (128 + el + ek) + zm = (128 + el + ek) + zn => m = n
  <2> HIDE DEF l, k
  <2> QED
    BY <1>1, <1>3
<1>5. 2 * SEEDBYTES = 64
  BY DEF SEEDBYTES
<1> QED
  BY <1>2, <1>4, <1>5 DEF em, en, zm, zn

LEMMA WrittenBytes ==
  ASSUME NEW b, NEW o, NEW p
  PROVE  /\ Written(b, o, p) = [x \in {o} \cup DOMAIN b |-> IF x = o THEN p ELSE b[x]]
         /\ DOMAIN Written(b, o, p) = {o} \cup DOMAIN b
         /\ Written(b, o, p)[o] = p
         /\ \A x \in DOMAIN b : x # o => Written(b, o, p)[x] = b[x]
<1>1. Written(b, o, p) = [x \in {o} \cup DOMAIN b |-> IF x = o THEN p ELSE b[x]]
  BY DEF Written
<1> QED
  BY <1>1

(* The offsets c-lowram computes are the places the pointers come by. *)
LEMMA Offsets ==
  ASSUME level \in Level, NEW m \in Nat
  PROVE  /\ S1Offset(m) = AtS1 + level.eta * m
         /\ S2Offset(m) = AtS2 + level.eta * m
         /\ T0Offset(m) = AtT0 + level.t0 * m
         /\ T0Pointer(m) = AtT0 + level.t0 * m
         /\ T1Offset(m) = SEEDBYTES + level.t1 * m
         /\ PySkSize - 416 * level.k + m * level.t0 = AtT0 + level.t0 * m
         /\ 2 * SEEDBYTES = 64 /\ SEEDBYTES = 32 /\ AtS1 = 128
         /\ AtS1 + m * level.eta = AtS1 + level.eta * m
         /\ AtS2 + m * level.eta = AtS2 + level.eta * m
         /\ AtT0 + m * level.t0 = AtT0 + level.t0 * m
<1> DEFINE e == level.eta  z == level.t0  l == level.l  k == level.k  u == level.t1
           me == m * e  mz == m * z  mu == m * u  le == l * e  ke == k * e  kz == 416 * k
<1>1. /\ e \in Nat \ {0} /\ z \in Nat \ {0} /\ l \in Nat \ {0} /\ k \in Nat \ {0} /\ u \in Nat \ {0}
      /\ z = 416
  BY LevelTyped
<1>2. /\ me \in Nat /\ mz \in Nat /\ mu \in Nat /\ le \in Nat /\ ke \in Nat /\ kz \in Nat
      /\ e * m = me /\ z * m = mz /\ u * m = mu /\ e * l = le /\ e * k = ke
  <2> HIDE DEF e, z, l, k, u
  <2> QED
    BY <1>1, Steps
<1>3. /\ S1Offset(m) = 2 * 32 + 64 + me /\ S2Offset(m) = 2 * 32 + 64 + le + me
      /\ T0Offset(m) = 2 * 32 + 64 + le + ke + mz
      /\ T0Pointer(m) = 32 + 64 + 32 + le + ke + mz
      /\ T1Offset(m) = 32 + mu
      /\ PySkSize = 2 * 32 + 64 + e * l + e * k + kz
      /\ AtS1 = 2 * 32 + 64 /\ AtS2 = (2 * 32 + 64) + le /\ AtT0 = ((2 * 32 + 64) + le) + ke
      /\ SEEDBYTES = 32
  BY Zenon DEF S1Offset, S2Offset, T0Offset, T0Pointer, T1Offset, PySkSize, AtS1, AtS2, AtT0,
               SEEDBYTES, TRBYTES
<1>4. /\ PySkSize - kz + mz = AtT0 + mz
      /\ S1Offset(m) = AtS1 + me /\ S2Offset(m) = AtS2 + me /\ T0Offset(m) = AtT0 + mz
      /\ T0Pointer(m) = AtT0 + mz
      /\ T1Offset(m) = 32 + mu /\ SEEDBYTES = 32 /\ AtS1 = 128 /\ 2 * SEEDBYTES = 64
  <2> HIDE DEF me, mz, mu, le, ke, kz, e, l, k
  <2> QED
    BY <1>2, <1>3
<1> HIDE DEF kz
<1>5. /\ AtS1 + e * m = AtS1 + me /\ AtS2 + e * m = AtS2 + me /\ AtT0 + z * m = AtT0 + mz
      /\ 32 + u * m = 32 + mu
  <2> HIDE DEF e, z, u, me, mz, mu
  <2> QED
    BY <1>2, Zenon
<1> QED
  BY <1>4, <1>5, Zenon DEF me, mz, mu, kz

LEMMA NextPlace ==
  ASSUME NEW from, NEW size, NEW n \in Nat, NEW p \in {n + 1}
  PROVE  /\ Places(from, size, p) = Places(from, size, n) \cup {from + size * n}
         /\ \A m \in 0 .. (n - 1) : from + size * m \in Places(from, size, n)
<1>1. 0 .. (p - 1) = 0 .. (n - 1) \cup {n}
  OBVIOUS
<1> QED
  BY <1>1, Zenon DEF Places

LEMMA NoPlace ==
  ASSUME NEW from, NEW size
  PROVE  Places(from, size, 0) = {}
<1>1. 0 .. (0 - 1) = {}
  OBVIOUS
<1> QED
  BY <1>1, Zenon DEF Places

(* The keys of the next state, by what they hold.                          *)
LEMMA LowKeyNext ==
  ASSUME LowKeyTyped', UNCHANGED level, SummedTo(tA', atRow', atCol'),
         PublicIs(pk', atRow'),
         SecretIs(sk', pk', IF atRow' = 0 THEN atCol' ELSE level.l, atRow', lowAt' = "packed")
  PROVE  LowKeyInv'
<1>1. PublicIs(pk, atRow)'
  BY Zenon DEF PublicIs, Places, RowOfT
<1>2. SecretIs(sk, pk, PackedCols, atRow, lowAt = "packed")'
  BY Zenon DEF SecretIs, PackedCols, Places, RowOfT, AtS1, AtS2, AtT0
<1>3. SummedTo(tA, atRow, atCol)'
  BY Zenon DEF SummedTo, RowOfT
<1> QED
  BY <1>1, <1>2, <1>3 DEF LowKeyInv

LEMMA LowStartInv ==
  ASSUME KeyInv, LowStart
  PROVE  LowKeyInv'
<1>1. /\ sk' = Written(Written(Empty, 0, <<"rho">>), SEEDBYTES, <<"key">>)
      /\ pk' = Written(Empty, 0, <<"rho">>) /\ lowAt' = "rows"
      /\ atRow' = 0 /\ atCol' = 0 /\ UNCHANGED level
      /\ level \in Level
  BY DEF LowStart, KeyInv, LowKeyInv, LowKeyTyped
<1>2. DOMAIN Empty = {}
  BY DEF Empty
<1>3. /\ level.eta \in Nat /\ level.t0 \in Nat /\ level.t1 \in Nat
      /\ level.k \in Nat /\ level.l \in Nat
  BY <1>1, LevelTyped
<1>4. \A from : /\ Places(from, level.eta, 0) = {} /\ Places(from, level.t0, 0) = {}
                /\ Places(from, level.t1, 0) = {}
  BY NoPlace
<1>5. 0 .. (0 - 1) = {} /\ SEEDBYTES # 0
  BY DEF SEEDBYTES
<1>6. PublicIs(pk', 0)
  <2>1. pk' = [x \in {0} |-> <<"rho">>]
    BY <1>1, <1>2 DEF Written
  <2> QED
    BY <1>4, <1>5, <2>1 DEF PublicIs
<1>7. SecretIs(sk', pk', 0, 0, FALSE)
  <2>1. sk' = [x \in {0, SEEDBYTES} |-> IF x = SEEDBYTES THEN <<"key">> ELSE <<"rho">>]
    BY <1>1, <1>2 DEF Written
  <2> QED
    BY <1>4, <1>5, <2>1 DEF SecretIs
<1>8. LowKeyTyped'
  BY <1>1, <1>3 DEF LowKeyTyped
<1>9. SummedTo(tA', atRow', atCol')
  BY <1>1 DEF SummedTo
<1> QED
  BY <1>1, <1>6, <1>7, <1>8, <1>9, LowKeyNext

LEMMA LowColumnInv ==
  ASSUME KeyInv, LowColumn
  PROVE  LowKeyInv'
<1> DEFINE r == atRow  col == atCol  e == level.eta
<1>1. /\ level \in Level /\ r \in 0 .. level.k /\ col \in 0 .. level.l /\ r < level.k
      /\ col < level.l
      /\ PublicIs(pk, r) /\ SecretIs(sk, pk, PackedCols, r, FALSE)
      /\ lowAt = "rows" /\ UNCHANGED <<level, lowAt, atRow, pk>> /\ atCol' = col + 1
      /\ sk' = PackS1
      /\ tC' = Ntt(Eta(col)) /\ tB' = Uniform(256 * r + col)
      /\ tA' = IF col = 0 THEN <<Product(tB', tC')>> ELSE Append(tA, Product(tB', tC'))
      /\ col > 0 => tA = [m \in 1 .. col |-> RowOfT(r)[m]]
  BY DEF LowColumn, KeyInv, LowKeyInv, LowKeyTyped, SummedTo
<1>2. /\ level.k \in Nat \ {0} /\ level.l \in Nat \ {0} /\ e \in Nat \ {0}
      /\ r \in Nat /\ col \in Nat
  BY <1>1, LevelTyped
<1>3. SecretIs(sk', pk', IF r = 0 THEN col + 1 ELSE level.l, r, FALSE)
  <2>1. CASE r # 0
    BY <1>1, <2>1 DEF PackS1, PackedCols
  <2>2. CASE r = 0
    <3> DEFINE o == AtS1 + e * col
    <3>1. sk' = Written(sk, o, Eta(col)) /\ PackedCols = col
      BY <1>1, <1>2, <2>2, Offsets DEF PackS1, PackedCols
    <3>2. SecretIs(sk, pk, col, 0, FALSE)
      BY <1>1, <2>2, <3>1
    <3>3. o > 2 * SEEDBYTES /\ \A m \in 0 .. (col - 1) : AtS1 + e * m # o
      <4>1. o > 2 * SEEDBYTES
        BY <1>1, <1>2, Apart
      <4>2. ASSUME NEW m \in 0 .. (col - 1) PROVE AtS1 + e * m # o
        <5>1. m \in Nat /\ m # col
          BY <1>2
        <5> QED
          BY <1>1, <1>2, <5>1, Apart
      <4> QED
        BY <4>1, <4>2
    <3>4. /\ 0 .. (0 - 1) = {} /\ 0 .. ((col + 1) - 1) = 0 .. (col - 1) \cup {col}
          /\ o # 0 /\ o # SEEDBYTES
      BY <1>2, <3>3 DEF SEEDBYTES
    <3>5. /\ Places(AtS1, e, col + 1) = Places(AtS1, e, col) \cup {o}
          /\ \A m \in 0 .. (col - 1) : AtS1 + e * m \in Places(AtS1, e, col)
      <4>1. e \in Nat /\ col \in Nat /\ AtS1 \in Nat
        BY <1>2 DEF AtS1, SEEDBYTES, TRBYTES
      <4> DEFINE p == col + 1
      <4>2. p = col + 1
        OBVIOUS
      <4> HIDE DEF p, e, col
      <4>4. p \in {col + 1}
        BY <4>2
      <4> HIDE DEF o
      <4>5. Places(AtS1, e, p) = Places(AtS1, e, col) \cup {AtS1 + e * col}
        BY <4>1, <4>4, NextPlace
      <4>6. \A m \in 0 .. (col - 1) : AtS1 + e * m \in Places(AtS1, e, col)
        BY <4>1, <4>4, NextPlace
      <4> QED
        BY <4>5, <4>6, Zenon DEF p, o
    <3> HIDE DEF o
    <3>6. /\ sk' = [x \in DOMAIN sk' |-> sk'[x]] /\ DOMAIN sk' = {o} \cup DOMAIN sk
          /\ sk'[o] = Eta(col) /\ \A x \in DOMAIN sk : x # o => sk'[x] = sk[x]
      <4>1. sk' = [x \in {o} \cup DOMAIN sk |-> IF x = o THEN Eta(col) ELSE sk[x]]
        BY <3>1 DEF Written
      <4> QED
        BY <4>1
    <3>7. DOMAIN sk = {0, SEEDBYTES} \cup Places(AtS1, e, col) \cup Places(AtS2, e, 0)
                        \cup Places(AtT0, level.t0, 0)
      BY <3>2 DEF SecretIs
    <3>8. sk'[0] = sk[0] /\ sk'[SEEDBYTES] = sk[SEEDBYTES]
      BY <3>4, <3>6, <3>7
    <3>9. \A m \in 0 .. (col - 1) : sk'[AtS1 + e * m] = Eta(m)
      BY <3>2, <3>3, <3>5, <3>6, <3>7 DEF SecretIs
    <3>10. sk'[AtS1 + e * col] = Eta(col)
      BY <3>6 DEF o
    <3>11. \A m \in 0 .. ((col + 1) - 1) : sk'[AtS1 + e * m] = Eta(m)
      BY <3>4, <3>9, <3>10
    <3>12. SecretIs(sk', pk', col + 1, 0, FALSE)
      BY <3>2, <3>4, <3>5, <3>6, <3>7, <3>8, <3>11 DEF SecretIs
    <3> QED
      BY <2>2, <3>12
  <2> QED
    BY <2>1, <2>2
<1>4. tA' = [m \in 1 .. (col + 1) |-> RowOfT(r)[m]]
  <2> DEFINE new == Product(tB', tC')  whole == RowOfT(r)
  <2>1. new = whole[col + 1]
    <3>1. col + 1 \in 1 .. level.l /\ (col + 1) - 1 = col
      BY <1>1, <1>2
    <3>2. whole[col + 1] = Product(Uniform(256 * r + ((col + 1) - 1)), Ntt(Eta((col + 1) - 1)))
      BY <3>1 DEF RowOfT
    <3> QED
      BY <1>1, <3>1, <3>2
  <2> HIDE DEF new, whole
  <2>2. CASE col = 0
    <3>1. tA' = <<new>>
      BY <1>1, <2>2 DEF new
    <3>2. new = whole[1]
      BY <2>1, <2>2
    <3>3. <<new>> = [m \in 1 .. 1 |-> whole[m]]
      BY <3>2
    <3> QED
      BY <2>2, <3>1, <3>3 DEF whole
  <2>3. CASE col > 0
    <3>1. tA = [m \in 1 .. col |-> whole[m]] /\ tA' = Append(tA, new)
      BY <1>1, <1>2, <2>3 DEF new, whole
    <3>2. tA' = [m \in 1 .. (col + 1) |-> IF m = col + 1 THEN new ELSE whole[m]]
      BY <1>2, <3>1
    <3>3. tA' = [m \in 1 .. (col + 1) |-> whole[m]]
      BY <2>1, <3>2
    <3> QED
      BY <3>3 DEF whole
  <2> QED
    BY <1>2, <2>2, <2>3
<1>5. LowKeyTyped'
  <2>1. col + 1 \in 0 .. level.l
    BY <1>1, <1>2
  <2> QED
    BY <1>1, <2>1 DEF LowKeyTyped
<1>6. /\ PublicIs(pk', atRow')
      /\ SecretIs(sk', pk', IF atRow' = 0 THEN atCol' ELSE level.l, atRow', lowAt' = "packed")
  BY <1>1, <1>3
<1>7. SummedTo(tA', atRow', atCol')
  BY <1>1, <1>4 DEF SummedTo
<1> QED
  BY <1>1, <1>5, <1>6, <1>7, LowKeyNext

(* A row packs a polynomial of s2 and one of t0, apart from all others.    *)
LEMMA RowApart ==
  ASSUME level \in Level, NEW n \in Nat, n < level.k
  PROVE  /\ AtS2 + level.eta * n # AtT0 + level.t0 * n
         /\ AtS2 + level.eta * n > 2 * SEEDBYTES /\ AtT0 + level.t0 * n > 2 * SEEDBYTES
         /\ \A m \in 0 .. (level.l - 1) : /\ AtS1 + level.eta * m # AtS2 + level.eta * n
                                        /\ AtS1 + level.eta * m # AtT0 + level.t0 * n
         /\ \A m \in 0 .. (n - 1) : /\ AtS2 + level.eta * m # AtS2 + level.eta * n
                                  /\ AtS2 + level.eta * m # AtT0 + level.t0 * n
                                  /\ AtT0 + level.t0 * m # AtS2 + level.eta * n
                                  /\ AtT0 + level.t0 * m # AtT0 + level.t0 * n
<1>1. level.l \in Nat /\ level.k \in Nat
  BY LevelTyped
<1>2. AtS2 + level.eta * n \in Nat /\ AtT0 + level.t0 * n \in Nat
  BY Apart
<1>3. /\ AtS2 + level.eta * n # AtT0 + level.t0 * n
      /\ AtS2 + level.eta * n > 2 * SEEDBYTES /\ AtT0 + level.t0 * n > 2 * SEEDBYTES
  <2>1. AtS2 + level.eta * n < AtT0 + level.t0 * n
    BY Apart
  <2>2. AtS2 + level.eta * n > 2 * SEEDBYTES /\ AtT0 + level.t0 * n > 2 * SEEDBYTES
    BY Apart
  <2> QED
    BY <1>2, <2>1, <2>2
<1>4. ASSUME NEW m \in 0 .. (level.l - 1)
      PROVE  /\ AtS1 + level.eta * m # AtS2 + level.eta * n
             /\ AtS1 + level.eta * m # AtT0 + level.t0 * n
  <2>1. m \in Nat /\ m < level.l
    BY <1>1
  <2>2. /\ AtS1 + level.eta * m < AtS2 + level.eta * n
        /\ AtS1 + level.eta * m < AtT0 + level.t0 * n
        /\ AtS1 + level.eta * m \in Nat
    BY <2>1, Apart
  <2> QED
    BY <1>2, <2>2
<1>5. ASSUME NEW m \in 0 .. (n - 1)
      PROVE  /\ AtS2 + level.eta * m # AtS2 + level.eta * n
             /\ AtS2 + level.eta * m # AtT0 + level.t0 * n
             /\ AtT0 + level.t0 * m # AtS2 + level.eta * n
             /\ AtT0 + level.t0 * m # AtT0 + level.t0 * n
  <2>1. m \in Nat /\ m < level.k /\ m # n
    BY <1>1
  <2>2. /\ AtS2 + level.eta * m < AtT0 + level.t0 * n
        /\ AtS2 + level.eta * m \in Nat /\ AtT0 + level.t0 * m \in Nat
    BY <2>1, Apart
  <2>3. AtS2 + level.eta * n < AtT0 + level.t0 * m
    BY <2>1, Apart
  <2>4. /\ AtS2 + level.eta * m # AtS2 + level.eta * n
        /\ AtT0 + level.t0 * m # AtT0 + level.t0 * n
    BY <2>1, Apart
  <2> QED
    BY <1>2, <2>2, <2>3, <2>4
<1> QED
  BY <1>3, <1>4, <1>5

LEMMA SecretRow ==
  ASSUME level \in Level, NEW n \in Nat, n < level.k, NEW q \in {n + 1},
         NEW key, NEW public, NEW later, SecretIs(key, public, level.l, n, FALSE)
  PROVE  SecretIs(Written(Written(key, AtS2 + level.eta * n, Eta(level.l + n)),
                          AtT0 + level.t0 * n, Low(RowOfT(n), Eta(level.l + n))),
                  later, level.l, q, FALSE)
<1> DEFINE a == AtS2 + level.eta * n  b == AtT0 + level.t0 * n
           error == Eta(level.l + n)  low == Low(RowOfT(n), error)
           new == Written(Written(key, a, error), b, low)
           S1 == Places(AtS1, level.eta, level.l)
           S2(m) == Places(AtS2, level.eta, m)
           T0(m) == Places(AtT0, level.t0, m)
<1>1. new = [x \in {a, b} \cup DOMAIN key |->
                IF x = b THEN low ELSE IF x = a THEN error ELSE key[x]]
  <2> HIDE DEF a, b, error, low
  <2>1. DOMAIN Written(key, a, error) = {a} \cup DOMAIN key
    BY WrittenBytes
  <2> QED
    BY <2>1, WrittenBytes DEF Written
<1>2. /\ a # b /\ a > 2 * SEEDBYTES /\ b > 2 * SEEDBYTES
      /\ \A m \in 0 .. (level.l - 1) : AtS1 + level.eta * m \notin {a, b}
      /\ \A m \in 0 .. (n - 1) : /\ AtS2 + level.eta * m \notin {a, b}
                               /\ AtT0 + level.t0 * m \notin {a, b}
  BY RowApart, Zenon
<1>3. S2(q) = S2(n) \cup {a} /\ T0(q) = T0(n) \cup {b}
  BY NextPlace
<1>4. /\ \A m \in 0 .. (level.l - 1) : AtS1 + level.eta * m \in S1
      /\ \A m \in 0 .. (n - 1) : AtS2 + level.eta * m \in S2(n)
      /\ \A m \in 0 .. (n - 1) : AtT0 + level.t0 * m \in T0(n)
  BY Zenon DEF Places
<1>5. /\ DOMAIN key = {0, SEEDBYTES} \cup S1 \cup S2(n) \cup T0(n)
      /\ key[0] = <<"rho">> /\ key[SEEDBYTES] = <<"key">>
      /\ \A m \in 0 .. (level.l - 1) : key[AtS1 + level.eta * m] = Eta(m)
      /\ \A m \in 0 .. (n - 1) : /\ key[AtS2 + level.eta * m] = Eta(level.l + m)
                               /\ key[AtT0 + level.t0 * m] = Low(RowOfT(m), Eta(level.l + m))
  BY DEF SecretIs
<1> HIDE DEF a, b, new, S1, S2, T0
<1>6. /\ new = [x \in DOMAIN new |-> new[x]] /\ DOMAIN new = {a, b} \cup DOMAIN key
      /\ new[b] = low /\ new[a] = error
      /\ \A x \in DOMAIN key : x \notin {a, b} => new[x] = key[x]
  <2> HIDE DEF error, low
  <2> QED
    BY <1>1, <1>2
<1>7. new[0] = <<"rho">> /\ new[SEEDBYTES] = <<"key">>
  <2>1. 0 \notin {a, b} /\ SEEDBYTES \notin {a, b}
    BY <1>2 DEF SEEDBYTES
  <2> QED
    BY <1>5, <1>6, <2>1
<1>8. \A m \in 0 .. (level.l - 1) : new[AtS1 + level.eta * m] = Eta(m)
  BY <1>2, <1>4, <1>5, <1>6
<1>9. \A m \in 0 .. (n - 1) : /\ new[AtS2 + level.eta * m] = Eta(level.l + m)
                           /\ new[AtT0 + level.t0 * m] = Low(RowOfT(m), Eta(level.l + m))
  BY <1>2, <1>4, <1>5, <1>6
<1>10. /\ new[AtS2 + level.eta * n] = Eta(level.l + n)
       /\ new[AtT0 + level.t0 * n] = Low(RowOfT(n), Eta(level.l + n))
  BY <1>6, Zenon DEF a, b, error, low
<1>11. 0 .. (q - 1) = 0 .. (n - 1) \cup {n}
  OBVIOUS
<1>12. \A m \in 0 .. (q - 1) : /\ new[AtS2 + level.eta * m] = Eta(level.l + m)
                            /\ new[AtT0 + level.t0 * m] = Low(RowOfT(m), Eta(level.l + m))
  BY <1>9, <1>10, <1>11, Zenon
<1>13. DOMAIN new = {0, SEEDBYTES} \cup S1 \cup S2(q) \cup T0(q)
  BY <1>3, <1>5, <1>6
<1>14. SecretIs(new, later, level.l, q, FALSE)
  <2>1. DOMAIN new = {0, SEEDBYTES} \cup (IF FALSE THEN {2 * SEEDBYTES} ELSE {})
                      \cup S1 \cup S2(q) \cup T0(q)
    BY <1>13
  <2> QED
    BY <1>6, <1>7, <1>8, <1>12, <2>1, Zenon DEF SecretIs, S1, S2, T0
<1> QED
  BY <1>14, Zenon DEF new, a, b, error, low

LEMMA PublicRow ==
  ASSUME level \in Level, NEW n \in Nat, NEW q \in {n + 1}, NEW key, PublicIs(key, n)
  PROVE  PublicIs(Written(key, SEEDBYTES + level.t1 * n, High(RowOfT(n), Eta(level.l + n))), q)
<1> DEFINE a == SEEDBYTES + level.t1 * n  high == High(RowOfT(n), Eta(level.l + n))
           new == Written(key, a, high)
           T1(m) == Places(SEEDBYTES, level.t1, m)
<1>1. /\ new = [x \in DOMAIN new |-> new[x]] /\ DOMAIN new = {a} \cup DOMAIN key
      /\ new[a] = high /\ \A x \in DOMAIN key : x # a => new[x] = key[x]
  <2> HIDE DEF a, high
  <2>1. new = [x \in {a} \cup DOMAIN key |-> IF x = a THEN high ELSE key[x]]
    BY Zenon DEF Written
  <2> QED
    BY <2>1
<1>2. a # 0 /\ \A m \in 0 .. (n - 1) : SEEDBYTES + level.t1 * m # a
  <2>1. level.t1 \in Nat \ {0} /\ SEEDBYTES = 32
    BY LevelTyped DEF SEEDBYTES
  <2>2. level.t1 * n \in Nat
    BY <2>1, Steps
  <2>3. ASSUME NEW m \in 0 .. (n - 1)  PROVE SEEDBYTES + level.t1 * m # a
    <3>1. m \in Nat /\ m # n
      OBVIOUS
    <3>2. level.t1 * m \in Nat /\ level.t1 * m # level.t1 * n
      BY <2>1, <3>1, Steps
    <3> QED
      BY <2>1, <2>2, <3>2
  <2> QED
    BY <2>1, <2>2, <2>3
<1>3. T1(q) = T1(n) \cup {a} /\ \A m \in 0 .. (n - 1) : SEEDBYTES + level.t1 * m \in T1(n)
  BY NextPlace
<1>4. /\ DOMAIN key = {0} \cup T1(n) /\ key[0] = <<"rho">>
      /\ \A m \in 0 .. (n - 1) :
           key[SEEDBYTES + level.t1 * m] = High(RowOfT(m), Eta(level.l + m))
  BY DEF PublicIs
<1> HIDE DEF a, new, T1
<1>5. DOMAIN new = {0} \cup T1(q) /\ new[0] = <<"rho">>
  BY <1>1, <1>2, <1>3, <1>4
<1>6. \A m \in 0 .. (n - 1) : new[SEEDBYTES + level.t1 * m] = High(RowOfT(m), Eta(level.l + m))
  BY <1>1, <1>2, <1>3, <1>4
<1>7. new[SEEDBYTES + level.t1 * n] = High(RowOfT(n), Eta(level.l + n))
  BY <1>1, Zenon DEF a, high
<1>8. 0 .. (q - 1) = 0 .. (n - 1) \cup {n}
  OBVIOUS
<1>9. \A m \in 0 .. (q - 1) : new[SEEDBYTES + level.t1 * m] = High(RowOfT(m), Eta(level.l + m))
  BY <1>6, <1>7, <1>8, Zenon
<1>10. PublicIs(new, q)
  BY <1>1, <1>5, <1>9, Zenon DEF PublicIs, T1
<1> QED
  BY <1>10, Zenon DEF new, a, high

LEMMA LowRowInv ==
  ASSUME KeyInv, LowRow
  PROVE  LowKeyInv'
<1> DEFINE n == atRow  error == Eta(level.l + n)  new == n + 1
<1>1. /\ level \in Level /\ n \in 0 .. level.k /\ n < level.k /\ atCol = level.l
      /\ PublicIs(pk, n) /\ SecretIs(sk, pk, PackedCols, n, FALSE)
      /\ lowAt = "rows" /\ UNCHANGED <<level, lowAt>> /\ atRow' = new /\ atCol' = 0
      /\ tC' = High(tA, error) /\ tB' = Low(tA, error)
      /\ sk' = Written(Written(sk, S2Offset(n), error), T0Offset(n), tB')
      /\ pk' = Written(pk, T1Offset(n), tC')
      /\ atCol > 0 => tA = [m \in 1 .. atCol |-> RowOfT(n)[m]]
  BY DEF LowRow, KeyInv, LowKeyInv, LowKeyTyped, SummedTo, ErrorNonce
<1>2. /\ level.k \in Nat \ {0} /\ level.l \in Nat \ {0}
      /\ n \in Nat /\ new \in {n + 1} /\ new # 0 /\ new \in 0 .. level.k
  <2>1. level.k \in Nat \ {0} /\ level.l \in Nat \ {0}
    BY <1>1, LevelTyped
  <2> QED
    BY <1>1, <2>1
<1>3. tA = RowOfT(n) /\ PackedCols = level.l
  <2>1. PackedCols = level.l
    BY <1>1, <1>2 DEF PackedCols
  <2> DEFINE whole == RowOfT(n)
  <2>2. whole = [m \in 1 .. level.l |-> whole[m]]
    BY DEF RowOfT
  <2>3. tA = [m \in 1 .. level.l |-> whole[m]]
    BY <1>1, <1>2
  <2> QED
    BY <2>1, <2>2, <2>3, Zenon
<1>4. /\ S2Offset(n) = AtS2 + level.eta * n /\ T0Offset(n) = AtT0 + level.t0 * n
      /\ T1Offset(n) = SEEDBYTES + level.t1 * n
  BY <1>1, <1>2, Offsets
<1>5. PublicIs(pk', new)
  <2>1. pk' = Written(pk, SEEDBYTES + level.t1 * n, High(RowOfT(n), Eta(level.l + n)))
    BY <1>1, <1>3, <1>4, Zenon
  <2> HIDE DEF n, new
  <2>2. PublicIs(Written(pk, SEEDBYTES + level.t1 * n, High(RowOfT(n), Eta(level.l + n))), new)
    BY <1>1, <1>2, PublicRow
  <2> QED
    BY <2>1, <2>2, Zenon
<1>6. SecretIs(sk', pk', level.l, new, FALSE)
  <2>1. sk' = Written(Written(sk, AtS2 + level.eta * n, Eta(level.l + n)),
                      AtT0 + level.t0 * n, Low(RowOfT(n), Eta(level.l + n)))
    BY <1>1, <1>3, <1>4, Zenon
  <2> HIDE DEF n, new
  <2>2. SecretIs(sk, pk, level.l, n, FALSE)
    BY <1>1, <1>3
  <2>3. SecretIs(Written(Written(sk, AtS2 + level.eta * n, Eta(level.l + n)),
                         AtT0 + level.t0 * n, Low(RowOfT(n), Eta(level.l + n))),
                 pk', level.l, new, FALSE)
    BY <1>1, <1>2, <2>2, SecretRow
  <2> QED
    BY <2>1, <2>3, Zenon
<1>7. LowKeyTyped'
  BY <1>1, <1>2 DEF LowKeyTyped
<1>8. SummedTo(tA', atRow', atCol')
  BY <1>1 DEF SummedTo
<1>9. SecretIs(sk', pk', IF atRow' = 0 THEN atCol' ELSE level.l, atRow', lowAt' = "packed")
  <2>1. (lowAt' = "packed") = FALSE /\ atRow' # 0
    BY <1>1, <1>2
  <2> QED
    BY <1>1, <1>6, <2>1
<1> QED
  BY <1>1, <1>5, <1>7, <1>8, <1>9, LowKeyNext

LEMMA SecretHash ==
  ASSUME level \in Level, NEW n \in Nat, NEW key, NEW public,
         SecretIs(key, public, level.l, n, FALSE)
  PROVE  SecretIs(Written(key, 2 * SEEDBYTES, <<"tr", public>>), public, level.l, n, TRUE)
<1> DEFINE a == 2 * SEEDBYTES  tr == <<"tr", public>>  new == Written(key, a, tr)
           S1 == Places(AtS1, level.eta, level.l)
           S2 == Places(AtS2, level.eta, n)
           T0 == Places(AtT0, level.t0, n)
<1>1. /\ new = [x \in DOMAIN new |-> new[x]] /\ DOMAIN new = {a} \cup DOMAIN key
      /\ new[a] = tr /\ \A x \in DOMAIN key : x # a => new[x] = key[x]
  <2> HIDE DEF a, tr
  <2>1. new = [x \in {a} \cup DOMAIN key |-> IF x = a THEN tr ELSE key[x]]
    BY Zenon DEF Written
  <2> QED
    BY <2>1
<1>2. /\ \A m \in 0 .. (level.l - 1) : AtS1 + level.eta * m # a
      /\ \A m \in 0 .. (n - 1) : AtS2 + level.eta * m # a /\ AtT0 + level.t0 * m # a
  <2>1. level.l \in Nat /\ a \in Nat
    BY LevelTyped DEF SEEDBYTES
  <2>2. ASSUME NEW m \in Nat
        PROVE  AtS1 + level.eta * m # a /\ AtS2 + level.eta * m # a /\ AtT0 + level.t0 * m # a
    <3>1. /\ AtS1 + level.eta * m > a /\ AtS1 + level.eta * m \in Nat
          /\ AtS2 + level.eta * m > a /\ AtS2 + level.eta * m \in Nat
          /\ AtT0 + level.t0 * m > a /\ AtT0 + level.t0 * m \in Nat
      BY Apart
    <3> HIDE DEF a
    <3> QED
      BY <2>1, <3>1
  <2>3. \A m \in 0 .. (level.l - 1) : m \in Nat
    BY <2>1
  <2>4. \A m \in 0 .. (n - 1) : m \in Nat
    OBVIOUS
  <2> QED
    BY <2>2, <2>3, <2>4, Zenon
<1>3. /\ \A m \in 0 .. (level.l - 1) : AtS1 + level.eta * m \in S1
      /\ \A m \in 0 .. (n - 1) : AtS2 + level.eta * m \in S2
      /\ \A m \in 0 .. (n - 1) : AtT0 + level.t0 * m \in T0
  BY Zenon DEF Places
<1>4. /\ DOMAIN key = {0, SEEDBYTES} \cup S1 \cup S2 \cup T0
      /\ key[0] = <<"rho">> /\ key[SEEDBYTES] = <<"key">>
      /\ \A m \in 0 .. (level.l - 1) : key[AtS1 + level.eta * m] = Eta(m)
      /\ \A m \in 0 .. (n - 1) : /\ key[AtS2 + level.eta * m] = Eta(level.l + m)
                               /\ key[AtT0 + level.t0 * m] = Low(RowOfT(m), Eta(level.l + m))
  BY DEF SecretIs
<1>5. 0 # a /\ SEEDBYTES # a
  BY DEF SEEDBYTES
<1> HIDE DEF a, new, S1, S2, T0
<1>6. new[0] = <<"rho">> /\ new[SEEDBYTES] = <<"key">>
  BY <1>1, <1>4, <1>5
<1>7. \A m \in 0 .. (level.l - 1) : new[AtS1 + level.eta * m] = Eta(m)
  BY <1>1, <1>2, <1>3, <1>4
<1>8. \A m \in 0 .. (n - 1) : /\ new[AtS2 + level.eta * m] = Eta(level.l + m)
                           /\ new[AtT0 + level.t0 * m] = Low(RowOfT(m), Eta(level.l + m))
  BY <1>1, <1>2, <1>3, <1>4
<1>9. DOMAIN new = {0, SEEDBYTES} \cup (IF TRUE THEN {a} ELSE {}) \cup S1 \cup S2 \cup T0
  BY <1>1, <1>4
<1>10. SecretIs(new, public, level.l, n, TRUE)
  BY <1>1, <1>6, <1>7, <1>8, <1>9, Zenon DEF SecretIs, S1, S2, T0, a, tr
<1> QED
  BY <1>10, Zenon DEF new, a, tr

LEMMA LowHashInv ==
  ASSUME KeyInv, LowHash
  PROVE  LowKeyInv'
<1>1. /\ level \in Level /\ atRow = level.k /\ atCol \in 0 .. level.l
      /\ PublicIs(pk, atRow) /\ SecretIs(sk, pk, PackedCols, atRow, FALSE)
      /\ UNCHANGED <<level, atRow, atCol, tA, pk>> /\ lowAt' = "packed"
      /\ sk' = Written(sk, 2 * SEEDBYTES, <<"tr", pk>>)
      /\ SummedTo(tA, atRow, atCol)
  BY DEF LowHash, KeyInv, LowKeyInv, LowKeyTyped
<1>2. atRow \in Nat /\ atRow # 0
  BY <1>1, LevelTyped
<1>3. PackedCols = level.l
  BY <1>2 DEF PackedCols
<1>4. SecretIs(sk', pk, level.l, atRow, TRUE)
  <2>1. SecretIs(sk, pk, level.l, atRow, FALSE)
    BY <1>1, <1>3
  <2>2. SecretIs(Written(sk, 2 * SEEDBYTES, <<"tr", pk>>), pk, level.l, atRow, TRUE)
    BY <1>1, <1>2, <2>1, SecretHash
  <2> QED
    BY <1>1, <2>2, Zenon
<1>5. SecretIs(sk', pk', IF atRow' = 0 THEN atCol' ELSE level.l, atRow', lowAt' = "packed")
  <2>1. (lowAt' = "packed") = TRUE
    BY <1>1
  <2> QED
    BY <1>1, <1>2, <1>4, <2>1
<1>6. LowKeyTyped'
  BY <1>1, <1>2 DEF LowKeyTyped
<1> QED
  BY <1>1, <1>5, <1>6, LowKeyNext

(* What Packed puts at the place of a piece is that piece. *)
LEMMA PackedPieces ==
  ASSUME NEW from \in Nat, NEW size \in Nat \ {0}, NEW n \in Nat, NEW v
  PROVE  /\ DOMAIN Packed(from, n, size, v) = Places(from, size, n)
         /\ \A m \in 0 .. (n - 1) :
              Packed(from, n, size, v)[from + size * m] = v[m]
<1> DEFINE p == Packed(from, n, size, v)
<1>1. p = [o \in Places(from, size, n) |-> v[(o - from) \div size]]
  BY DEF Packed, Places
<1> HIDE DEF p
<1>2. ASSUME NEW m \in 0 .. (n - 1)
      PROVE  p[from + size * m] = v[m]
  <2> DEFINE o == from + size * m  d == (o - from) \div size
  <2>1. o - from = size * m /\ m \in Int
    OBVIOUS
  <2>2. d = m
    <3> DEFINE y == size * m  z == y % size
    <3>1. d = y \div size /\ y \in Int
      BY <2>1
    <3> HIDE DEF o, d
    <3>2. d \in Int /\ z \in 0 .. size - 1 /\ y = size * d + z
      <4> HIDE DEF y
      <4> QED
        BY <3>1, Division
    <3>3. size * m + 0 = size * d + z /\ 0 \in 0 .. size - 1
      BY <3>2
    <3> HIDE DEF z, y
    <3> QED
      BY <2>1, <3>2, <3>3, DivisionUnique
  <2>3. o \in Places(from, size, n)
    BY Zenon DEF Places
  <2> HIDE DEF o
  <2>4. p[o] = v[d]
    BY <1>1, <2>3
  <2> QED
    BY <2>2, <2>4, Zenon DEF o
<1>3. DOMAIN p = Places(from, size, n)
  BY <1>1
<1> QED
  BY <1>2, <1>3 DEF p

LEMMA RefPublic ==
  ASSUME level \in Level, NEW v,
         \A m \in 0 .. (level.k - 1) : v[m] = High(RowOfT(m), Eta(level.l + m))
  PROVE  PublicIs(PackPk(v), level.k)
<1> DEFINE k == level.k  p == Packed(SEEDBYTES, k, level.t1, v)
           T1 == Places(SEEDBYTES, level.t1, k)  new == Written(p, 0, <<"rho">>)
<1>1. k \in Nat /\ level.t1 \in Nat \ {0} /\ SEEDBYTES \in Nat /\ SEEDBYTES = 32
  BY LevelTyped DEF SEEDBYTES
<1>2. DOMAIN p = T1 /\ \A m \in 0 .. (k - 1) : p[SEEDBYTES + level.t1 * m] = v[m]
  <2> HIDE DEF k
  <2> QED
    BY <1>1, PackedPieces
<1>3. PackPk(v) = new
  BY Zenon DEF PackPk
<1>4. \A m \in 0 .. (k - 1) : SEEDBYTES + level.t1 * m \in T1 /\ SEEDBYTES + level.t1 * m # 0
  <2> SUFFICES ASSUME NEW m \in 0 .. (k - 1)
               PROVE  SEEDBYTES + level.t1 * m \in T1 /\ SEEDBYTES + level.t1 * m # 0
    OBVIOUS
  <2>1. SEEDBYTES + level.t1 * m \in T1
    BY Zenon DEF Places
  <2>2. m \in Nat
    BY <1>1
  <2>3. level.t1 * m \in Nat
    BY <1>1, <2>2, Steps
  <2> QED
    BY <1>1, <2>1, <2>3
<1>5. new = [x \in {0} \cup DOMAIN p |-> IF x = 0 THEN <<"rho">> ELSE p[x]]
  BY Zenon DEF Written
<1> HIDE DEF new, T1, p
<1>6. /\ new = [x \in DOMAIN new |-> new[x]] /\ DOMAIN new = {0} \cup T1 /\ new[0] = <<"rho">>
      /\ \A x \in T1 : x # 0 => new[x] = p[x]
  BY <1>2, <1>5
<1>7. \A m \in 0 .. (k - 1) : new[SEEDBYTES + level.t1 * m] = High(RowOfT(m), Eta(level.l + m))
  BY <1>2, <1>4, <1>6
<1>8. PublicIs(new, k)
  BY <1>6, <1>7, Zenon DEF PublicIs, T1
<1> QED
  BY <1>3, <1>8, Zenon

LEMMA RefSecret ==
  ASSUME level \in Level, NEW public, NEW v,
         s1 = SampledFrom(0, Col), s2 = SampledFrom(level.l, Row),
         \A m \in 0 .. (level.k - 1) : v[m] = Low(RowOfT(m), Eta(level.l + m))
  PROVE  SecretIs(PackSk(<<"tr", public>>, v), public, level.l, level.k, TRUE)
<1> DEFINE k == level.k  l == level.l  a == 2 * SEEDBYTES  tr == <<"tr", public>>
           S1 == Places(AtS1, level.eta, l)
           S2 == Places(AtS2, level.eta, k)
           T0 == Places(AtT0, level.t0, k)
           p1 == Packed(AtS1, l, level.eta, s1)
           p2 == Packed(AtS2, k, level.eta, s2)
           p3 == Packed(AtT0, k, level.t0, v)
           p == Behind(p1, Behind(p2, p3))
           new == Written(Written(Written(p, a, tr), SEEDBYTES, <<"key">>), 0, <<"rho">>)
<1>1. /\ k \in Nat /\ l \in Nat /\ level.eta \in Nat \ {0} /\ level.t0 \in Nat \ {0}
      /\ a = 64 /\ SEEDBYTES = 32
  BY LevelTyped DEF SEEDBYTES
<1>2. AtS1 \in Nat /\ AtS2 \in Nat /\ AtT0 \in Nat
  <2>1. l * level.eta \in Nat /\ k * level.eta \in Nat
    <3> HIDE DEF l, k
    <3> QED
      BY <1>1, Steps
  <2>2. AtS1 = 128 /\ AtS2 = AtS1 + l * level.eta /\ AtT0 = AtS2 + k * level.eta
    <3>1. AtS1 = 128
      BY DEF AtS1, SEEDBYTES, TRBYTES
    <3> QED
      BY <3>1, Zenon DEF AtS2, AtT0
  <2> HIDE DEF l, k
  <2> QED
    BY <2>1, <2>2
<1>3. /\ DOMAIN p1 = S1 /\ \A m \in 0 .. (l - 1) : p1[AtS1 + level.eta * m] = s1[m]
      /\ DOMAIN p2 = S2 /\ \A m \in 0 .. (k - 1) : p2[AtS2 + level.eta * m] = s2[m]
      /\ DOMAIN p3 = T0 /\ \A m \in 0 .. (k - 1) : p3[AtT0 + level.t0 * m] = v[m]
  <2> HIDE DEF k, l
  <2>1. DOMAIN p1 = S1 /\ \A m \in 0 .. (l - 1) : p1[AtS1 + level.eta * m] = s1[m]
    BY <1>1, <1>2, PackedPieces
  <2>2. DOMAIN p2 = S2 /\ \A m \in 0 .. (k - 1) : p2[AtS2 + level.eta * m] = s2[m]
    BY <1>1, <1>2, PackedPieces
  <2>3. DOMAIN p3 = T0 /\ \A m \in 0 .. (k - 1) : p3[AtT0 + level.t0 * m] = v[m]
    BY <1>1, <1>2, PackedPieces
  <2> QED
    BY <2>1, <2>2, <2>3
<1>4. /\ \A m \in 0 .. (l - 1) : s1[m] = Eta(m)
      /\ \A m \in 0 .. (k - 1) : s2[m] = Eta(level.l + m)
  <2>1. \A m \in 0 .. (l - 1) : 0 + m = m
    BY <1>1
  <2> QED
    BY <2>1 DEF SampledFrom, Row, Col
<1>5. PackSk(tr, v) = new
  BY DEF PackSk
<1>6. /\ \A m \in 0 .. (l - 1) : AtS1 + level.eta * m \in S1
      /\ \A m \in 0 .. (k - 1) : AtS2 + level.eta * m \in S2
      /\ \A m \in 0 .. (k - 1) : AtT0 + level.t0 * m \in T0
  BY Zenon DEF Places
<1>7. \A x \in S1 \cup S2 \cup T0 : x \notin {0, SEEDBYTES, a}
  <2>1. ASSUME NEW m \in Nat
        PROVE  /\ AtS1 + level.eta * m \notin {0, SEEDBYTES, a}
               /\ AtS2 + level.eta * m \notin {0, SEEDBYTES, a}
               /\ AtT0 + level.t0 * m \notin {0, SEEDBYTES, a}
    <3>1. /\ AtS1 + level.eta * m > 64 /\ AtS1 + level.eta * m \in Nat
          /\ AtS2 + level.eta * m > 64 /\ AtS2 + level.eta * m \in Nat
          /\ AtT0 + level.t0 * m > 64 /\ AtT0 + level.t0 * m \in Nat
      BY <1>1, Apart
    <3> HIDE DEF a
    <3> QED
      BY <1>1, <3>1
  <2>2. \A m : m \in 0 .. (l - 1) \/ m \in 0 .. (k - 1) => m \in Nat
    BY <1>1
  <2> QED
    BY <2>1, <2>2, Zenon DEF Places
<1>8. /\ \A x \in S2 : x \notin S1
      /\ \A x \in T0 : x \notin S1 /\ x \notin S2
  <2>1. ASSUME NEW m \in 0 .. (l - 1), NEW n \in Nat
        PROVE  /\ AtS1 + level.eta * m # AtS2 + level.eta * n
               /\ AtS1 + level.eta * m # AtT0 + level.t0 * n
    <3>1. m \in Nat /\ m < level.l
      BY <1>1
    <3>2. /\ AtS1 + level.eta * m < AtS2 + level.eta * n /\ AtS1 + level.eta * m \in Nat
          /\ AtS1 + level.eta * m < AtT0 + level.t0 * n
      BY <3>1, Apart
    <3>3. AtS2 + level.eta * n \in Nat /\ AtT0 + level.t0 * n \in Nat
      BY Apart
    <3> QED
      BY <3>2, <3>3
  <2>2. ASSUME NEW m \in 0 .. (k - 1), NEW n \in Nat
        PROVE  AtS2 + level.eta * m # AtT0 + level.t0 * n
    <3>1. m \in Nat /\ m < level.k
      BY <1>1
    <3>2. /\ AtS2 + level.eta * m < AtT0 + level.t0 * n /\ AtS2 + level.eta * m \in Nat
      BY <3>1, Apart
    <3>3. AtT0 + level.t0 * n \in Nat
      BY Apart
    <3> QED
      BY <3>2, <3>3
  <2>3. \A m : m \in 0 .. (k - 1) => m \in Nat
    BY <1>1
  <2> QED
    BY <2>1, <2>2, <2>3, Zenon DEF Places
<1> HIDE DEF p1, p2, p3, S1, S2, T0, a, tr
<1>9. /\ DOMAIN p = S1 \cup S2 \cup T0
      /\ \A x \in S1 : p[x] = p1[x]
      /\ \A x \in S2 : p[x] = p2[x]
      /\ \A x \in T0 : p[x] = p3[x]
  BY <1>3, <1>8 DEF Behind
<1> HIDE DEF p
<1>10. /\ new = [x \in DOMAIN new |-> new[x]]
       /\ DOMAIN new = {0, SEEDBYTES, a} \cup S1 \cup S2 \cup T0
       /\ new[0] = <<"rho">> /\ new[SEEDBYTES] = <<"key">> /\ new[a] = tr
       /\ \A x \in S1 \cup S2 \cup T0 : new[x] = p[x]
  BY <1>1, <1>7, <1>9 DEF Written
<1> HIDE DEF new
<1>11. \A m \in 0 .. (l - 1) : new[AtS1 + level.eta * m] = Eta(m)
  BY <1>3, <1>4, <1>6, <1>9, <1>10
<1>12. \A m \in 0 .. (k - 1) : new[AtS2 + level.eta * m] = Eta(level.l + m)
  BY <1>3, <1>4, <1>6, <1>9, <1>10
<1>13. \A m \in 0 .. (k - 1) : new[AtT0 + level.t0 * m] = Low(RowOfT(m), Eta(level.l + m))
  BY <1>3, <1>6, <1>9, <1>10
<1>14. DOMAIN new = {0, SEEDBYTES} \cup (IF TRUE THEN {a} ELSE {}) \cup S1 \cup S2 \cup T0
  BY <1>10
<1>15. SecretIs(new, public, l, k, TRUE)
  BY <1>10, <1>11, <1>12, <1>13, <1>14, Zenon DEF SecretIs, S1, S2, T0, a, tr
<1> QED
  BY <1>5, <1>15, Zenon DEF tr

(* Who changes nothing of c-ref's, or nothing of c-lowram's.               *)
LEMMA RefUnchanged ==
  ASSUME KeyInv, UNCHANGED <<level, refKeyVars>>
  PROVE  RefKeyInv'
<1>1. /\ UNCHANGED <<level, refDone, mat, s1, s2, t, refPk, refSk>> /\ RefKeyInv
  BY DEF refKeyVars, KeyInv
<1>2. /\ refDone = "packed" => PublicIs(refPk, level.k)'
      /\ refDone = "packed" => SecretIs(refSk, refPk, level.l, level.k, TRUE)'
  <2>1. /\ level' = level
        /\ refDone = "packed" => PublicIs(refPk', level.k)
        /\ refDone = "packed" => SecretIs(refSk', refPk', level.l, level.k, TRUE)
    BY <1>1 DEF RefKeyInv
  <2>2. refDone = "packed" => PublicIs(refPk, level.k)'
    BY <2>1, Zenon DEF PublicIs, Places, RowOfT
  <2>3. refDone = "packed" => SecretIs(refSk, refPk, level.l, level.k, TRUE)'
    BY <2>1, Zenon DEF SecretIs, Places, RowOfT, AtS1, AtS2, AtT0
  <2> QED
    BY <2>2, <2>3
<1>3. /\ Expanded' = Expanded /\ Row' = Row /\ Col' = Col
      /\ [n \in Row |-> [sum |-> RowOfT(n), error |-> Eta(level.l + n)]]'
           = [n \in Row |-> [sum |-> RowOfT(n), error |-> Eta(level.l + n)]]
  BY <1>1, Zenon DEF Expanded, Row, Col, RowOfT
<1>4. /\ SampledFrom(0, Col)' = SampledFrom(0, Col)
      /\ SampledFrom(level.l, Row)' = SampledFrom(level.l, Row)
  BY <1>1, <1>3, Zenon DEF SampledFrom
<1> HIDE DEF Row, Col
<1> QED
  BY <1>1, <1>2, <1>3, <1>4 DEF RefKeyInv

LEMMA LowUnchanged ==
  ASSUME KeyInv, UNCHANGED <<level, lowKeyVars>>
  PROVE  LowKeyInv'
<1>1. UNCHANGED <<level, lowAt, atRow, atCol, tA, tB, tC, pk, sk>> /\ LowKeyInv
  BY DEF lowKeyVars, KeyInv
<1>2. LowKeyTyped'
  BY <1>1 DEF LowKeyTyped, LowKeyInv
<1>3. SummedTo(tA, atRow, atCol)'
  <2>1. SummedTo(tA', atRow', atCol')
    BY <1>1 DEF LowKeyInv
  <2>2. level' = level
    BY <1>1
  <2> QED
    BY <2>1, <2>2, Zenon DEF SummedTo, RowOfT
<1>4. /\ lowAt # "seed" => PublicIs(pk, atRow)'
      /\ lowAt # "seed" => SecretIs(sk, pk, PackedCols, atRow, lowAt = "packed")'
  <2>1. /\ level' = level
        /\ PackedCols' = PackedCols /\ lowAt' = lowAt
        /\ lowAt # "seed" => PublicIs(pk', atRow')
        /\ lowAt # "seed" => SecretIs(sk', pk', PackedCols, atRow', lowAt = "packed")
    BY <1>1 DEF LowKeyInv, PackedCols
  <2>2. lowAt # "seed" => PublicIs(pk, atRow)'
    BY <2>1, Zenon DEF PublicIs, Places, RowOfT
  <2>3. lowAt # "seed" => SecretIs(sk', pk', PackedCols', atRow', lowAt' = "packed")
    BY <2>1, Zenon
  <2>4. lowAt # "seed" => SecretIs(sk, pk, PackedCols, atRow, lowAt = "packed")'
    BY <2>1, <2>3, Zenon DEF SecretIs, PackedCols, Places, RowOfT, AtS1, AtS2, AtT0
  <2> QED
    BY <2>2, <2>4
<1> QED
  BY <1>1, <1>2, <1>3, <1>4 DEF LowKeyInv

LEMMA RefSampleInv ==
  ASSUME KeyInv, RefSample
  PROVE  RefKeyInv'
<1>1. /\ mat' = Expanded /\ s1' = SampledFrom(0, Col) /\ s2' = SampledFrom(level.l, Row)
      /\ refDone' = "sampled" /\ UNCHANGED level
  BY DEF RefSample
<1>2. /\ Expanded' = Expanded /\ Row' = Row /\ Col' = Col
  BY <1>1, Zenon DEF Expanded, Row, Col
<1>3. /\ SampledFrom(0, Col)' = SampledFrom(0, Col)
      /\ SampledFrom(level.l, Row)' = SampledFrom(level.l, Row)
  BY <1>1, <1>2, Zenon DEF SampledFrom
<1> QED
  BY <1>1, <1>2, <1>3 DEF RefKeyInv

LEMMA RefMultiplyInv ==
  ASSUME KeyInv, RefMultiply
  PROVE  RefKeyInv'
<1> DEFINE rows == [n \in Row |-> [sum |-> RowOfT(n), error |-> Eta(level.l + n)]]
<1>1. /\ mat = Expanded /\ s1 = SampledFrom(0, Col) /\ s2 = SampledFrom(level.l, Row)
      /\ t' = [n \in Row |-> [sum |-> AccMontgomery(mat[n], s1), error |-> s2[n]]]
      /\ refDone' = "multiplied" /\ UNCHANGED <<level, mat, s1, s2>>
      /\ level \in Level
  BY DEF RefMultiply, KeyInv, RefKeyInv, LowKeyInv, LowKeyTyped
<1>2. ASSUME NEW n \in Row
      PROVE  AccMontgomery(mat[n], s1) = RowOfT(n) /\ s2[n] = Eta(level.l + n)
  <2>1. level.l \in Nat
    BY <1>1, LevelTyped
  <2>2. ASSUME NEW m \in 1 .. level.l
        PROVE  mat[n][m - 1] = Uniform(256 * n + (m - 1)) /\ s1[m - 1] = Eta(m - 1)
    <3>1. m - 1 \in Col /\ 0 + (m - 1) = m - 1
      BY <2>1 DEF Col
    <3>2. mat[n][m - 1] = Uniform(256 * n + (m - 1))
      BY <1>1, <3>1 DEF Expanded
    <3>3. s1[m - 1] = Eta(0 + (m - 1))
      BY <1>1, <3>1 DEF SampledFrom
    <3> QED
      BY <3>1, <3>2, <3>3
  <2>3. AccMontgomery(mat[n], s1)
          = [m \in 1 .. level.l |-> Product(mat[n][m - 1], Ntt(s1[m - 1]))]
    BY Zenon DEF AccMontgomery
  <2>4. AccMontgomery(mat[n], s1) = RowOfT(n)
    BY <2>2, <2>3, Zenon DEF RowOfT
  <2>5. s2[n] = Eta(level.l + n)
    BY <1>1 DEF SampledFrom
  <2> QED
    BY <2>4, <2>5
<1>3. t' = rows
  BY <1>1, <1>2, Zenon
<1>4. /\ Expanded' = Expanded /\ Row' = Row /\ Col' = Col /\ rows' = rows
  BY <1>1, Zenon DEF Expanded, Row, Col, RowOfT
<1>5. /\ SampledFrom(0, Col)' = SampledFrom(0, Col)
      /\ SampledFrom(level.l, Row)' = SampledFrom(level.l, Row)
  BY <1>1, <1>4, Zenon DEF SampledFrom
<1> QED
  BY <1>1, <1>3, <1>4, <1>5 DEF RefKeyInv

LEMMA RefPackInv ==
  ASSUME KeyInv, RefPack
  PROVE  RefKeyInv'
<1> DEFINE rows == [n \in Row |-> [sum |-> RowOfT(n), error |-> Eta(level.l + n)]]
           high == [n \in Row |-> High(t[n].sum, t[n].error)]
           low == [n \in Row |-> Low(t[n].sum, t[n].error)]
<1>1. /\ mat = Expanded /\ s1 = SampledFrom(0, Col) /\ s2 = SampledFrom(level.l, Row)
      /\ t = rows
      /\ refPk' = PackPk(high) /\ refSk' = PackSk(<<"tr", refPk'>>, low)
      /\ refDone' = "packed" /\ UNCHANGED <<level, mat, s1, s2, t>>
      /\ level \in Level
  BY DEF RefPack, KeyInv, RefKeyInv, LowKeyInv, LowKeyTyped
<1>2. \A m \in 0 .. (level.k - 1) : /\ high[m] = High(RowOfT(m), Eta(level.l + m))
                                 /\ low[m] = Low(RowOfT(m), Eta(level.l + m))
  BY <1>1 DEF Row
<1> HIDE DEF high, low
<1>3. PublicIs(refPk', level.k)
  <2>1. PublicIs(PackPk(high), level.k)
    BY <1>1, <1>2, RefPublic
  <2> QED
    BY <1>1, <2>1
<1>4. SecretIs(refSk', refPk', level.l, level.k, TRUE)
  <2>1. SecretIs(PackSk(<<"tr", refPk'>>, low), refPk', level.l, level.k, TRUE)
    BY <1>1, <1>2, RefSecret
  <2> QED
    BY <1>1, <2>1
<1>5. PublicIs(refPk, level.k)'
  BY <1>1, <1>3, Zenon DEF PublicIs, Places, RowOfT
<1>6. SecretIs(refSk, refPk, level.l, level.k, TRUE)'
  BY <1>1, <1>4, Zenon DEF SecretIs, Places, RowOfT, AtS1, AtS2, AtT0
<1>7. /\ Expanded' = Expanded /\ Row' = Row /\ Col' = Col /\ rows' = rows
  BY <1>1, Zenon DEF Expanded, Row, Col, RowOfT
<1>8. /\ SampledFrom(0, Col)' = SampledFrom(0, Col)
      /\ SampledFrom(level.l, Row)' = SampledFrom(level.l, Row)
  BY <1>1, <1>7, Zenon DEF SampledFrom
<1> QED
  BY <1>1, <1>5, <1>6, <1>7, <1>8 DEF RefKeyInv

LEMMA KeyInitial ==
  ASSUME KeyInit
  PROVE  KeyInv
<1>1. level \in Level /\ level.k \in Nat /\ level.l \in Nat
  BY LevelTyped DEF KeyInit
<1> QED
  BY <1>1 DEF KeyInit, KeyInv, LowKeyInv, LowKeyTyped, SummedTo, RefKeyInv

LEMMA KeyStep ==
  ASSUME KeyInv, [KeyNext]_keyVars
  PROVE  KeyInv'
<1>1. CASE RefSample
  <2>1. UNCHANGED <<level, lowKeyVars>>
    BY <1>1 DEF RefSample
  <2> QED
    BY <1>1, <2>1, RefSampleInv, LowUnchanged DEF KeyInv
<1>2. CASE RefMultiply
  <2>1. UNCHANGED <<level, lowKeyVars>>
    BY <1>2 DEF RefMultiply
  <2> QED
    BY <1>2, <2>1, RefMultiplyInv, LowUnchanged DEF KeyInv
<1>3. CASE RefPack
  <2>1. UNCHANGED <<level, lowKeyVars>>
    BY <1>3 DEF RefPack
  <2> QED
    BY <1>3, <2>1, RefPackInv, LowUnchanged DEF KeyInv
<1>4. CASE LowStart
  <2>1. UNCHANGED <<level, refKeyVars>>
    BY <1>4 DEF LowStart
  <2> QED
    BY <1>4, <2>1, LowStartInv, RefUnchanged DEF KeyInv
<1>5. CASE LowColumn
  <2>1. UNCHANGED <<level, refKeyVars>>
    BY <1>5 DEF LowColumn
  <2> QED
    BY <1>5, <2>1, LowColumnInv, RefUnchanged DEF KeyInv
<1>6. CASE LowRow
  <2>1. UNCHANGED <<level, refKeyVars>>
    BY <1>6 DEF LowRow
  <2> QED
    BY <1>6, <2>1, LowRowInv, RefUnchanged DEF KeyInv
<1>7. CASE LowHash
  <2>1. UNCHANGED <<level, refKeyVars>>
    BY <1>7 DEF LowHash
  <2> QED
    BY <1>7, <2>1, LowHashInv, RefUnchanged DEF KeyInv
<1>8. CASE UNCHANGED keyVars
  <2>1. UNCHANGED <<level, refKeyVars>> /\ UNCHANGED <<level, lowKeyVars>>
    BY <1>8 DEF keyVars
  <2> QED
    BY <2>1, LowUnchanged, RefUnchanged DEF KeyInv
<1> QED
  BY <1>1, <1>2, <1>3, <1>4, <1>5, <1>6, <1>7, <1>8 DEF KeyNext

(* Two keys that hold the same hold it at the same places.                 *)
LEMMA OnePublic ==
  ASSUME NEW key, NEW other, NEW n, PublicIs(key, n), PublicIs(other, n)
  PROVE  key = other
<1>1. /\ key = [o \in DOMAIN key |-> key[o]] /\ other = [o \in DOMAIN other |-> other[o]]
      /\ DOMAIN key = DOMAIN other
      /\ DOMAIN key = {0} \cup Places(SEEDBYTES, level.t1, n) /\ key[0] = other[0]
  BY DEF PublicIs
<1>2. \A o \in Places(SEEDBYTES, level.t1, n) : key[o] = other[o]
  <2>1. \A x \in 0 .. (n - 1) : key[SEEDBYTES + level.t1 * x] = other[SEEDBYTES + level.t1 * x]
    BY DEF PublicIs
  <2> QED
    BY <2>1, Zenon DEF Places
<1> QED
  BY <1>1, <1>2

LEMMA OneSecret ==
  ASSUME NEW key, NEW other, NEW public, NEW m, NEW n,
         SecretIs(key, public, m, n, TRUE), SecretIs(other, public, m, n, TRUE)
  PROVE  key = other
<1> DEFINE S1 == Places(AtS1, level.eta, m)
           S2 == Places(AtS2, level.eta, n)
           T0 == Places(AtT0, level.t0, n)
<1>1. /\ key = [o \in DOMAIN key |-> key[o]] /\ other = [o \in DOMAIN other |-> other[o]]
      /\ DOMAIN key = DOMAIN other
      /\ DOMAIN key = {0, SEEDBYTES} \cup {2 * SEEDBYTES} \cup S1 \cup S2 \cup T0
      /\ key[0] = other[0] /\ key[SEEDBYTES] = other[SEEDBYTES]
      /\ key[2 * SEEDBYTES] = other[2 * SEEDBYTES]
  BY DEF SecretIs
<1>2. \A o \in S1 : key[o] = other[o]
  <2>1. \A x \in 0 .. (m - 1) : key[AtS1 + level.eta * x] = other[AtS1 + level.eta * x]
    BY DEF SecretIs
  <2> QED
    BY <2>1, Zenon DEF Places
<1>3. \A o \in S2 : key[o] = other[o]
  <2>1. \A x \in 0 .. (n - 1) : key[AtS2 + level.eta * x] = other[AtS2 + level.eta * x]
    BY DEF SecretIs
  <2> QED
    BY <2>1, Zenon DEF Places
<1>4. \A o \in T0 : key[o] = other[o]
  <2>1. \A x \in 0 .. (n - 1) : key[AtT0 + level.t0 * x] = other[AtT0 + level.t0 * x]
    BY DEF SecretIs
  <2> QED
    BY <2>1, Zenon DEF Places
<1> HIDE DEF S1, S2, T0
<1> QED
  BY <1>1, <1>2, <1>3, <1>4

LEMMA KeysAgreeInv ==
  ASSUME KeyInv
  PROVE  KeysAgree
<1>1. SameKeys
  <2> SUFFICES ASSUME refDone = "packed", lowAt = "packed"
               PROVE  pk = refPk /\ sk = refSk
    BY DEF SameKeys
  <2>1. /\ level \in Level /\ atRow = level.k
        /\ PublicIs(pk, level.k) /\ PublicIs(refPk, level.k)
        /\ SecretIs(sk, pk, PackedCols, level.k, TRUE)
        /\ SecretIs(refSk, refPk, level.l, level.k, TRUE)
    BY DEF KeyInv, LowKeyInv, LowKeyTyped, RefKeyInv
  <2>2. PackedCols = level.l
    BY <2>1, LevelTyped DEF PackedCols
  <2>3. pk = refPk
    BY <2>1, OnePublic
  <2>4. SecretIs(sk, pk, level.l, level.k, TRUE) /\ SecretIs(refSk, pk, level.l, level.k, TRUE)
    BY <2>1, <2>2, <2>3
  <2> QED
    BY <2>3, <2>4, OneSecret
<1>2. ReadersAgree
  <2> SUFFICES ASSUME lowAt = "packed"
               PROVE  /\ ReadLowram(sk) = UnpackSk(sk)
                      /\ PyUnpackSk(sk) = UnpackSk(sk)
                      /\ UnpackSk(sk).s1 = [n \in Col |-> Eta(n)]
                      /\ UnpackSk(sk).s2 = [n \in Row |-> Eta(level.l + n)]
                      /\ \A n \in Row :
                           UnpackSk(sk).t0[n] = Low(pk[T1Offset(n)][2], Eta(level.l + n))
                      /\ UnpackSk(sk).tr = <<"tr", pk>>
    BY DEF ReadersAgree
  <2>1. /\ level \in Level /\ atRow = level.k /\ PublicIs(pk, level.k)
        /\ SecretIs(sk, pk, PackedCols, level.k, TRUE)
    BY DEF KeyInv, LowKeyInv, LowKeyTyped
  <2>2. PackedCols = level.l /\ level.l \in Nat /\ level.k \in Nat
    BY <2>1, LevelTyped DEF PackedCols
  <2>3. \A n : n \in Row \/ n \in Col => n \in Nat
    BY <2>2 DEF Row, Col
  <2>4. /\ DOMAIN sk = {0, SEEDBYTES} \cup {2 * SEEDBYTES}
                         \cup Places(AtS1, level.eta, level.l)
                         \cup Places(AtS2, level.eta, level.k)
                         \cup Places(AtT0, level.t0, level.k)
        /\ sk[2 * SEEDBYTES] = <<"tr", pk>>
        /\ \A n \in Col : sk[AtS1 + level.eta * n] = Eta(n)
        /\ \A n \in Row : /\ sk[AtS2 + level.eta * n] = Eta(level.l + n)
                         /\ sk[AtT0 + level.t0 * n] = Low(RowOfT(n), Eta(level.l + n))
    BY <2>1, <2>2 DEF SecretIs, Row, Col
  <2>5. \A n \in Row : T0Pointer(n) \in DOMAIN sk
    <3>1. \A n \in Row : AtT0 + level.t0 * n \in Places(AtT0, level.t0, level.k)
      BY Zenon DEF Places, Row
    <3> QED
      BY <2>1, <2>3, <2>4, <3>1, Offsets
  <2>6. \A n \in Row : pk[T1Offset(n)][2] = RowOfT(n)
    <3>1. \A n \in Row : pk[SEEDBYTES + level.t1 * n] = High(RowOfT(n), Eta(level.l + n))
      BY <2>1 DEF PublicIs, Row
    <3>2. \A n \in Row : pk[T1Offset(n)] = High(RowOfT(n), Eta(level.l + n))
      BY <2>1, <2>3, <3>1, Offsets
    <3> QED
      BY <3>2 DEF High
  <2> DEFINE read == UnpackSk(sk)
  <2>7. /\ read.s1 = [n \in Col |-> Eta(n)]
        /\ read.s2 = [n \in Row |-> Eta(level.l + n)]
        /\ read.t0 = [n \in Row |-> Low(RowOfT(n), Eta(level.l + n))]
        /\ read.tr = <<"tr", pk>>
        /\ read = [rho |-> sk[0], key |-> sk[SEEDBYTES], tr |-> sk[2 * SEEDBYTES],
                   s1 |-> read.s1, s2 |-> read.s2, t0 |-> read.t0]
    <3>1. \A n \in Col : sk[AtS1 + n * level.eta] = Eta(n)
      BY <2>1, <2>3, <2>4, Offsets
    <3>2. \A n \in Row : sk[AtS2 + n * level.eta] = Eta(level.l + n)
      BY <2>1, <2>3, <2>4, Offsets
    <3>3. \A n \in Row : sk[AtT0 + n * level.t0] = Low(RowOfT(n), Eta(level.l + n))
      BY <2>1, <2>3, <2>4, Offsets
    <3> QED
      BY <2>4, <3>1, <3>2, <3>3 DEF UnpackSk
  <2>8. /\ \A n \in Col : /\ sk[2 * SEEDBYTES + TRBYTES + n * level.eta] = Eta(n)
                         /\ sk[128 + n * level.eta] = Eta(n)
        /\ \A n \in Row :
             /\ sk[2 * SEEDBYTES + TRBYTES + level.l * level.eta + n * level.eta]
                  = Eta(level.l + n)
             /\ sk[128 + level.eta * level.l + n * level.eta] = Eta(level.l + n)
        /\ \A n \in Row : /\ sk[T0Pointer(n)] = Low(RowOfT(n), Eta(level.l + n))
                         /\ sk[PySkSize - 416 * level.k + n * level.t0]
                              = Low(RowOfT(n), Eta(level.l + n))
    <3>1. ASSUME NEW n \in Nat
          PROVE  /\ 2 * SEEDBYTES + TRBYTES + n * level.eta = AtS1 + level.eta * n
                 /\ 128 + n * level.eta = AtS1 + level.eta * n
                 /\ 2 * SEEDBYTES + TRBYTES + level.l * level.eta + n * level.eta
                      = AtS2 + level.eta * n
                 /\ 128 + level.eta * level.l + n * level.eta = AtS2 + level.eta * n
      <4>1. S1Offset(n) = AtS1 + level.eta * n /\ S2Offset(n) = AtS2 + level.eta * n
        BY <2>1, Offsets
      <4>2. level.eta * level.l = level.l * level.eta
        BY <2>1, LevelTyped, Steps
      <4>3. 2 * SEEDBYTES + TRBYTES = 128
        BY DEF SEEDBYTES, TRBYTES
      <4> QED
        BY <4>1, <4>2, <4>3, Zenon DEF S1Offset, S2Offset
    <3>2. /\ \A n \in Col : sk[AtS1 + level.eta * n] = Eta(n)
          /\ \A n \in Row : sk[AtS2 + level.eta * n] = Eta(level.l + n)
          /\ \A n \in Row : sk[AtT0 + level.t0 * n] = Low(RowOfT(n), Eta(level.l + n))
      BY <2>4
    <3>3. \A n \in Col : /\ sk[2 * SEEDBYTES + TRBYTES + n * level.eta] = Eta(n)
                       /\ sk[128 + n * level.eta] = Eta(n)
      BY <2>3, <3>1, <3>2, Zenon
    <3>4. \A n \in Row :
            /\ sk[2 * SEEDBYTES + TRBYTES + level.l * level.eta + n * level.eta]
                 = Eta(level.l + n)
            /\ sk[128 + level.eta * level.l + n * level.eta] = Eta(level.l + n)
      BY <2>3, <3>1, <3>2, Zenon
    <3>5. ASSUME NEW n \in Nat
          PROVE  /\ T0Pointer(n) = AtT0 + level.t0 * n
                 /\ PySkSize - 416 * level.k + n * level.t0 = AtT0 + level.t0 * n
      BY <2>1, Offsets, Zenon
    <3>6. \A n \in Row : /\ sk[T0Pointer(n)] = Low(RowOfT(n), Eta(level.l + n))
                       /\ sk[PySkSize - 416 * level.k + n * level.t0]
                            = Low(RowOfT(n), Eta(level.l + n))
      BY <2>3, <3>2, <3>5, Zenon
    <3> QED
      BY <3>3, <3>4, <3>6, Zenon
  <2>9. ReadLowram(sk) = read
    <3>1. ReadLowram(sk) = [rho |-> sk[0], key |-> sk[SEEDBYTES], tr |-> sk[2 * SEEDBYTES],
                            s1 |-> [n \in Col |-> Eta(n)],
                            s2 |-> [n \in Row |-> Eta(level.l + n)],
                            t0 |-> [n \in Row |-> Low(RowOfT(n), Eta(level.l + n))]]
      BY <2>5, <2>8, Zenon DEF ReadLowram
    <3> HIDE DEF read
    <3> QED
      BY <2>7, <3>1, Zenon
  <2>10. PyUnpackSk(sk) = read
    <3>1. PyUnpackSk(sk) = [rho |-> sk[0], key |-> sk[32], tr |-> sk[64],
                            s1 |-> [n \in Col |-> Eta(n)],
                            s2 |-> [n \in Row |-> Eta(level.l + n)],
                            t0 |-> [n \in Row |-> Low(RowOfT(n), Eta(level.l + n))]]
      BY <2>8, Zenon DEF PyUnpackSk
    <3>2. SEEDBYTES = 32 /\ 2 * SEEDBYTES = 64
      BY DEF SEEDBYTES
    <3> HIDE DEF read
    <3> QED
      BY <2>7, <3>1, <3>2, Zenon
  <2>11. \A n \in Row : read.t0[n] = Low(pk[T1Offset(n)][2], Eta(level.l + n))
    <3> HIDE DEF read
    <3> QED
      BY <2>6, <2>7
  <2> HIDE DEF read
  <2>12. /\ ReadLowram(sk) = read /\ PyUnpackSk(sk) = read
         /\ read.s1 = [n \in Col |-> Eta(n)] /\ read.s2 = [n \in Row |-> Eta(level.l + n)]
         /\ \A n \in Row : read.t0[n] = Low(pk[T1Offset(n)][2], Eta(level.l + n))
         /\ read.tr = <<"tr", pk>>
    BY <2>7, <2>9, <2>10, <2>11, Zenon
  <2> QED
    BY <2>12, Zenon DEF read
<1> QED
  BY <1>1, <1>2 DEF KeysAgree

-----------------------------------------------------------------------------
(* The challenge.                                                          *)

ChallengeTyped ==
  /\ stream \in [signs : [1 .. TAU -> {0, 1}], bytes : [1 .. StreamLen -> Coefficient]]
  /\ requests \in Requests
  /\ phase \in {"sign", "sample", "compress", "row", "decompressed", "product"}
  /\ pulled \in Nat
  /\ buf \in Seq(Int) /\ pos \in Nat /\ pos <= Len(buf)
  /\ i \in (Size - TAU) .. Size
  /\ phase = "sign" => i = Size - TAU
  /\ c \in [Coefficient -> {-1, 0, 1}]
  /\ signs \in Seq({0, 1})
  /\ Len(signs) = IF phase = "sign" THEN 0 ELSE Size - i
  /\ ccomp.signs \in [1 .. TAU -> {0, 1}]

LEMMA ChallengeConstants ==
  /\ Size \in Nat \ {0} /\ TAU \in Nat \ {0} /\ TAU <= Size
  /\ SignBytes \in Nat \ {0} /\ StreamLen \in Nat
  /\ \A q \in Requests : /\ q.first \in Nat \ {0} /\ q.later \in Nat \ {0}
                         /\ q.first >= SignBytes
BY ChallengeAssumption

LEMMA ByteTyped ==
  ASSUME ChallengeTyped, NEW n \in Int
  PROVE  ByteAt(n) \in Coefficient
<1> DEFINE x == n - SignBytes
<1>1. stream.bytes \in [1 .. StreamLen -> Coefficient] /\ 0 \in Coefficient
  BY ChallengeConstants DEF ChallengeTyped, Coefficient
<1>2. ByteAt(n) = IF x \in 1 .. StreamLen THEN stream.bytes[x] ELSE 0
  BY Zenon DEF ByteAt
<1> HIDE DEF x
<1> QED
  BY <1>1, <1>2

LEMMA PulledTyped ==
  ASSUME NEW from \in Int, NEW size \in Nat
  PROVE  Pulled(from, size) \in Seq(Int) /\ Len(Pulled(from, size)) = size
<1>1. \A n \in 1 .. size : from + n \in Int
  OBVIOUS
<1> QED
  BY <1>1 DEF Pulled

LEMMA ChallengeInitial == ChallengeInit => ChallengeTyped
<1> SUFFICES ASSUME ChallengeInit
             PROVE  ChallengeTyped
  OBVIOUS
<1>1. c \in [Coefficient -> {-1, 0, 1}]
  <2>1. c = [j \in Coefficient |-> 1]
    BY DEF ChallengeInit
  <2> QED
    BY <2>1
<1>2. ccomp.signs \in [1 .. TAU -> {0, 1}]
  BY DEF ChallengeInit
<1>3. /\ buf = << >> /\ signs = << >> /\ pos = 0 /\ pulled = 0 /\ phase = "sign" /\ i = Size - TAU
      /\ requests \in Requests
      /\ stream \in [signs : [1 .. TAU -> {0, 1}], bytes : [1 .. StreamLen -> Coefficient]]
  BY DEF ChallengeInit
<1>4. i \in (Size - TAU) .. Size
  BY <1>3, ChallengeConstants
<1> QED
  BY <1>1, <1>2, <1>3, <1>4 DEF ChallengeTyped

LEMMA ChallengeStep == ChallengeTyped /\ [ChallengeNext]_challengeVars => ChallengeTyped'
<1> SUFFICES ASSUME ChallengeTyped, [ChallengeNext]_challengeVars
             PROVE  ChallengeTyped'
  OBVIOUS
<1>1. CASE TakeSigns
  <2>1. /\ buf' = Pulled(0, requests.first) /\ pulled' = requests.first /\ pos' = SignBytes
        /\ signs' = stream.signs /\ c' = Zero /\ phase' = "sample" /\ i = Size - TAU
        /\ UNCHANGED <<stream, requests, i, ccomp>>
    BY <1>1 DEF TakeSigns, PosAfterSigns, ChallengeTyped
  <2>2. requests.first \in Nat /\ requests.first >= SignBytes /\ SignBytes \in Nat
    BY ChallengeConstants DEF ChallengeTyped
  <2>3. buf' \in Seq(Int) /\ Len(buf') = requests.first
    <3>1. 0 \in Int
      OBVIOUS
    <3> QED
      BY <2>1, <2>2, <3>1, PulledTyped
  <2>4. signs' \in Seq({0, 1}) /\ Len(signs') = TAU
    <3>1. stream.signs \in [1 .. TAU -> {0, 1}] /\ TAU \in Nat
      BY ChallengeConstants DEF ChallengeTyped
    <3> QED
      BY <2>1, <3>1
  <2>5. c' \in [Coefficient -> {-1, 0, 1}]
    BY <2>1 DEF Zero
  <2>6. TAU = Size - i
    BY <2>1, ChallengeConstants
  <2> QED
    BY <2>1, <2>2, <2>3, <2>4, <2>5, <2>6 DEF ChallengeTyped
<1>2. CASE Refill
  <2>1. /\ buf' = Pulled(pulled, requests.later) /\ pulled' = pulled + requests.later
        /\ pos' = 0 /\ UNCHANGED <<stream, requests, phase, i, signs, c, ccomp>>
    BY <1>2 DEF Refill
  <2>2. requests.later \in Nat /\ pulled \in Nat
    BY ChallengeConstants DEF ChallengeTyped
  <2>3. buf' \in Seq(Int) /\ Len(buf') \in Nat
    <3>1. pulled \in Int
      BY <2>2
    <3>2. buf' \in Seq(Int) /\ Len(buf') = requests.later
      BY <2>1, <2>2, <3>1, PulledTyped
    <3> QED
      BY <2>2, <3>2
  <2> QED
    BY <2>1, <2>2, <2>3 DEF ChallengeTyped
<1>3. CASE RejectByte
  <2>1. /\ pos' = pos + 1 /\ pos < Len(buf)
        /\ UNCHANGED <<stream, requests, phase, pulled, buf, i, signs, c, ccomp>>
    BY <1>3 DEF RejectByte
  <2>2. pos + 1 \in Nat /\ pos + 1 <= Len(buf)
    BY <2>1 DEF ChallengeTyped
  <2> QED
    BY <2>1, <2>2 DEF ChallengeTyped
<1>4. CASE PlaceSign
  <2> DEFINE b == NextByte
  <2>1. /\ c' = [[c EXCEPT ![i] = c[b]] EXCEPT ![b] = 1 - 2 * Head(signs)]
        /\ signs' = Tail(signs) /\ i' = i + 1 /\ pos' = pos + 1 /\ pos < Len(buf) /\ i < Size
        /\ phase = "sample" /\ phase' \in {"compress", "sample"}
        /\ UNCHANGED <<stream, requests, pulled, buf, ccomp>>
    BY <1>4 DEF PlaceSign
  <2>2. /\ pos + 1 \in Nat /\ pos + 1 <= Len(buf) /\ pos + 1 \in 1 .. Len(buf)
    BY <2>1 DEF ChallengeTyped
  <2>3. /\ Size \in Nat /\ TAU \in Nat /\ TAU <= Size /\ i \in (Size - TAU) .. Size
        /\ signs \in Seq({0, 1}) /\ Len(signs) = Size - i
        /\ c \in [Coefficient -> {-1, 0, 1}]
    BY <2>1, ChallengeConstants DEF ChallengeTyped
  <2>4. i + 1 \in (Size - TAU) .. Size /\ i \in Coefficient
    BY <2>1, <2>3 DEF Coefficient
  <2>5. /\ signs' \in Seq({0, 1}) /\ Len(signs') = Size - (i + 1)
        /\ Head(signs) \in {0, 1}
    <3>1. signs # << >>
      BY <2>1, <2>3
    <3> QED
      BY <2>1, <2>3, <3>1
  <2>6. b \in Coefficient
    <3>1. buf[pos + 1] \in Int
      BY <2>2 DEF ChallengeTyped
    <3> QED
      BY <3>1, ByteTyped DEF NextByte
  <2>7. c' \in [Coefficient -> {-1, 0, 1}]
    <3> HIDE DEF b
    <3>1. 1 - 2 * Head(signs) \in {-1, 0, 1}
      BY <2>5
    <3> HIDE DEF Coefficient
    <3> QED
      BY <2>1, <2>3, <2>4, <2>6, <3>1
  <2>8. /\ phase' # "sign"
        /\ phase' \in {"sign", "sample", "compress", "row", "decompressed", "product"}
        /\ Len(signs') = Size - i' /\ i' \in (Size - TAU) .. Size
        /\ pos' \in Nat /\ pos' <= Len(buf')
    BY <2>1, <2>2, <2>4, <2>5
  <2> QED
    BY <2>1, <2>5, <2>7, <2>8 DEF ChallengeTyped
<1>5. CASE Compress
  <2>1. /\ ccomp' = Compressed(c) /\ c' = [j \in Coefficient |-> 1] /\ phase = "compress"
        /\ phase' = "row" /\ UNCHANGED <<stream, requests, pulled, buf, pos, i, signs>>
    BY <1>5 DEF Compress
  <2>2. c' \in [Coefficient -> {-1, 0, 1}]
    BY <2>1
  <2>3. ccomp'.signs \in [1 .. TAU -> {0, 1}]
    <3>1. ccomp'.signs = [k \in 1 .. TAU |-> IF c[Nth(Support(c), k)] = -1 THEN 1 ELSE 0]
      BY <2>1 DEF Compressed
    <3> QED
      BY <3>1
  <2> QED
    BY <2>1, <2>2, <2>3 DEF ChallengeTyped
<1>6. CASE Decompress
  <2> DEFINE at(j) == CHOOSE k \in 1 .. TAU : ccomp.at[k] = j
  <2>1. /\ c' = [j \in Coefficient |->
              IF \E k \in 1 .. TAU : ccomp.at[k] = j THEN 1 - 2 * ccomp.signs[at(j)] ELSE 0]
        /\ phase = "row" /\ phase' = "decompressed"
        /\ UNCHANGED <<stream, requests, pulled, buf, pos, i, signs, ccomp>>
    BY <1>6 DEF Decompress
  <2>2. ASSUME NEW j \in Coefficient
        PROVE  (IF \E k \in 1 .. TAU : ccomp.at[k] = j THEN 1 - 2 * ccomp.signs[at(j)] ELSE 0)
                 \in {-1, 0, 1}
    <3>1. CASE \E k \in 1 .. TAU : ccomp.at[k] = j
      <4>1. at(j) \in 1 .. TAU
        BY <3>1
      <4> HIDE DEF at
      <4>2. ccomp.signs[at(j)] \in {0, 1}
        BY <4>1 DEF ChallengeTyped
      <4>3. 1 - 2 * ccomp.signs[at(j)] \in {-1, 0, 1}
        BY <4>2
      <4> QED
        BY <3>1, <4>3
    <3>2. CASE ~\E k \in 1 .. TAU : ccomp.at[k] = j
      BY <3>2
    <3> QED
      BY <3>1, <3>2
  <2>3. c' \in [Coefficient -> {-1, 0, 1}]
    <3> HIDE DEF Coefficient, at
    <3> QED
      BY <2>1, <2>2
  <2> QED
    BY <2>1, <2>3 DEF ChallengeTyped
<1>7. CASE MultiplyRow
  BY <1>7 DEF MultiplyRow, ChallengeTyped
<1>8. CASE UNCHANGED challengeVars
  BY <1>8 DEF challengeVars, ChallengeTyped
<1> QED
  BY <1>1, <1>2, <1>3, <1>4, <1>5, <1>6, <1>7, <1>8 DEF ChallengeNext

-----------------------------------------------------------------------------
(* Sums.                                                                   *)

(* What a sum is, and its first terms. *)
Partial(f, n) ==
  CHOOSE sum : sum = [k \in 0 .. n |-> IF k = 0 THEN 0 ELSE sum[k - 1] + f[k]]

LEMMA SumSteps ==
  ASSUME NEW n \in Nat, NEW f \in [1 .. n -> Int]
  PROVE  /\ SumOver(f, n) = Partial(f, n)[n]
         /\ Partial(f, n)[0] = 0
         /\ \A k \in 1 .. n : Partial(f, n)[k] = Partial(f, n)[k - 1] + f[k]
         /\ Partial(f, n) \in [0 .. n -> Int]
<1> DEFINE step == [x \in Int \X (1 .. n) |-> x[1] + f[x[2]]]
<1>1. step \in [Int \X (1 .. n) -> Int]
  OBVIOUS
<1>2. \A v \in Int, k \in 1 .. n : step[<<v, k>>] = v + f[k]
  OBVIOUS
<1> HIDE DEF step
<1>3. PICK g : Follows(g, n, Int, 0, step)
  <2>1. 0 \in Int
    OBVIOUS
  <2> QED
    BY <1>1, <2>1, RecursiveFunction, Zenon
<1>9. /\ g \in [0 .. n -> Int]
      /\ g[0] = 0 /\ \A k \in 1 .. n : g[k] = step[<<g[k - 1], k>>]
  BY <1>3 DEF Follows
<1>4. g = [k \in 0 .. n |-> IF k = 0 THEN 0 ELSE g[k - 1] + f[k]]
  <2>1. ASSUME NEW k \in 0 .. n, k # 0
        PROVE  g[k] = g[k - 1] + f[k]
    <3>1. k \in 1 .. n /\ g[k - 1] \in Int
      BY <1>9, <2>1
    <3> QED
      BY <1>2, <1>9, <3>1
  <2> QED
    BY <1>9, <2>1
<1> DEFINE p == Partial(f, n)
<1>5. p = [k \in 0 .. n |-> IF k = 0 THEN 0 ELSE p[k - 1] + f[k]]
  BY <1>4, Zenon DEF Partial
<1>6. SumOver(f, n) = p[n]
  BY Zenon DEF SumOver, Partial
<1> HIDE DEF p
<1>7. p[0] = 0 /\ \A k \in 1 .. n : p[k] = p[k - 1] + f[k]
  BY <1>5
<1>8. p \in [0 .. n -> Int]
  <2> DEFINE Bad == {k \in 0 .. n : p[k] \notin Int}
  <2>1. SUFFICES ASSUME Bad # {}
                 PROVE  FALSE
    <3>1. \A k \in 0 .. n : p[k] \in Int
      BY <2>1
    <3> QED
      BY <1>5, <3>1
  <2>2. Bad \in SUBSET Nat
    OBVIOUS
  <2> HIDE DEF Bad
  <2>3. PICK x \in Bad : \A y \in Bad : x <= y
    BY <2>1, <2>2, LeastNatural
  <2>4. x \in 0 .. n /\ p[x] \notin Int
    BY DEF Bad
  <2>5. x # 0
    BY <1>7, <2>4
  <2>6. x \in 1 .. n /\ x - 1 \in 0 .. n /\ x - 1 \notin Bad
    BY <2>3, <2>4, <2>5
  <2>7. p[x - 1] \in Int
    BY <2>6 DEF Bad
  <2> QED
    BY <1>7, <2>4, <2>6, <2>7
<1> QED
  BY <1>6, <1>7, <1>8 DEF p

-----------------------------------------------------------------------------
(* The coefficients of a set in ascending order.                           *)

Rank(S, m) == Cardinality({x \in S : x < m})

LEMMA RankSteps ==
  ASSUME NEW S, S \subseteq Coefficient
  PROVE  /\ IsFiniteSet(S)
         /\ \A m \in 0 .. Size : Rank(S, m) \in Nat
         /\ Rank(S, 0) = 0
         /\ \A m \in Coefficient : Rank(S, m + 1) = IF m \in S THEN Rank(S, m) + 1 ELSE Rank(S, m)
         /\ Rank(S, Size) = Cardinality(S)
<1>1. Size \in Nat \ {0} /\ Size - 1 \in Int /\ 0 \in Int
  BY ChallengeAssumption
<1>2. IsFiniteSet(Coefficient)
  BY <1>1, FS_Interval DEF Coefficient
<1>3. IsFiniteSet(S)
  BY <1>2, FS_Subset
<1>4. ASSUME NEW m \in 0 .. Size
      PROVE  IsFiniteSet({x \in S : x < m}) /\ Rank(S, m) \in Nat
  <2>1. {x \in S : x < m} \subseteq S
    OBVIOUS
  <2>2. IsFiniteSet({x \in S : x < m})
    BY <1>3, <2>1, FS_Subset
  <2> QED
    BY <2>2, FS_CardinalityType DEF Rank
<1>5. Rank(S, 0) = 0
  <2>1. \A x \in S : ~(x < 0)
    BY <1>1 DEF Coefficient
  <2>2. {x \in S : x < 0} = {}
    BY <2>1
  <2> QED
    BY <2>2, FS_EmptySet DEF Rank
<1>6. ASSUME NEW m \in Coefficient
      PROVE  Rank(S, m + 1) = IF m \in S THEN Rank(S, m) + 1 ELSE Rank(S, m)
  <2> DEFINE below == {x \in S : x < m}  upto == {x \in S : x < m + 1}
  <2>1. m \in Nat /\ S \subseteq Int /\ m \in 0 .. Size
    BY <1>1 DEF Coefficient
  <2>2. upto = IF m \in S THEN below \cup {m} ELSE below
    <3>1. ASSUME NEW x \in S
          PROVE  x < m + 1 <=> (x < m \/ x = m)
      <4>1. x \in Int
        BY <2>1
      <4> QED
        BY <2>1, <4>1
    <3> QED
      BY <3>1
  <2>3. m \notin below
    BY <2>1
  <2>4. IsFiniteSet(below)
    BY <1>4, <2>1
  <2> HIDE DEF below, upto
  <2>5. Cardinality(below \cup {m}) = Cardinality(below) + 1
    BY <2>3, <2>4, FS_AddElement
  <2> QED
    BY <2>2, <2>5 DEF Rank, below, upto
<1>7. Rank(S, Size) = Cardinality(S)
  <2>1. \A x \in S : x < Size
    BY <1>1 DEF Coefficient
  <2>2. {x \in S : x < Size} = S
    BY <2>1
  <2> QED
    BY <2>2 DEF Rank
<1> QED
  BY <1>3, <1>4, <1>5, <1>6, <1>7

LEMMA RankGrows ==
  ASSUME NEW S, S \subseteq Coefficient, NEW m \in 0 .. Size, NEW n \in 0 .. Size, m <= n
  PROVE  Rank(S, m) <= Rank(S, n)
<1>1. Size \in Nat \ {0}
  BY ChallengeAssumption
<1>2. IsFiniteSet({x \in S : x < n})
  <2>1. {x \in S : x < n} \subseteq S
    OBVIOUS
  <2> QED
    BY <2>1, RankSteps, FS_Subset
<1>3. {x \in S : x < m} \subseteq {x \in S : x < n}
  <2>1. \A x \in S : x \in Int
    BY DEF Coefficient
  <2> QED
    BY <2>1
<1>4. Cardinality({x \in S : x < m}) <= Cardinality({x \in S : x < n})
  BY <1>2, <1>3, FS_Subset
<1> QED
  BY <1>4 DEF Rank

(* Nth finds every position, and each once. *)
LEMMA NthRank ==
  ASSUME NEW S, S \subseteq Coefficient, NEW j \in S
  PROVE  Rank(S, j) + 1 \in 1 .. Cardinality(S) /\ Nth(S, Rank(S, j) + 1) = j
<1>1. Size \in Nat \ {0} /\ j \in Coefficient /\ j \in 0 .. Size /\ j + 1 \in 0 .. Size
  BY ChallengeAssumption DEF Coefficient
<1>2. Rank(S, j) \in Nat /\ Rank(S, j + 1) = Rank(S, j) + 1
  BY <1>1, RankSteps
<1>3. Rank(S, j + 1) <= Cardinality(S) /\ Cardinality(S) \in Nat
  <2>1. Size \in 0 .. Size /\ j + 1 <= Size
    BY <1>1
  <2>2. Rank(S, j + 1) <= Rank(S, Size)
    BY <1>1, <2>1, RankGrows
  <2>3. Rank(S, Size) = Cardinality(S) /\ Rank(S, Size) \in Nat
    BY <2>1, RankSteps
  <2> QED
    BY <2>2, <2>3
<1>4. ASSUME NEW l \in S, Rank(S, l) = Rank(S, j)
      PROVE  l = j
  <2>1. l \in Coefficient /\ l \in 0 .. Size /\ l + 1 \in 0 .. Size /\ l \in Int /\ j \in Int
    BY <1>1 DEF Coefficient
  <2>2. Rank(S, l) \in Nat /\ Rank(S, l + 1) = Rank(S, l) + 1
    BY <2>1, RankSteps
  <2>3. CASE l < j
    <3>1. l + 1 <= j
      BY <2>1, <2>3
    <3>2. Rank(S, l + 1) <= Rank(S, j)
      BY <1>1, <2>1, <3>1, RankGrows
    <3> QED
      BY <1>4, <2>2, <3>2
  <2>4. CASE j < l
    <3>1. j + 1 <= l
      BY <2>1, <2>4
    <3>2. Rank(S, j + 1) <= Rank(S, l)
      BY <1>1, <2>1, <3>1, RankGrows
    <3> QED
      BY <1>2, <1>4, <3>2
  <2> QED
    BY <2>1, <2>3, <2>4
<1>5. Nth(S, Rank(S, j) + 1) = CHOOSE l \in S : Rank(S, l) = (Rank(S, j) + 1) - 1
  BY Zenon DEF Nth, Rank
<1>6. (Rank(S, j) + 1) - 1 = Rank(S, j)
  BY <1>2
<1>7. Nth(S, Rank(S, j) + 1) = j
  <2> DEFINE r == Rank(S, j)
  <2>1. Nth(S, Rank(S, j) + 1) = CHOOSE l \in S : Rank(S, l) = r
    BY <1>5, <1>6, Zenon
  <2>2. \A l \in S : Rank(S, l) = r <=> l = j
    BY <1>4
  <2> HIDE DEF r
  <2> QED
    BY <2>1, <2>2
<1> QED
  BY <1>2, <1>3, <1>7

LEMMA NthExists ==
  ASSUME NEW S, S \subseteq Coefficient, NEW k \in 1 .. Cardinality(S)
  PROVE  Nth(S, k) \in S /\ Rank(S, Nth(S, k)) = k - 1
<1> DEFINE Above == {m \in 0 .. Size : Rank(S, m) >= k}
<1>1. Size \in Nat \ {0} /\ k \in Nat \ {0}
  BY ChallengeAssumption
<1>2. Size \in Above
  <2>1. Rank(S, Size) = Cardinality(S) /\ Rank(S, Size) \in Nat /\ Size \in 0 .. Size
    BY <1>1, RankSteps
  <2> QED
    BY <2>1
<1>3. Above \in SUBSET Nat
  BY <1>1
<1>4. \A m \in Above : m \in 0 .. Size /\ Rank(S, m) >= k
  OBVIOUS
<1>5. \A m \in 0 .. Size : m \notin Above => ~(Rank(S, m) >= k)
  OBVIOUS
<1> HIDE DEF Above
<1>6. PICK x \in Above : \A y \in Above : x <= y
  BY <1>2, <1>3, LeastNatural
<1>7. x \in 0 .. Size /\ Rank(S, x) >= k /\ x # 0
  <2>1. x \in 0 .. Size /\ Rank(S, x) >= k
    BY <1>4
  <2>2. Rank(S, 0) = 0
    BY RankSteps
  <2> QED
    BY <1>1, <2>1, <2>2
<1> DEFINE m == x - 1
<1>8. m \in Coefficient /\ m \in 0 .. Size /\ m + 1 = x /\ ~(x <= m)
  BY <1>1, <1>7 DEF Coefficient
<1> HIDE DEF m
<1>9. ~(Rank(S, m) >= k)
  BY <1>5, <1>6, <1>8
<1>10. Rank(S, m) \in Nat /\ Rank(S, x) = IF m \in S THEN Rank(S, m) + 1 ELSE Rank(S, m)
  BY <1>8, RankSteps
<1>11. m \in S /\ Rank(S, m) + 1 = k
  BY <1>1, <1>7, <1>9, <1>10
<1>12. Nth(S, k) = m
  BY <1>11, NthRank
<1>13. Rank(S, m) = k - 1
  BY <1>10, <1>11
<1> QED
  BY <1>11, <1>12, <1>13

(* The compressed challenge has every position that is not zero once, with *)
(* its sign.                                                               *)
Ternary == [Coefficient -> {-1, 0, 1}]

LEMMA CompressedForm ==
  ASSUME NEW p \in Ternary, Cardinality(Support(p)) = TAU, ccomp = Compressed(p)
  PROVE  /\ \A k \in 1 .. TAU :
              /\ ccomp.at[k] \in Support(p) /\ Rank(Support(p), ccomp.at[k]) = k - 1
              /\ ccomp.signs[k] \in {0, 1} /\ p[ccomp.at[k]] = 1 - 2 * ccomp.signs[k]
         /\ \A j \in Support(p) : /\ Rank(Support(p), j) + 1 \in 1 .. TAU
                                  /\ ccomp.at[Rank(Support(p), j) + 1] = j
<1> DEFINE S == Support(p)
<1>1. S \subseteq Coefficient /\ \A j \in S : p[j] \in {-1, 1}
  BY DEF Support, Ternary
<1>2. /\ ccomp.at = [k \in 1 .. TAU |-> Nth(S, k)]
      /\ ccomp.signs = [k \in 1 .. TAU |-> IF p[Nth(S, k)] = -1 THEN 1 ELSE 0]
  BY DEF Compressed
<1>3. Cardinality(S) = TAU
  OBVIOUS
<1> HIDE DEF S
<1>4. ASSUME NEW k \in 1 .. TAU
      PROVE  /\ ccomp.at[k] \in S /\ Rank(S, ccomp.at[k]) = k - 1
             /\ ccomp.signs[k] \in {0, 1} /\ p[ccomp.at[k]] = 1 - 2 * ccomp.signs[k]
  <2>1. Nth(S, k) \in S /\ Rank(S, Nth(S, k)) = k - 1
    BY <1>1, <1>3, NthExists
  <2>2. p[Nth(S, k)] \in {-1, 1}
    BY <1>1, <2>1
  <2>3. ccomp.at[k] = Nth(S, k) /\ ccomp.signs[k] = IF p[Nth(S, k)] = -1 THEN 1 ELSE 0
    BY <1>2
  <2> QED
    BY <2>1, <2>2, <2>3
<1>5. ASSUME NEW j \in S
      PROVE  Rank(S, j) + 1 \in 1 .. TAU /\ ccomp.at[Rank(S, j) + 1] = j
  <2>1. Rank(S, j) + 1 \in 1 .. TAU /\ Nth(S, Rank(S, j) + 1) = j
    BY <1>1, <1>3, NthRank
  <2> QED
    BY <1>2, <2>1
<1> QED
  BY <1>4, <1>5 DEF S

(* poly_challenge_decompress gives back what was compressed. *)
LEMMA Unpacked ==
  ASSUME NEW p \in Ternary, Cardinality(Support(p)) = TAU, ccomp = Compressed(p)
  PROVE  [j \in Coefficient |->
            IF \E k \in 1 .. TAU : ccomp.at[k] = j
            THEN LET k == CHOOSE k \in 1 .. TAU : ccomp.at[k] = j IN 1 - 2 * ccomp.signs[k]
            ELSE 0] = p
<1> DEFINE S == Support(p)
           first(j) == CHOOSE k \in 1 .. TAU : ccomp.at[k] = j
<1>1. /\ \A k \in 1 .. TAU : /\ ccomp.at[k] \in S
                             /\ p[ccomp.at[k]] = 1 - 2 * ccomp.signs[k]
      /\ \A j \in S : \E k \in 1 .. TAU : ccomp.at[k] = j
  <2>1. \A k \in 1 .. TAU : ccomp.at[k] \in S /\ p[ccomp.at[k]] = 1 - 2 * ccomp.signs[k]
    BY CompressedForm, Zenon
  <2>2. \A j \in S : Rank(S, j) + 1 \in 1 .. TAU /\ ccomp.at[Rank(S, j) + 1] = j
    BY CompressedForm, Zenon
  <2> HIDE DEF S
  <2> QED
    BY <2>1, <2>2
<1>2. \A j \in Coefficient : j \notin S => p[j] = 0
  BY DEF Support
<1>3. ASSUME NEW j \in Coefficient
      PROVE  (IF \E k \in 1 .. TAU : ccomp.at[k] = j THEN 1 - 2 * ccomp.signs[first(j)] ELSE 0)
             = p[j]
  <2> HIDE DEF S
  <2>1. CASE \E k \in 1 .. TAU : ccomp.at[k] = j
    <3>1. first(j) \in 1 .. TAU /\ ccomp.at[first(j)] = j
      BY <2>1
    <3> HIDE DEF first
    <3> QED
      BY <1>1, <2>1, <3>1
  <2>2. CASE ~\E k \in 1 .. TAU : ccomp.at[k] = j
    BY <1>1, <1>2, <2>2
  <2> QED
    BY <2>1, <2>2
<1>4. p = [j \in Coefficient |-> p[j]]
  BY DEF Ternary
<1> HIDE DEF first, Coefficient
<1>5. [j \in Coefficient |->
         IF \E k \in 1 .. TAU : ccomp.at[k] = j THEN 1 - 2 * ccomp.signs[first(j)] ELSE 0] = p
  BY <1>3, <1>4
<1> QED
  BY <1>5, Zenon DEF first

(* poly_schoolbook adds for the positions of the challenge in their order  *)
(* what the product adds for all coefficients: the sum up to coefficient m *)
(* is the sum up to the position of that rank.                             *)
LEMMA SchoolbookSum ==
  ASSUME NEW p \in Ternary, Cardinality(Support(p)) = TAU, ccomp = Compressed(p),
         NEW j \in Coefficient
  PROVE  SumOver([k \in 1 .. TAU |-> Contribution(j, ccomp.at[k], ccomp.signs[k])], TAU)
         = SumOver([m \in 1 .. Size |-> p[m - 1] *
                      (IF m - 1 <= j THEN T[j - (m - 1)] ELSE -T[j + Size - (m - 1)])], Size)
<1> DEFINE S == Support(p)
           shifted(m) == IF m <= j THEN T[j - m] ELSE -T[j + Size - m]
           few == [k \in 1 .. TAU |-> Contribution(j, ccomp.at[k], ccomp.signs[k])]
           all == [m \in 1 .. Size |-> p[m - 1] * shifted(m - 1)]
<1>1. Size \in Nat \ {0} /\ TAU \in Nat \ {0} /\ TAU <= Size /\ T \in [0 .. Size - 1 -> Int]
  BY ChallengeAssumption
<1>2. S \subseteq Coefficient
  BY DEF Support
<1>3. ASSUME NEW m \in Coefficient
      PROVE  shifted(m) \in Int /\ p[m] \in {-1, 0, 1}
  <2>1. m \in Int /\ j \in Int /\ 0 <= m /\ m < Size /\ 0 <= j /\ j < Size
    BY <1>1 DEF Coefficient
  <2>2. m <= j => j - m \in 0 .. Size - 1
    BY <1>1, <2>1
  <2>3. ~(m <= j) => j + Size - m \in 0 .. Size - 1
    BY <1>1, <2>1
  <2> QED
    BY <1>1, <2>2, <2>3 DEF Ternary
<1>4. /\ \A k \in 1 .. TAU : /\ ccomp.at[k] \in S /\ Rank(S, ccomp.at[k]) = k - 1
                             /\ ccomp.signs[k] \in {0, 1} /\ p[ccomp.at[k]] = 1 - 2 * ccomp.signs[k]
      /\ \A m \in S : Rank(S, m) + 1 \in 1 .. TAU /\ ccomp.at[Rank(S, m) + 1] = m
  BY CompressedForm, Zenon
<1>5. \A m \in Coefficient : m \notin S => p[m] = 0
  BY DEF Support
<1>6. Cardinality(S) = TAU
  OBVIOUS
<1> HIDE DEF S
<1>7. ASSUME NEW k \in 1 .. TAU, NEW at \in Coefficient, NEW s \in {0, 1},
             p[at] = 1 - 2 * s
      PROVE  Contribution(j, at, s) = p[at] * shifted(at)
  <2>1. at \in Int /\ j \in Int
    BY <1>1 DEF Coefficient
  <2>2. CASE at <= j
    <3>1. shifted(at) = T[j - at] /\ Contribution(j, at, s) = (1 - 2 * s) * T[j - at]
      BY <2>1, <2>2 DEF Contribution
    <3> QED
      BY <1>7, <3>1
  <2>3. CASE ~(at <= j)
    <3> DEFINE moved == T[j + Size - at]
    <3>1. shifted(at) = -moved /\ Contribution(j, at, s) = (2 * s - 1) * moved
      BY <2>1, <2>3 DEF Contribution
    <3>2. j + Size - at \in 0 .. Size - 1
      BY <1>1, <2>1, <2>3 DEF Coefficient
    <3>3. moved \in Int
      BY <1>1, <3>2
    <3> HIDE DEF moved, shifted
    <3>4. CASE s = 0
      BY <1>7, <3>1, <3>3, <3>4
    <3>5. CASE s = 1
      BY <1>7, <3>1, <3>3, <3>5
    <3> QED
      BY <3>4, <3>5
  <2> QED
    BY <2>2, <2>3
<1> HIDE DEF shifted
<1>8. ASSUME NEW m \in Coefficient
      PROVE  p[m] * shifted(m) \in Int
  BY <1>3
<1>9. all \in [1 .. Size -> Int] /\ \A m \in Coefficient : all[m + 1] = p[m] * shifted(m)
  <2>1. ASSUME NEW m \in 1 .. Size
        PROVE  p[m - 1] * shifted(m - 1) \in Int
    <3>1. m - 1 \in Coefficient
      BY <1>1 DEF Coefficient
    <3> QED
      BY <1>8, <3>1
  <2>2. ASSUME NEW m \in Coefficient
        PROVE  all[m + 1] = p[m] * shifted(m)
    <3>1. m + 1 \in 1 .. Size /\ (m + 1) - 1 = m
      BY <1>1 DEF Coefficient
    <3> QED
      BY <3>1
  <2> QED
    BY <2>1, <2>2
<1>10. few \in [1 .. TAU -> Int] /\ \A m \in S : few[Rank(S, m) + 1] = p[m] * shifted(m)
  <2>1. ASSUME NEW k \in 1 .. TAU
        PROVE  few[k] = p[ccomp.at[k]] * shifted(ccomp.at[k]) /\ few[k] \in Int
    <3>1. ccomp.at[k] \in Coefficient
      BY <1>2, <1>4
    <3>2. Contribution(j, ccomp.at[k], ccomp.signs[k]) = p[ccomp.at[k]] * shifted(ccomp.at[k])
      BY <1>4, <1>7, <3>1
    <3> QED
      BY <1>8, <3>1, <3>2
  <2> HIDE DEF few
  <2>2. few \in [1 .. TAU -> Int]
    BY <2>1 DEF few
  <2> QED
    BY <1>4, <2>1, <2>2
<1> HIDE DEF few, all
<1> DEFINE F == Partial(few, TAU)  A == Partial(all, Size)
<1>11. /\ SumOver(few, TAU) = F[TAU] /\ F[0] = 0
       /\ \A k \in 1 .. TAU : F[k] = F[k - 1] + few[k]
       /\ F \in [0 .. TAU -> Int]
  <2>1. TAU \in Nat
    BY <1>1
  <2> QED
    BY <1>10, <2>1, SumSteps
<1>12. /\ SumOver(all, Size) = A[Size] /\ A[0] = 0
       /\ \A m \in 1 .. Size : A[m] = A[m - 1] + all[m]
       /\ A \in [0 .. Size -> Int]
  <2>1. Size \in Nat
    BY <1>1
  <2> QED
    BY <1>9, <2>1, SumSteps
<1> HIDE DEF F, A
<1>13. ASSUME NEW m \in Coefficient, A[m] = F[Rank(S, m)]
       PROVE  A[m + 1] = F[Rank(S, m + 1)]
  <2>1. m \in 0 .. Size /\ m + 1 \in 1 .. Size /\ (m + 1) - 1 = m
    BY <1>1 DEF Coefficient
  <2>2. A[m + 1] = A[m] + all[m + 1] /\ A[m] \in Int
    BY <1>12, <2>1
  <2>3. CASE m \in S
    <3>1. Rank(S, m + 1) = Rank(S, m) + 1 /\ Rank(S, m) \in Nat
      BY <1>2, <2>1, <2>3, RankSteps
    <3>2. Rank(S, m) + 1 \in 1 .. TAU /\ few[Rank(S, m) + 1] = all[m + 1]
      BY <1>4, <1>9, <1>10, <2>3
    <3>3. (Rank(S, m) + 1) - 1 = Rank(S, m)
      BY <3>1
    <3>4. F[Rank(S, m) + 1] = F[Rank(S, m)] + few[Rank(S, m) + 1]
      BY <1>11, <3>2, <3>3
    <3> QED
      BY <1>13, <2>2, <3>1, <3>2, <3>4
  <2>4. CASE m \notin S
    <3>1. Rank(S, m + 1) = Rank(S, m)
      BY <1>2, <2>1, <2>4, RankSteps
    <3>2. all[m + 1] = 0
      <4>1. all[m + 1] = 0 * shifted(m) /\ shifted(m) \in Int
        BY <1>3, <1>5, <1>9, <2>4
      <4> QED
        BY <4>1
    <3> QED
      BY <1>13, <2>2, <3>1, <3>2
  <2> QED
    BY <2>3, <2>4
<1>14. A[Size] = F[Rank(S, Size)]
  <2> DEFINE Bad == {m \in 0 .. Size : A[m] # F[Rank(S, m)]}
  <2>1. SUFFICES ASSUME Bad # {}
                 PROVE  FALSE
    <3>1. Size \in 0 .. Size
      BY <1>1
    <3> QED
      BY <2>1, <3>1
  <2>2. Bad \in SUBSET Nat
    BY <1>1
  <2>3. \A m \in 0 .. Size : m \in Bad <=> A[m] # F[Rank(S, m)]
    OBVIOUS
  <2>4. Bad \subseteq 0 .. Size
    OBVIOUS
  <2> HIDE DEF Bad
  <2>5. PICK x \in Bad : \A y \in Bad : x <= y
    BY <2>1, <2>2, LeastNatural
  <2>6. x \in 0 .. Size /\ A[x] # F[Rank(S, x)]
    BY <2>3, <2>4
  <2>7. x # 0
    BY <1>2, <1>11, <1>12, <2>6, RankSteps
  <2> DEFINE m == x - 1
  <2>8. m \in Coefficient /\ m \in 0 .. Size /\ m + 1 = x /\ ~(x <= m)
    BY <1>1, <2>6, <2>7 DEF Coefficient
  <2> HIDE DEF m
  <2>9. A[m] = F[Rank(S, m)]
    BY <2>3, <2>5, <2>8
  <2> QED
    BY <1>13, <2>6, <2>8, <2>9
<1>15. Rank(S, Size) = TAU
  BY <1>2, <1>6, RankSteps
<1>16. SumOver(few, TAU) = SumOver(all, Size)
  BY <1>11, <1>12, <1>14, <1>15
<1> QED
  BY <1>16, Zenon DEF few, all, shifted

-----------------------------------------------------------------------------
(* The challenge of the definition.                                        *)

Last == StreamLen + TAU
Readings == [k : 0 .. TAU, poly : Ternary]

LEMMA TakeTyped ==
  ASSUME ChallengeTyped, NEW r \in Readings, NEW b \in Coefficient
  PROVE  Take(r, b) \in Readings
<1> DEFINE n == Size - TAU + r.k
           poly == [[r.poly EXCEPT ![n] = r.poly[b]] EXCEPT ![b] = 1 - 2 * stream.signs[r.k + 1]]
<1>1. Take(r, b) = IF r.k = TAU \/ b > n THEN r ELSE [k |-> r.k + 1, poly |-> poly]
  BY Zenon DEF Take
<1>2. ASSUME r.k # TAU
      PROVE  r.k + 1 \in 0 .. TAU /\ poly \in Ternary
  <2>1. /\ Size \in Nat /\ TAU \in Nat /\ TAU <= Size /\ r.k \in 0 .. TAU
        /\ r.poly \in [Coefficient -> {-1, 0, 1}]
    BY ChallengeConstants DEF Readings, Ternary
  <2>2. n \in Coefficient /\ r.k + 1 \in 1 .. TAU
    BY <1>2, <2>1 DEF Coefficient
  <2>3. 1 - 2 * stream.signs[r.k + 1] \in {-1, 0, 1}
    <3>1. stream.signs[r.k + 1] \in {0, 1}
      BY <2>2 DEF ChallengeTyped
    <3> QED
      BY <3>1
  <2>4. r.poly[b] \in {-1, 0, 1}
    BY <2>1
  <2>5. poly \in [Coefficient -> {-1, 0, 1}]
    <3> HIDE DEF n, Coefficient
    <3> QED
      BY <2>1, <2>2, <2>3, <2>4
  <2>6. r.k + 1 \in 0 .. TAU
    BY <2>2
  <2> QED
    BY <2>5, <2>6, Zenon DEF Ternary
<1> HIDE DEF n, poly
<1>3. r.k # TAU => [k |-> r.k + 1, poly |-> poly] \in Readings
  BY <1>2 DEF Readings
<1> QED
  BY <1>1, <1>3

LEMMA ReadingSteps ==
  ASSUME ChallengeTyped
  PROVE  /\ Reading[0] = [k |-> 0, poly |-> Zero]
         /\ \A p \in 1 .. Last : Reading[p] = Take(Reading[p - 1], ByteAt(SignBytes + p))
         /\ \A p \in 0 .. Last : Reading[p] \in Readings
<1> DEFINE start == [k |-> 0, poly |-> Zero]
           step == [x \in Readings \X (1 .. Last) |-> Take(x[1], ByteAt(SignBytes + x[2]))]
<1>1. Last \in Nat /\ TAU \in Nat /\ SignBytes \in Nat
  BY ChallengeConstants DEF Last
<1>2. \A p \in 0 .. Last : ByteAt(SignBytes + p) \in Coefficient
  <2>1. ASSUME NEW p \in 0 .. Last
        PROVE  ByteAt(SignBytes + p) \in Coefficient
    <3>1. SignBytes + p \in Int
      BY <1>1
    <3> QED
      BY <3>1, ByteTyped
  <2> QED
    BY <2>1
<1>3. step \in [Readings \X (1 .. Last) -> Readings]
  <2>1. ASSUME NEW x \in Readings \X (1 .. Last)
        PROVE  Take(x[1], ByteAt(SignBytes + x[2])) \in Readings
    <3>1. x[1] \in Readings /\ x[2] \in 0 .. Last
      BY <1>1
    <3> QED
      BY <1>2, <3>1, TakeTyped
  <2> QED
    BY <2>1
<1>4. \A r \in Readings, p \in 1 .. Last : step[<<r, p>>] = Take(r, ByteAt(SignBytes + p))
  OBVIOUS
<1>5. start \in Readings
  <2>1. Zero \in Ternary
    BY DEF Zero, Ternary
  <2> QED
    BY <1>1, <2>1 DEF Readings
<1> HIDE DEF step, start
<1>6. PICK f : Follows(f, Last, Readings, start, step)
  BY <1>1, <1>3, <1>5, RecursiveFunction, Zenon
<1>7. /\ f \in [0 .. Last -> Readings] /\ f[0] = start
      /\ \A p \in 1 .. Last : f[p] = step[<<f[p - 1], p>>]
  BY <1>6 DEF Follows
<1>8. f = [p \in 0 .. Last |->
             IF p = 0 THEN start ELSE Take(f[p - 1], ByteAt(SignBytes + p))]
  <2>1. ASSUME NEW p \in 0 .. Last, p # 0
        PROVE  f[p] = Take(f[p - 1], ByteAt(SignBytes + p))
    <3>1. p \in 1 .. Last /\ p - 1 \in 0 .. Last
      BY <1>1, <2>1
    <3>2. f[p - 1] \in Readings
      BY <1>7, <3>1
    <3> QED
      BY <1>4, <1>7, <3>1, <3>2
  <2> QED
    BY <1>7, <2>1
<1> DEFINE R == Reading
<1>9. R = [p \in 0 .. Last |->
             IF p = 0 THEN start ELSE Take(R[p - 1], ByteAt(SignBytes + p))]
  BY <1>8, Zenon DEF Reading, Last, start
<1> HIDE DEF R
<1>10. R[0] = start
  BY <1>1, <1>9
<1>11. ASSUME NEW p \in 1 .. Last
       PROVE  R[p] = Take(R[p - 1], ByteAt(SignBytes + p))
  <2>1. p \in 0 .. Last /\ p # 0
    BY <1>1
  <2> QED
    BY <1>9, <2>1
<1>12. \A p \in 0 .. Last : R[p] \in Readings
  <2> DEFINE Bad == {p \in 0 .. Last : R[p] \notin Readings}
  <2>1. \A p \in 0 .. Last : p \in Bad <=> R[p] \notin Readings
    OBVIOUS
  <2>2. Bad \in SUBSET Nat /\ Bad \subseteq 0 .. Last
    BY <1>1
  <2> HIDE DEF Bad
  <2>3. SUFFICES ASSUME Bad # {}
                 PROVE  FALSE
    BY <2>1, <2>3
  <2>4. PICK x \in Bad : \A y \in Bad : x <= y
    BY <2>2, <2>3, LeastNatural
  <2>5. x \in 0 .. Last /\ R[x] \notin Readings
    BY <2>1, <2>2
  <2>6. x # 0
    BY <1>5, <1>10, <2>5
  <2>7. x \in 1 .. Last /\ x - 1 \in 0 .. Last /\ ~(x <= x - 1)
    BY <1>1, <2>5, <2>6
  <2>8. R[x - 1] \in Readings
    BY <2>1, <2>4, <2>7
  <2>9. Take(R[x - 1], ByteAt(SignBytes + x)) \in Readings
    BY <1>2, <2>5, <2>8, TakeTyped
  <2> QED
    BY <1>11, <2>5, <2>7, <2>9
<1> QED
  BY <1>10, <1>11, <1>12 DEF R, start

(* The bytes behind the last sign change nothing. *)
LEMMA ReadingStays ==
  ASSUME ChallengeTyped, NEW p \in 0 .. Last, Reading[p].k = TAU
  PROVE  Reference = Reading[p].poly
<1>1. Last \in Nat
  BY ChallengeConstants DEF Last
<1> DEFINE Bad == {q \in p .. Last : Reading[q] # Reading[p]}
<1>2. \A q \in p .. Last : q \in Bad <=> Reading[q] # Reading[p]
  OBVIOUS
<1>3. Bad \in SUBSET Nat /\ Bad \subseteq p .. Last
  BY <1>1
<1> HIDE DEF Bad
<1>4. ASSUME Bad # {}
      PROVE  FALSE
  <2>1. PICK x \in Bad : \A y \in Bad : x <= y
    BY <1>3, <1>4, LeastNatural
  <2>2. x \in p .. Last /\ Reading[x] # Reading[p]
    BY <1>2, <1>3
  <2>3. x # p
    BY <2>2
  <2>4. x - 1 \in p .. Last /\ x \in 1 .. Last /\ ~(x <= x - 1)
    BY <1>1, <2>2, <2>3
  <2>5. Reading[x - 1] = Reading[p]
    BY <1>2, <2>1, <2>4
  <2>6. Reading[x] = Take(Reading[x - 1], ByteAt(SignBytes + x))
    BY <2>4, ReadingSteps
  <2>7. Take(Reading[x - 1], ByteAt(SignBytes + x)) = Reading[x - 1]
    BY <2>5, Zenon DEF Take
  <2> QED
    BY <2>2, <2>5, <2>6, <2>7
<1>5. Reading[Last] = Reading[p]
  <2>1. Last \in p .. Last
    BY <1>1
  <2> QED
    BY <1>2, <1>4, <2>1
<1> QED
  BY <1>5, Zenon DEF Reference, Last

LEMMA ReadingUnchanged ==
  ASSUME stream' = stream
  PROVE  Reading' = Reading /\ Reference' = Reference
<1>1. Reading' = Reading
  BY SMT DEF Reading, Take, ByteAt
<1> QED
  BY <1>1, Zenon DEF Reference

(* One step of the shuffle makes one more coefficient different from zero. *)
Swapped(p, n, b, s) == [[p EXCEPT ![n] = p[b]] EXCEPT ![b] = s]
ZeroFrom(p, n) == \A j \in Coefficient : j >= n => p[j] = 0

LEMMA SupportGrows ==
  ASSUME NEW p, p \in Ternary, NEW n, n \in Coefficient, NEW b, b \in Coefficient, b <= n,
         NEW s, s # 0, ZeroFrom(p, n)
  PROVE  /\ Cardinality(Support(Swapped(p, n, b, s))) = Cardinality(Support(p)) + 1
         /\ ZeroFrom(Swapped(p, n, b, s), n + 1)
<1> DEFINE q == Swapped(p, n, b, s)
           new == IF b = n \/ p[b] # 0 THEN n ELSE b
<1>1. Coefficient \subseteq Int /\ p \in [Coefficient -> {-1, 0, 1}]
  BY ChallengeConstants DEF Coefficient, Ternary
<1>2. ASSUME NEW j \in Coefficient
      PROVE  q[j] = IF j = b THEN s ELSE IF j = n THEN p[b] ELSE p[j]
  <2>1. q = [[p EXCEPT ![n] = p[b]] EXCEPT ![b] = s]
    BY DEF Swapped
  <2> HIDE DEF Coefficient, q
  <2> QED
    BY <1>1, <2>1
<1> HIDE DEF q
<1>3. p[n] = 0
  <2>1. n >= n
    BY <1>1
  <2> QED
    BY <2>1 DEF ZeroFrom
<1>4. new \in Coefficient /\ p[new] = 0
  BY <1>3
<1>5. ASSUME NEW j \in Coefficient
      PROVE  q[j] # 0 <=> (p[j] # 0 \/ j = new)
  <2> HIDE DEF Coefficient
  <2>1. CASE j = b
    BY <1>2, <1>3, <2>1
  <2>2. CASE j # b /\ j = n
    BY <1>2, <1>3, <2>2
  <2>3. CASE j # b /\ j # n
    BY <1>2, <2>3
  <2> QED
    BY <2>1, <2>2, <2>3
<1> HIDE DEF new
<1>6. Support(q) = Support(p) \cup {new} /\ new \notin Support(p)
  BY <1>4, <1>5 DEF Support
<1>7. IsFiniteSet(Support(p))
  <2>1. Support(p) \subseteq Coefficient
    BY DEF Support
  <2> QED
    BY <2>1, RankSteps
<1>8. Cardinality(Support(q)) = Cardinality(Support(p)) + 1
  BY <1>6, <1>7, FS_AddElement
<1>9. ASSUME NEW j \in Coefficient, j >= n + 1
      PROVE  q[j] = 0
  <2>1. j # n /\ j # b /\ j >= n
    BY <1>1, <1>9
  <2> QED
    BY <1>2, <2>1 DEF ZeroFrom
<1> QED
  BY <1>8, <1>9, Zenon DEF q, ZeroFrom

-----------------------------------------------------------------------------
(* The buffer is a piece of the stream; what was taken from it and what    *)
(* the loop has made of it is what the definition has after as many bytes; *)
(* and what is compressed is the challenge.                                *)

Consumed == pulled - Len(buf) + pos - SignBytes
Used == i - (Size - TAU)

BufferInOrder ==
  /\ Len(buf) <= pulled
  /\ \A n \in 1 .. Len(buf) : buf[n] = pulled - Len(buf) + n

SampledSoFar ==
  /\ i < Size
  /\ Consumed \in 0 .. Last /\ Consumed <= StreamLen + Used
  /\ Reading[Consumed] = [k |-> Used, poly |-> c]
  /\ \A n \in 1 .. Len(signs) : signs[n] = stream.signs[Used + n]
  /\ ZeroFrom(c, i)
  /\ Cardinality(Support(c)) = Used

ChallengeFound == Reference \in Ternary /\ Cardinality(Support(Reference)) = TAU

ChallengeRead ==
  /\ BufferInOrder
  /\ phase = "sample" => SampledSoFar
  /\ phase \notin {"sign", "sample"} => ChallengeFound
  /\ phase \in {"compress", "decompressed"} => c = Reference
  /\ phase \in {"row", "decompressed", "product"} => ccomp = Compressed(Reference)
  /\ SchoolbookProduct

LEMMA ByteRead ==
  ASSUME ChallengeTyped, BufferInOrder, pos < Len(buf)
  PROVE  /\ NextByte = ByteAt(SignBytes + (Consumed + 1))
         /\ NextByte \in Coefficient
         /\ Consumed \in Int
<1>1. /\ pulled \in Nat /\ Len(buf) \in Nat /\ pos \in Nat /\ SignBytes \in Nat
      /\ pos + 1 \in 1 .. Len(buf)
  BY ChallengeConstants DEF ChallengeTyped
<1>2. buf[pos + 1] = pulled - Len(buf) + (pos + 1)
  BY <1>1 DEF BufferInOrder
<1>3. buf[pos + 1] = SignBytes + (Consumed + 1) /\ Consumed \in Int
  BY <1>1, <1>2 DEF Consumed
<1>4. SignBytes + (Consumed + 1) \in Int
  BY <1>1, <1>3
<1> QED
  BY <1>3, <1>4, ByteTyped DEF NextByte

(* A byte that is too large is one of those that vary. *)
LEMMA LargeByte ==
  ASSUME ChallengeTyped, NEW p \in Int, ByteAt(SignBytes + p) # 0
  PROVE  p <= StreamLen
<1>1. SignBytes \in Nat /\ StreamLen \in Nat
  BY ChallengeConstants
<1>2. (SignBytes + p) - SignBytes \in 1 .. StreamLen
  BY Zenon DEF ByteAt
<1> QED
  BY <1>1, <1>2

LEMMA ChallengeReadInitial == ChallengeInit => ChallengeRead
<1> SUFFICES ASSUME ChallengeInit
             PROVE  ChallengeRead
  OBVIOUS
<1>1. buf = << >> /\ phase = "sign" /\ pulled = 0
  BY DEF ChallengeInit
<1>2. BufferInOrder
  BY <1>1 DEF BufferInOrder
<1> QED
  BY <1>1, <1>2 DEF ChallengeRead, SchoolbookProduct

LEMMA SignsRead ==
  ASSUME ChallengeTyped, ChallengeTyped', ChallengeRead, TakeSigns
  PROVE  ChallengeRead'
<1>1. /\ buf' = Pulled(0, requests.first) /\ pulled' = requests.first /\ pos' = SignBytes
      /\ signs' = stream.signs /\ c' = Zero /\ phase' = "sample" /\ i = Size - TAU /\ i' = i
      /\ stream' = stream
  BY DEF TakeSigns, PosAfterSigns, ChallengeTyped
<1>2. /\ requests.first \in Nat /\ SignBytes \in Nat /\ Size \in Nat /\ TAU \in Nat \ {0}
      /\ TAU <= Size /\ StreamLen \in Nat
  BY ChallengeConstants DEF ChallengeTyped
<1>3. Len(buf') = requests.first /\ \A n \in 1 .. requests.first : buf'[n] = 0 + n
  <2>1. 0 \in Int
    OBVIOUS
  <2>2. Len(buf') = requests.first
    BY <1>1, <1>2, <2>1, PulledTyped
  <2>3. \A n \in 1 .. requests.first : Pulled(0, requests.first)[n] = 0 + n
    BY DEF Pulled
  <2> QED
    BY <1>1, <2>2, <2>3
<1>4. BufferInOrder'
  BY <1>1, <1>2, <1>3 DEF BufferInOrder
<1>5. Consumed' = 0 /\ Used' = 0
  BY <1>1, <1>2, <1>3 DEF Consumed, Used
<1>6. i' < Size /\ 0 \in 0 .. Last /\ 0 <= StreamLen + 0
  BY <1>1, <1>2 DEF Last
<1>7. Reading'[0] = [k |-> 0, poly |-> c']
  <2>1. Reading' = Reading
    BY <1>1, ReadingUnchanged
  <2>2. Reading[0] = [k |-> 0, poly |-> Zero]
    BY ReadingSteps
  <2> QED
    BY <1>1, <2>1, <2>2
<1>8. \A n \in 1 .. Len(signs') : signs'[n] = stream'.signs[0 + n]
  BY <1>1
<1>9. (\A j \in Coefficient : c'[j] = 0) /\ Cardinality(Support(c')) = 0
  <2>1. \A j \in Coefficient : c'[j] = 0
    BY <1>1 DEF Zero
  <2>2. Support(c') = {}
    BY <2>1 DEF Support
  <2> QED
    BY <2>1, <2>2, FS_EmptySet
<1>10. SampledSoFar'
  BY <1>5, <1>6, <1>7, <1>8, <1>9 DEF SampledSoFar, ZeroFrom
<1> QED
  BY <1>1, <1>4, <1>10 DEF ChallengeRead, SchoolbookProduct

LEMMA RefillRead ==
  ASSUME ChallengeTyped, ChallengeTyped', ChallengeRead, Refill
  PROVE  ChallengeRead'
<1>1. /\ buf' = Pulled(pulled, requests.later) /\ pulled' = pulled + requests.later
      /\ pos' = 0 /\ phase = "sample" /\ phase' = phase /\ pos >= Len(buf)
      /\ stream' = stream /\ i' = i /\ signs' = signs /\ c' = c
  BY DEF Refill
<1>2. /\ requests.later \in Nat /\ pulled \in Nat /\ pos \in Nat /\ Len(buf) \in Nat
      /\ pos <= Len(buf) /\ SignBytes \in Nat
  BY ChallengeConstants DEF ChallengeTyped
<1>3. Len(buf') = requests.later /\ \A n \in 1 .. requests.later : buf'[n] = pulled + n
  <2>1. pulled \in Int
    BY <1>2
  <2>2. Len(buf') = requests.later
    BY <1>1, <1>2, <2>1, PulledTyped
  <2>3. \A n \in 1 .. requests.later : Pulled(pulled, requests.later)[n] = pulled + n
    BY DEF Pulled
  <2> QED
    BY <1>1, <2>2, <2>3
<1>4. BufferInOrder'
  BY <1>1, <1>2, <1>3 DEF BufferInOrder
<1>5. Consumed' = Consumed /\ Used' = Used
  BY <1>1, <1>2, <1>3 DEF Consumed, Used
<1>6. Reading' = Reading
  BY <1>1, ReadingUnchanged
<1>7. SampledSoFar
  BY <1>1 DEF ChallengeRead
<1>8. SampledSoFar'
  BY <1>1, <1>5, <1>6, <1>7 DEF SampledSoFar
<1> QED
  BY <1>1, <1>4, <1>8 DEF ChallengeRead, SchoolbookProduct

(* The definition passes over the byte that the loop passes over. *)
LEMMA RejectRead ==
  ASSUME ChallengeTyped, ChallengeTyped', ChallengeRead, RejectByte
  PROVE  ChallengeRead'
<1>1. /\ pos' = pos + 1 /\ pos < Len(buf) /\ NextByte > i /\ phase = "sample"
      /\ stream' = stream /\ phase' = phase /\ pulled' = pulled /\ buf' = buf
      /\ i' = i /\ signs' = signs /\ c' = c
  BY DEF RejectByte, Rejected
<1>2. BufferInOrder /\ SampledSoFar
  BY <1>1 DEF ChallengeRead
<1>3. /\ NextByte = ByteAt(SignBytes + (Consumed + 1))
      /\ NextByte \in Coefficient /\ Consumed \in Int
  BY <1>1, <1>2, ByteRead
<1>4. BufferInOrder'
  BY <1>1, <1>2 DEF BufferInOrder
<1>5. Consumed' = Consumed + 1 /\ Used' = Used
  <2>1. pulled \in Nat /\ Len(buf) \in Nat /\ pos \in Nat /\ SignBytes \in Nat
    BY ChallengeConstants DEF ChallengeTyped
  <2> QED
    BY <1>1, <2>1 DEF Consumed, Used
<1>6. /\ i \in Int /\ 0 <= i /\ i = Size - TAU + Used /\ Used \in Nat
      /\ StreamLen \in Nat /\ TAU \in Nat
  BY ChallengeConstants DEF ChallengeTyped, Used
<1>7. Consumed + 1 <= StreamLen
  <2>1. NextByte # 0 /\ Consumed + 1 \in Int
    BY <1>1, <1>3, <1>6 DEF Coefficient
  <2> QED
    BY <1>3, <2>1, LargeByte
<1>8. /\ Consumed \in 0 .. Last /\ Consumed + 1 \in 1 .. Last /\ Consumed + 1 \in 0 .. Last
      /\ Consumed + 1 <= StreamLen + Used
      /\ (Consumed + 1) - 1 = Consumed
  BY <1>2, <1>3, <1>6, <1>7 DEF SampledSoFar, Last
<1>9. Reading[Consumed + 1] = Reading[Consumed]
  <2>1. Reading[Consumed + 1] = Take(Reading[Consumed], NextByte)
    BY <1>3, <1>8, ReadingSteps
  <2>2. Reading[Consumed].k = Used
    BY <1>2 DEF SampledSoFar
  <2>3. NextByte > Size - TAU + Reading[Consumed].k
    BY <1>1, <1>6, <2>2
  <2>4. Take(Reading[Consumed], NextByte) = Reading[Consumed]
    BY <2>3, Zenon DEF Take
  <2> QED
    BY <2>1, <2>4
<1>10. Reading' = Reading
  BY <1>1, ReadingUnchanged
<1>11. SampledSoFar'
  <2>1. i' < Size /\ Consumed' \in 0 .. Last /\ Consumed' <= StreamLen + Used'
    <3>1. i' < Size
      BY <1>1, <1>2 DEF SampledSoFar
    <3>2. Consumed' \in 0 .. Last
      BY <1>5, <1>8
    <3>3. Consumed' <= StreamLen + Used'
      BY <1>5, <1>8
    <3> QED
      BY <3>1, <3>2, <3>3
  <2>2. Reading'[Consumed'] = [k |-> Used', poly |-> c']
    BY <1>1, <1>2, <1>5, <1>9, <1>10 DEF SampledSoFar
  <2>3. /\ \A n \in 1 .. Len(signs') : signs'[n] = stream'.signs[Used' + n]
        /\ ZeroFrom(c', i')
        /\ Cardinality(Support(c')) = Used'
    BY <1>1, <1>2, <1>5 DEF SampledSoFar
  <2> QED
    BY <2>1, <2>2, <2>3 DEF SampledSoFar
<1> QED
  BY <1>1, <1>4, <1>11 DEF ChallengeRead, SchoolbookProduct

(* The definition uses the byte and the sign that the loop uses. *)
LEMMA PlaceRead ==
  ASSUME ChallengeTyped, ChallengeTyped', ChallengeRead, PlaceSign
  PROVE  ChallengeRead'
<1> DEFINE b == NextByte  p == Consumed  s == 1 - 2 * Head(signs)
           q == Swapped(c, i, b, s)
<1>1. /\ c' = q /\ signs' = Tail(signs) /\ i' = i + 1 /\ pos' = pos + 1
      /\ pos < Len(buf) /\ i < Size /\ ~(b > i)
      /\ phase = "sample" /\ phase' = IF i' = Size THEN "compress" ELSE "sample"
      /\ stream' = stream /\ pulled' = pulled /\ buf' = buf
  BY DEF PlaceSign, Rejected, Swapped
<1>2. BufferInOrder /\ SampledSoFar
  BY <1>1 DEF ChallengeRead
<1>3. b = ByteAt(SignBytes + (p + 1)) /\ b \in Coefficient /\ p \in Int
  BY <1>1, <1>2, ByteRead
<1> HIDE DEF b, p
<1>4. BufferInOrder'
  BY <1>1, <1>2 DEF BufferInOrder
<1>5. /\ i \in Int /\ i \in Coefficient /\ i = Size - TAU + Used /\ Used \in Nat /\ Used # TAU
      /\ Size \in Nat /\ TAU \in Nat /\ StreamLen \in Nat
      /\ (Used + 1 = TAU <=> i + 1 = Size)
  BY <1>1, ChallengeConstants DEF ChallengeTyped, Used, Coefficient
<1>6. Consumed' = p + 1 /\ Used' = Used + 1
  <2>1. pulled \in Nat /\ Len(buf) \in Nat /\ pos \in Nat /\ SignBytes \in Nat
    BY ChallengeConstants DEF ChallengeTyped
  <2>2. Consumed' = p + 1
    BY <1>1, <2>1 DEF Consumed, p
  <2>3. Used' = Used + 1
    BY <1>1, <1>5 DEF Used
  <2> QED
    BY <2>2, <2>3
<1>7. /\ p \in 0 .. Last /\ p + 1 \in 1 .. Last /\ p + 1 \in 0 .. Last
      /\ p + 1 <= StreamLen + (Used + 1) /\ (p + 1) - 1 = p
  <2>1. p \in 0 .. Last /\ p <= StreamLen + Used
    BY <1>2 DEF SampledSoFar, p
  <2>2. Used < TAU
    BY <1>1, <1>5
  <2> QED
    BY <1>3, <1>5, <2>1, <2>2 DEF Last
<1>8. /\ signs \in Seq({0, 1}) /\ signs # << >> /\ Head(signs) \in {0, 1}
      /\ Head(signs) = stream.signs[Used + 1]
      /\ \A n \in 1 .. Len(Tail(signs)) : Tail(signs)[n] = stream.signs[Used + 1 + n]
  <2>1. signs \in Seq({0, 1}) /\ Len(signs) = Size - i
    BY <1>1 DEF ChallengeTyped
  <2>2. \A n \in 1 .. Len(signs) : signs[n] = stream.signs[Used + n]
    BY <1>2 DEF SampledSoFar
  <2>3. Len(signs) \in Nat \ {0} /\ signs # << >>
    BY <1>1, <1>5, <2>1
  <2>4. Head(signs) = signs[1] /\ Len(Tail(signs)) = Len(signs) - 1
        /\ \A n \in 1 .. Len(signs) - 1 : Tail(signs)[n] = signs[n + 1]
    BY <2>1, <2>3
  <2>5. ASSUME NEW n \in 1 .. Len(Tail(signs))
        PROVE  Tail(signs)[n] = stream.signs[Used + 1 + n]
    <3>1. n + 1 \in 1 .. Len(signs) /\ n \in 1 .. Len(signs) - 1 /\ Used + (n + 1) = Used + 1 + n
      BY <1>5, <2>3, <2>4
    <3> QED
      BY <2>2, <2>4, <3>1
  <2>6. 1 \in 1 .. Len(signs)
    BY <2>3
  <2>7. Head(signs) \in {0, 1}
    BY <2>1, <2>4, <2>6
  <2> QED
    BY <2>1, <2>2, <2>3, <2>4, <2>5, <2>6, <2>7
<1>9. s \in {-1, 1} /\ s = 1 - 2 * stream.signs[Used + 1]
  BY <1>8
<1>10. c \in Ternary
  BY DEF ChallengeTyped, Ternary
<1>11. Reading[p] = [k |-> Used, poly |-> c]
  BY <1>2 DEF SampledSoFar, p
<1> HIDE DEF s
<1>12. Reading[p + 1] = [k |-> Used + 1, poly |-> q]
  <2>1. Reading[p + 1] = Take(Reading[p], b)
    BY <1>3, <1>7, ReadingSteps
  <2>2. ~(Used = TAU \/ b > Size - TAU + Used)
    BY <1>1, <1>5
  <2> DEFINE r == Reading[p]
  <2>3. r.k = Used /\ r.poly = c
    BY <1>11
  <2> HIDE DEF r
  <2>4. Take(r, b) = IF r.k = TAU \/ b > Size - TAU + r.k THEN r
                     ELSE [k |-> r.k + 1,
                           poly |-> [[r.poly EXCEPT ![Size - TAU + r.k] = r.poly[b]]
                                       EXCEPT ![b] = 1 - 2 * stream.signs[r.k + 1]]]
    BY Zenon DEF Take
  <2>5. Take(r, b) = [k |-> Used + 1,
                      poly |-> [[c EXCEPT ![i] = c[b]] EXCEPT ![b] = s]]
    BY <1>5, <1>9, <2>2, <2>3, <2>4, Zenon
  <2> QED
    BY <2>1, <2>5 DEF r, Swapped
<1>13. Cardinality(Support(q)) = Cardinality(Support(c)) + 1 /\ ZeroFrom(q, i + 1)
  <2>1. b <= i
    BY <1>1, <1>3, <1>5 DEF Coefficient
  <2>2. ZeroFrom(c, i) /\ s # 0
    BY <1>2, <1>9 DEF SampledSoFar
  <2> QED
    BY <1>3, <1>5, <1>10, <2>1, <2>2, SupportGrows, Zenon
<1>14. Cardinality(Support(q)) = Used + 1
  BY <1>2, <1>13 DEF SampledSoFar
<1> HIDE DEF q
<1>15. Reading' = Reading /\ Reference' = Reference
  BY <1>1, ReadingUnchanged
<1>16. CASE i + 1 = Size
  <2>1. phase' = "compress"
    BY <1>1, <1>16
  <2>2. Reading[p + 1].k = TAU /\ Reading[p + 1].poly = q
    BY <1>5, <1>12, <1>16
  <2>3. Reference = q
    BY <1>7, <2>2, ReadingStays
  <2>4. c' \in Ternary
    BY DEF ChallengeTyped, Ternary
  <2>5. ChallengeFound' /\ c' = Reference'
    BY <1>1, <1>5, <1>14, <1>15, <1>16, <2>3, <2>4 DEF ChallengeFound
  <2> QED
    BY <1>4, <2>1, <2>5 DEF ChallengeRead, SchoolbookProduct
<1>17. CASE i + 1 # Size
  <2>1. phase' = "sample" /\ i' < Size
    BY <1>1, <1>5, <1>17
  <2>2. SampledSoFar'
    <3>1. Consumed' \in 0 .. Last /\ Consumed' <= StreamLen + Used'
      BY <1>6, <1>7, Zenon
    <3>2. Reading'[Consumed'] = [k |-> Used', poly |-> c']
      BY <1>1, <1>6, <1>12, <1>15
    <3>3. \A n \in 1 .. Len(signs') : signs'[n] = stream'.signs[Used' + n]
      BY <1>1, <1>6, <1>8
    <3>4. ZeroFrom(c', i')
      BY <1>1, <1>13
    <3>5. Cardinality(Support(c')) = Used'
      BY <1>1, <1>6, <1>14
    <3> QED
      BY <2>1, <3>1, <3>2, <3>3, <3>4, <3>5 DEF SampledSoFar
  <2> QED
    BY <1>4, <2>1, <2>2 DEF ChallengeRead, SchoolbookProduct
<1> QED
  BY <1>16, <1>17

LEMMA ChallengeReadStep ==
  ASSUME ChallengeTyped, ChallengeTyped', ChallengeRead, [ChallengeNext]_challengeVars
  PROVE  ChallengeRead'
<1>1. CASE TakeSigns
  BY <1>1, SignsRead
<1>2. CASE Refill
  BY <1>2, RefillRead
<1>3. CASE RejectByte
  BY <1>3, RejectRead
<1>4. CASE PlaceSign
  BY <1>4, PlaceRead
<1>5. ASSUME UNCHANGED <<stream, pulled, buf>>
      PROVE  BufferInOrder' /\ Reference' = Reference /\ (ChallengeFound => ChallengeFound')
  BY <1>5, ReadingUnchanged DEF ChallengeRead, BufferInOrder, ChallengeFound
<1>6. CASE Compress
  <2>1. /\ ccomp' = Compressed(c) /\ phase = "compress" /\ phase' = "row"
        /\ UNCHANGED <<stream, pulled, buf>>
    BY <1>6 DEF Compress
  <2> QED
    BY <1>5, <2>1 DEF ChallengeRead, SchoolbookProduct
<1>7. CASE Decompress
  <2>1. /\ c' = [j \in Coefficient |->
              IF \E k \in 1 .. TAU : ccomp.at[k] = j
              THEN LET k == CHOOSE k \in 1 .. TAU : ccomp.at[k] = j IN 1 - 2 * ccomp.signs[k]
              ELSE 0]
        /\ phase = "row" /\ phase' = "decompressed"
        /\ UNCHANGED <<stream, pulled, buf, ccomp>>
    BY <1>7, Zenon DEF Decompress
  <2>2. ChallengeFound /\ ccomp = Compressed(Reference)
    BY <2>1 DEF ChallengeRead
  <2>3. c' = Reference
    BY <2>1, <2>2, Unpacked, Zenon DEF ChallengeFound
  <2> QED
    BY <1>5, <2>1, <2>2, <2>3 DEF ChallengeRead, SchoolbookProduct
<1>8. CASE MultiplyRow
  <2>1. /\ row' = [j \in Coefficient |->
              SumOver([k \in 1 .. TAU |-> Contribution(j, ccomp.at[k], ccomp.signs[k])], TAU)]
        /\ phase = "decompressed" /\ phase' = "product"
        /\ UNCHANGED <<stream, pulled, buf, ccomp>>
    BY <1>8, Zenon DEF MultiplyRow
  <2>2. ChallengeFound /\ ccomp = Compressed(Reference)
    BY <2>1 DEF ChallengeRead
  <2>3. ASSUME NEW j \in Coefficient
        PROVE  row'[j] = SumOver([m \in 1 .. Size |-> Reference[m - 1] *
                                    (IF m - 1 <= j THEN T[j - (m - 1)]
                                     ELSE -T[j + Size - (m - 1)])], Size)
    <3>1. row'[j] =
            SumOver([k \in 1 .. TAU |-> Contribution(j, ccomp.at[k], ccomp.signs[k])], TAU)
      BY <2>1, Zenon
    <3> QED
      BY <2>2, <3>1, SchoolbookSum, Zenon DEF ChallengeFound
  <2>4. SchoolbookProduct'
    <3>1. Reference' = Reference
      BY <1>5, <2>1
    <3> QED
      BY <2>3, <3>1, Zenon DEF SchoolbookProduct
  <2> QED
    BY <1>5, <2>1, <2>2, <2>4 DEF ChallengeRead
<1>9. CASE UNCHANGED challengeVars
  <2>1. /\ stream' = stream /\ phase' = phase /\ pulled' = pulled /\ buf' = buf /\ pos' = pos
        /\ i' = i /\ signs' = signs /\ c' = c /\ ccomp' = ccomp /\ row' = row
    BY <1>9 DEF challengeVars
  <2>2. Reading' = Reading /\ Reference' = Reference
    BY <2>1, ReadingUnchanged
  <2>3. BufferInOrder' /\ (ChallengeFound => ChallengeFound')
    BY <1>5, <2>1
  <2>4. SampledSoFar => SampledSoFar'
    BY <2>1, <2>2 DEF SampledSoFar, Consumed, Used
  <2>5. SchoolbookProduct => SchoolbookProduct'
    BY <2>1, <2>2, Zenon DEF SchoolbookProduct
  <2> QED
    BY <2>1, <2>2, <2>3, <2>4, <2>5 DEF ChallengeRead
<1> QED
  BY <1>1, <1>2, <1>3, <1>4, <1>6, <1>7, <1>8, <1>9 DEF ChallengeNext

-----------------------------------------------------------------------------
(* The parts together: whoever has no part in a run changes nothing.       *)

SamplersInv == ChallengeTyped /\ ChallengeRead /\ SamplingInv /\ KeyInv

LEMMA SamplersInitial == Init => SamplersInv /\ part \in {"challenge", "polynomial", "keys"}
<1> SUFFICES ASSUME Init
             PROVE  SamplersInv /\ part \in {"challenge", "polynomial", "keys"}
  OBVIOUS
<1>1. ChallengeInit /\ SamplingInit /\ KeyInit /\ part \in {"challenge", "polynomial", "keys"}
  BY DEF Init, ChallengeIdle, SamplingIdle, KeyIdle
<1> QED
  BY <1>1, ChallengeInitial, ChallengeReadInitial, SamplingInitial, KeyInitial DEF SamplersInv

LEMMA SamplersStep ==
  ASSUME SamplersInv, [Next]_vars
  PROVE  SamplersInv' /\ part' = part
<1>1. /\ [ChallengeNext]_challengeVars /\ [SamplingNext]_samplingVars /\ [KeyNext]_keyVars
      /\ part' = part
  BY DEF Next, vars
<1>2. ChallengeTyped /\ ChallengeRead /\ SamplingInv /\ KeyInv
  BY DEF SamplersInv
<1>3. ChallengeTyped'
  BY <1>1, <1>2, ChallengeStep
<1>4. ChallengeRead'
  BY <1>1, <1>2, <1>3, ChallengeReadStep
<1> QED
  BY <1>1, <1>2, <1>3, <1>4, SamplingStep, KeyStep DEF SamplersInv

(* In every run of the specification the three invariants hold.            *)
LEMMA SamplersCorrect ==
  Spec => [](SamplersInv /\ part \in {"challenge", "polynomial", "keys"})
<1> DEFINE P == SamplersInv /\ part \in {"challenge", "polynomial", "keys"}
<1>1. Init => P
  BY SamplersInitial
<1>2. P /\ [Next]_vars => P'
  BY SamplersStep
<1> QED
  BY <1>1, <1>2, PTL DEF Spec

(* The loops and buffers of the samplers stay in their bounds: no buffer   *)
(* is read past its end, no polynomial has more than N coefficients, and   *)
(* the buffer of the first request and two bytes more holds every later    *)
(* request with the bytes c-ref keeps of an unfinished candidate           *)
(* (poly_challenge, poly_uniform, rej_uniform, crypto_sign_keypair).       *)
THEOREM TypeCorrect == Spec => []TypeOK
<1>1. SamplersInv /\ part \in {"challenge", "polynomial", "keys"} => TypeOK
  BY DEF SamplersInv, ChallengeTyped, SamplingInv, SamplingTyped, KeyInv, LowKeyInv,
         LowKeyTyped, TypeOK
<1> QED
  BY <1>1, SamplersCorrect, PTL

(* For every size of request, of candidate and of byte that the assumption *)
(* allows, and whatever is rejected, poly_uniform, poly_uniform_eta and    *)
(* poly_uniform_gamma1 of every implementation take the coefficients the   *)
(* definition takes from the stream, in its order.                         *)
THEOREM SamplingCorrect == Spec => []SampledInOrder
<1>1. SamplersInv => SampledInOrder
  BY DEF SamplersInv, SamplingInv
<1> QED
  BY <1>1, SamplersCorrect, PTL

(* For every size of the challenge, of its requests and of the stream      *)
(* behind the signs, poly_challenge, poly_challenge_eth,                   *)
(* poly_challenge_lowram, the contracts and Python sample the challenge    *)
(* that the definition reads byte by byte, with exactly TAU coefficients   *)
(* that are not zero, and poly_challenge_decompress of c-lowram unpacks    *)
(* the same one from its compressed form.                                  *)
THEOREM ChallengeCorrect == Spec => []ChallengeAgrees
<1>1. SamplersInv => ChallengeAgrees
  BY DEF SamplersInv, ChallengeRead, ChallengeFound, ChallengeAgrees
<1> QED
  BY <1>1, SamplersCorrect, PTL

(* For every polynomial t0 or t1, poly_schoolbook and poly_schoolbook_t1,  *)
(* which go through the positions of the compressed challenge only, give   *)
(* the product with the challenge modulo x^N + 1.                          *)
THEOREM SchoolbookCorrect == Spec => []SchoolbookProduct
<1>1. SamplersInv => SchoolbookProduct
  BY DEF SamplersInv, ChallengeRead
<1> QED
  BY <1>1, SamplersCorrect, PTL

(* For every parameter set, crypto_sign_keypair of c-ref and of c-lowram   *)
(* make the same two keys of a seed, and unpack_sk, the offsets of         *)
(* c-lowram and the slices of Python read the same from a secret key.      *)
THEOREM KeysCorrect == Spec => []KeysAgree
<1>1. SamplersInv => KeysAgree
  BY KeysAgreeInv DEF SamplersInv
<1> QED
  BY <1>1, SamplersCorrect, PTL
=============================================================================
