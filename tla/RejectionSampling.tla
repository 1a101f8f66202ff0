-------------------------- MODULE RejectionSampling --------------------------
(***************************************************************************)
(* The polynomials that are read off a stream: the matrix A (poly_uniform, *)
(* candidates of three bytes), the secret vectors (poly_uniform_eta,       *)
(* candidates of half a byte) and the mask y (poly_uniform_gamma1, 18 or   *)
(* 20 bits, never rejected).  c-ref asks for whole blocks, c-lowram for a  *)
(* few bytes at a time, Python for single candidates.  The stream is cut   *)
(* into units that divide a byte and a candidate (a byte, half of one or   *)
(* two bits), and a unit is its position: the coefficient made of some     *)
(* units is the sequence of them.                                          *)
(***************************************************************************)
EXTENDS Integers, Sequences

CONSTANTS
  Wanted,    \* N, 256: the coefficients of a polynomial
  Decided,   \* candidates that may be rejected; every later one is accepted
  Sampler    \* the implementations, as records of the set Samplers

Samplers ==
  [perByte : Nat \ {0},      \* units in a byte
   perCandidate : Nat \ {0}, \* units in a candidate
   first : Nat \ {0},        \* bytes of the first request
   later : Nat \ {0},        \* bytes of every later one
   carries : BOOLEAN,        \* keeps the bytes of an unfinished candidate
   rejects : BOOLEAN]

(* Who does not carry over asks for whole candidates; who does keeps no    *)
(* more than two bytes.  The first request is the largest.                 *)
ASSUME SamplerAssumption ==
  /\ Wanted \in Nat \ {0} /\ Decided \in Nat
  /\ Sampler \subseteq Samplers
  /\ \A s \in Sampler :
       /\ s.later <= s.first
       /\ IF s.carries
            THEN s.perCandidate - 1 <= 2 * s.perByte
            ELSE /\ (s.first * s.perByte) % s.perCandidate = 0
                 /\ (s.later * s.perByte) % s.perCandidate = 0

VARIABLES
  sampler,   \* the implementation
  verdict,   \* which candidates of the stream are small enough
  drawn,     \* bytes drawn from the stream
  window,    \* the buffer, as positions of units
  taken,     \* units of the buffer that were looked at
  coeffs     \* the coefficients sampled so far

samplingVars == <<sampler, verdict, drawn, window, taken, coeffs>>

Units(from, size) ==
  [n \in 1..(size * sampler.perByte) |-> from * sampler.perByte + n - 1]

SamplingInit ==
  /\ sampler \in Sampler
  /\ verdict \in {v \in [0..(Decided - 1) -> BOOLEAN] : ~sampler.rejects => \A k \in DOMAIN v : v[k]}
  /\ drawn = 0
  /\ window = <<>> /\ taken = 0
  /\ coeffs = <<>>

FirstRequest ==
  /\ drawn = 0
  /\ window' = Units(0, sampler.first)
  /\ drawn' = sampler.first
  /\ taken' = 0
  /\ UNCHANGED <<sampler, verdict, coeffs>>

Candidate == SubSeq(window, taken + 1, taken + sampler.perCandidate)

(* The number of a candidate that lies where the definition cuts it. *)
Number(candidate) == candidate[1] \div sampler.perCandidate

(* t < Q; t0 < 15 or t0 < 9.  Only the bytes decide. *)
SmallEnough(k) == k < Decided => verdict[k]

Accepted(candidate) == SmallEnough(Number(candidate))

(* A slip: the second half of a byte is kept when the polynomial is full. *)
RoomInByte == Len(coeffs) < Wanted \/ taken % sampler.perByte # 0

(* ctr < len *)
Room == Len(coeffs) < Wanted

(* pos + 3 <= buflen *)
WholeCandidate == taken + sampler.perCandidate <= Len(window)

Look ==
  /\ Room
  /\ WholeCandidate
  /\ taken' = taken + sampler.perCandidate
  /\ coeffs' = IF Accepted(Candidate) THEN Append(coeffs, Candidate) ELSE coeffs
  /\ UNCHANGED <<sampler, verdict, drawn, window>>

(* off = buflen % 3; buf[i] = buf[buflen - off + i] *)
Kept ==
  IF sampler.carries
    THEN LET off == Len(window) % sampler.perCandidate
         IN SubSeq(window, Len(window) - off + 1, Len(window))
    ELSE <<>>

(* A slip: buflen keeps the size of the first request, and the rest of the *)
(* old block is looked at again behind the new one.                        *)
RefilledUpToOldLength ==
  LET fresh == Kept \o Units(drawn, sampler.later)
  IN  fresh \o SubSeq(window, Len(fresh) + 1, Len(window))

Refilled == Kept \o Units(drawn, sampler.later)

LaterRequest ==
  /\ drawn > 0
  /\ Room
  /\ ~WholeCandidate
  /\ window' = Refilled
  /\ drawn' = drawn + sampler.later
  /\ taken' = 0
  /\ UNCHANGED <<sampler, verdict, coeffs>>

SamplingNext == FirstRequest \/ Look \/ LaterRequest

-----------------------------------------------------------------------------
(* Properties                                                              *)

(* Candidate k of the definition, which cuts the stream every perCandidate *)
(* units, and the number of the one that became coefficient n.             *)
InStream(k) ==
  [u \in 1..sampler.perCandidate |-> k * sampler.perCandidate + u - 1]

At(n) == IF n = 0 THEN -1 ELSE Number(coeffs[n])

(* Every implementation takes the same coefficients from the stream, in    *)
(* order, none lost or used twice at the end of a buffer, whatever is      *)
(* rejected: each is the first candidate behind the one before that is     *)
(* small enough.                                                           *)
SampledInOrder ==
  \A n \in 1..Len(coeffs) :
    /\ coeffs[n] = InStream(At(n))
    /\ At(n - 1) < At(n)
    /\ \A k \in (At(n - 1) + 1)..At(n) : SmallEnough(k) <=> k = At(n)
=============================================================================
