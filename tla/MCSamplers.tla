------------------------------ MODULE MCSamplers ------------------------------
(* One challenge sampled, compressed and multiplied with, or one polynomial *)
(* of A, s or y sampled, or one pair of keys made of such polynomials.  The *)
(* request sizes are those of the code scaled down: blocks that hold most   *)
(* of a polynomial or a part of it, and single candidates.  Keys have the   *)
(* sizes of the code.                                                       *)
EXTENDS Challenge, RejectionSampling, KeyGeneration

VARIABLE part

vars == <<part, challengeVars, samplingVars, keyVars>>

(* poly_challenge, poly_challenge_eth, poly_challenge_lowram; the contracts *)
(* and Python.                                                              *)
MCRequests ==
  {[first |-> 5, later |-> 5], [first |-> 2, later |-> 4],
   [first |-> 2, later |-> 2], [first |-> 2, later |-> 1]}

Of(perByte, perCandidate, first, later, carries, rejects) ==
  [perByte |-> perByte, perCandidate |-> perCandidate, first |-> first, later |-> later,
   carries |-> carries, rejects |-> rejects]

(* The digits of a number, so that a sum tells which went into it. *)
MCT == [j \in 0..(Size - 1) |-> 10^j]

MCSampler ==
  { \* A: c-ref, with blocks that three divides as 168 does, and blocks it does not
    Of(1, 3, 12, 6, TRUE, TRUE), Of(1, 3, 10, 5, TRUE, TRUE), Of(1, 3, 8, 4, TRUE, TRUE),
    \* c-lowram and Python
    Of(1, 3, 9, 9, FALSE, TRUE), Of(1, 3, 3, 3, FALSE, TRUE),
    \* s: c-ref with SHAKE, with Keccak-256, Python
    Of(2, 1, 4, 2, FALSE, TRUE), Of(2, 1, 2, 2, FALSE, TRUE), Of(2, 1, 1, 1, FALSE, TRUE),
    \* y of 18 bits: c-ref and Python, c-lowram; of 20 bits
    Of(4, 9, 18, 9, FALSE, FALSE), Of(4, 9, 9, 9, FALSE, FALSE),
    Of(2, 5, 20, 5, FALSE, FALSE), Of(2, 5, 5, 5, FALSE, FALSE)}

(* Levels 2, 3 and 5 of params.h. *)
MCLevel ==
  {[k |-> 4, l |-> 4, eta |-> 96, t1 |-> 320, t0 |-> 416],
   [k |-> 6, l |-> 5, eta |-> 128, t1 |-> 320, t0 |-> 416],
   [k |-> 8, l |-> 7, eta |-> 96, t1 |-> 320, t0 |-> 416]}

ChallengeIdle ==
  /\ stream = [signs |-> [k \in 1..TAU |-> 0], bytes |-> [k \in 1..StreamLen |-> 0]]
  /\ requests = [first |-> 2, later |-> 1]
  /\ ChallengeInit
SamplingIdle ==
  /\ sampler = Of(2, 1, 1, 1, FALSE, TRUE)
  /\ verdict = [k \in 0..(Decided - 1) |-> TRUE]
  /\ SamplingInit

KeyIdle == level = [k |-> 4, l |-> 4, eta |-> 96, t1 |-> 320, t0 |-> 416] /\ KeyInit

Init ==
  \/ part = "challenge" /\ ChallengeInit /\ SamplingIdle /\ KeyIdle
  \/ part = "polynomial" /\ ChallengeIdle /\ SamplingInit /\ KeyIdle
  \/ part = "keys" /\ ChallengeIdle /\ SamplingIdle /\ KeyInit

Next ==
  /\ \/ part = "challenge" /\ ChallengeNext /\ UNCHANGED <<samplingVars, keyVars>>
     \/ part = "polynomial" /\ SamplingNext /\ UNCHANGED <<challengeVars, keyVars>>
     \/ part = "keys" /\ KeyNext /\ UNCHANGED <<challengeVars, samplingVars>>
  /\ UNCHANGED part

Spec == Init /\ [][Next]_vars

(* Neither buffer is read past its end, c-ref's buffer of the first        *)
(* request and two bytes more holds every later request with what is kept, *)
(* and no polynomial is written past its end.                              *)
TypeOK ==
  /\ part \in {"challenge", "polynomial", "keys"}
  /\ phase \in {"sign", "sample", "compress", "row", "decompressed", "product"}
  /\ i \in (Size - TAU)..Size /\ c \in [Coefficient -> {-1, 0, 1}]
  /\ Len(signs) = IF phase = "sign" THEN 0 ELSE Size - i
  /\ pos <= Len(buf)
  /\ taken <= Len(window) /\ Len(coeffs) <= Wanted
  /\ atRow \in 0..level.k /\ atCol \in 0..level.l
  /\ Len(window) <= (sampler.first + 2) * sampler.perByte
=============================================================================
