------------------------------- MODULE RefSign -------------------------------
(***************************************************************************)
(* crypto_sign_signature of c-ref/sign.c: an attempt computes whole        *)
(* vectors, checks them in turn, and writes z and the hint into sig after  *)
(* the last check.  Only w1 and the challenge hash pass through sig while  *)
(* the attempt may still be rejected.                                      *)
(***************************************************************************)
EXTENDS SigningAttempt

VARIABLES
  pc,        \* the check that comes next
  attempt,   \* number of the attempt (not kept by the code)
  outcome,   \* the oracle for the attempt
  nonce,
  y,         \* the masks sampled
  w0,        \* the rows of w, whose low bits are checked
  cp,        \* the challenge
  z,
  sig, siglen,
  ret

vars == <<pc, attempt, outcome, nonce, y, w0, cp, z, sig, siglen, ret>>

Init ==
  /\ pc = "begin"
  /\ attempt = 0
  /\ outcome \in Answers(0)
  /\ nonce = 0
  /\ y = Junk
  /\ w0 = Junk
  /\ cp = Junk
  /\ z = Junk
  /\ sig = [c |-> Junk, z |-> [l \in LRow |-> Junk],
            pos |-> [i \in Slot |-> Junk], cnt |-> [k \in KRow |-> Junk]]
  /\ siglen = Junk
  /\ ret = "none"

(* A context longer than 255 bytes. *)
Refuse ==
  /\ pc = "begin"
  /\ pc' = "done"
  /\ ret' = "refused"
  /\ UNCHANGED <<attempt, outcome, nonce, y, w0, cp, z, sig, siglen>>

Begin ==
  /\ pc = "begin"
  /\ pc' = "rej"
  /\ UNCHANGED <<attempt, outcome, nonce, y, w0, cp, z, sig, siglen, ret>>

(* A slip: a rejected attempt is repeated with the same nonce. *)
NonceAfterFirst(n) == IF n = 0 THEN 1 ELSE n

NextNonce(n) == (n + 1) % NonceSpace

(***************************************************************************)
(* rej: sample y, compute w, pack w1 into sig, hash it there, and sample   *)
(* the challenge.                                                          *)
(***************************************************************************)
SampleAndCommit ==
  /\ pc = "rej"
  /\ pc' = "z"
  /\ y' = [l \in LRow |-> Kappa(nonce, l)]
  /\ nonce' = NextNonce(nonce)
  /\ w0' = [k \in KRow |-> [y |-> {y'[l] : l \in LRow}, minus |-> 0]]
  /\ cp' = w0'
  /\ sig' = [sig EXCEPT !.c = w0',
                        !.z = [l \in LRow |-> IF l \in WScratch THEN Junk ELSE @[l]]]
  /\ UNCHANGED <<attempt, outcome, z, siglen, ret>>

(* goto rej *)
Reject ==
  /\ pc' = "rej"
  /\ attempt' = attempt + 1
  /\ outcome' \in Answers(attempt + 1)
  /\ UNCHANGED <<nonce, y, cp, sig, siglen, ret>>

Proceed(label) ==
  /\ pc' = label
  /\ UNCHANGED <<attempt, outcome, nonce, y, cp, sig, siglen, ret>>

CheckZ ==
  /\ pc = "z"
  /\ z' = [l \in LRow |-> [c |-> cp, s |-> l, y |-> y[l]]]
  /\ IF outcome.zbad # {} THEN Reject ELSE Proceed("w0")
  /\ UNCHANGED w0

CheckW0 ==
  /\ pc = "w0"
  /\ w0' = [k \in KRow |-> [w0[k] EXCEPT !.minus = 1]]
  /\ IF outcome.w0bad # {} THEN Reject ELSE Proceed("ct0")
  /\ UNCHANGED z

CheckCt0 ==
  /\ pc = "ct0"
  /\ IF outcome.ct0bad # {} THEN Reject ELSE Proceed("h")
  /\ UNCHANGED <<w0, z>>

(* A slip: the bound is off by one. *)
HintFitsNearly == outcome.upto[K - 1] <= OMEGA + 1

HintFits == outcome.upto[K - 1] <= OMEGA

TooManyHints ==
  /\ pc = "h"
  /\ ~HintFits
  /\ Reject
  /\ UNCHANGED <<w0, z>>

(* The position bytes: the rows one after the other, over zeros. *)
Positions(h) ==
  [i \in Slot |->
     IF \E k \in KRow : RowStart(outcome.upto, k) <= i /\ i < outcome.upto[k]
     THEN LET k == CHOOSE k \in KRow : RowStart(outcome.upto, k) <= i /\ i < outcome.upto[k]
          IN  h[k][i - RowStart(outcome.upto, k) + 1]
     ELSE 0]

(* pack_sig: all of z, and the hint section from scratch; c stays. *)
PackSig ==
  [sig EXCEPT !.z = z, !.pos = Positions(outcome.h), !.cnt = outcome.upto]

Finish ==
  /\ pc = "h"
  /\ HintFits
  /\ pc' = "done"
  /\ sig' = PackSig
  /\ siglen' = 1
  /\ ret' = "ok"
  /\ UNCHANGED <<attempt, outcome, nonce, y, w0, cp, z>>

Next ==
  \/ Refuse
  \/ Begin
  \/ SampleAndCommit
  \/ CheckZ
  \/ CheckW0
  \/ CheckCt0
  \/ TooManyHints
  \/ Finish

Spec == Init /\ [][Next]_vars

-----------------------------------------------------------------------------
Attempt == INSTANCE SignLoop
             WITH result <- IF ret = "ok" THEN sig ELSE Junk

(***************************************************************************)
(* The vector-wise signer implements the same abstract loop as the low-RAM *)
(* one: the two accept the same attempt and return the same signature of   *)
(* it (crypto_sign_signature of c-ref/sign.c and pack_sig).                *)
(***************************************************************************)
ImplementsSignLoop == Attempt!Spec

(***************************************************************************)
(* What is written into sig lies within its sections: pack_sig is reached  *)
(* with at most OMEGA hints only (sign.c 253-261, packing.c 156-183).      *)
(***************************************************************************)
TypeOK ==
  /\ pc \in {"begin", "rej", "z", "w0", "ct0", "h", "done"}
  /\ attempt \in Nat
  /\ outcome \in Outcome
  /\ nonce \in Mask
  /\ y \in [LRow -> Mask] \cup {Junk}
  /\ w0 \in WVec \cup {Junk}
  /\ cp \in Challenge \cup {Junk}
  /\ z \in [LRow -> ZVal] \cup {Junk}
  /\ sig \in SigBuffer
  /\ siglen \in {1, Junk}
  /\ ret \in {"none", "ok", "refused"}
=============================================================================
