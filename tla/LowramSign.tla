----------------------------- MODULE LowramSign ------------------------------
(***************************************************************************)
(* crypto_sign_signature of c-lowram/sign.c.  To fit into little memory it *)
(* keeps one polynomial (tmp0), the packed rows of w (wcomp) and the       *)
(* packed challenge (ccomp), computes the mask y twice, and writes z and   *)
(* the hint into the caller's sig row by row, before it knows whether the  *)
(* attempt will be accepted.                                               *)
(***************************************************************************)
EXTENDS SigningAttempt

VARIABLES
  pc,             \* where the function stands
  attempt,        \* number of the attempt (not kept by the code)
  outcome,        \* the oracle for the attempt
  seen,           \* the masks of the earlier attempts (not kept by the code)
  nonce,
  l_idx, k_idx,
  wcomp,
  ccomp,
  tmp0,           \* the polynomial buffer: a challenge, or something else
  sig, siglen,
  hint_n, hints_written,
  ret

vars == <<pc, attempt, outcome, seen, nonce, l_idx, k_idx, wcomp, ccomp, tmp0,
          sig, siglen, hint_n, hints_written, ret>>

JunkSig ==
  [c |-> Junk, z |-> [l \in LRow |-> Junk],
   pos |-> [i \in Slot |-> Junk], cnt |-> [k \in KRow |-> Junk]]

Init ==
  /\ pc = "begin"
  /\ attempt = 0
  /\ outcome \in Answers(0)
  /\ seen = {}
  /\ nonce = 0
  /\ l_idx = 0
  /\ k_idx = 0
  /\ wcomp = [k \in KRow |-> [y |-> {}, minus |-> 1]]
  /\ ccomp = Junk
  /\ tmp0 = Junk
  /\ sig = JunkSig
  /\ siglen = Junk
  /\ hint_n = 0
  /\ hints_written = 0
  /\ ret = "none"

(* A context longer than 255 bytes. *)
Refuse ==
  /\ pc = "begin"
  /\ pc' = "done"
  /\ ret' = "refused"
  /\ UNCHANGED <<attempt, outcome, seen, nonce, l_idx, k_idx, wcomp, ccomp, tmp0,
                 sig, siglen, hint_n, hints_written>>

Begin ==
  /\ pc = "begin"
  /\ pc' = "rej"
  /\ UNCHANGED <<attempt, outcome, seen, nonce, l_idx, k_idx, wcomp, ccomp, tmp0,
                 sig, siglen, hint_n, hints_written, ret>>

Cleared(w) == [k \in KRow |-> [y |-> {}, minus |-> 0]]

(* rej: the rows of w are zeroed. *)
ClearW ==
  /\ pc = "rej"
  /\ pc' = "mask"
  /\ wcomp' = Cleared(wcomp)
  /\ l_idx' = 0
  /\ UNCHANGED <<attempt, outcome, seen, nonce, k_idx, ccomp, tmp0, sig, siglen,
                 hint_n, hints_written, ret>>

(* Sample the mask row l_idx and add its product to every row of w. *)
AddMaskRow ==
  /\ pc = "mask"
  /\ l_idx < L
  /\ wcomp' = [k \in KRow |-> [wcomp[k] EXCEPT !.y = @ \cup {Kappa(nonce, l_idx)}]]
  /\ tmp0' = Junk
  /\ l_idx' = l_idx + 1
  /\ UNCHANGED <<pc, attempt, outcome, seen, nonce, k_idx, ccomp, sig, siglen,
                 hint_n, hints_written, ret>>

(***************************************************************************)
(* nonce++, then w1 is packed into sig, hashed there into c, and the       *)
(* challenge is sampled into tmp0 and packed into ccomp.                   *)
(***************************************************************************)
Commit ==
  /\ pc = "mask"
  /\ l_idx = L
  /\ pc' = "z"
  /\ nonce' = (nonce + 1) % NonceSpace
  /\ sig' = [sig EXCEPT !.c = wcomp,
                        !.z = [l \in LRow |-> IF l \in WScratch THEN Junk ELSE @[l]]]
  /\ tmp0' = wcomp
  /\ ccomp' = wcomp
  /\ l_idx' = 0
  /\ UNCHANGED <<attempt, outcome, seen, k_idx, wcomp, siglen,
                 hint_n, hints_written, ret>>

(* A slip: every row relies on the challenge still being in tmp0. *)
ChallengeInTmp == tmp0

(* The challenge for row l_idx of z: in tmp0 from its sampling, if the row *)
(* is the first, and unpacked from ccomp for the rows after it.            *)
ChallengeForZ == IF l_idx = 0 THEN tmp0 ELSE ccomp

(* goto rej *)
Reject ==
  /\ pc' = "rej"
  /\ attempt' = attempt + 1
  /\ outcome' \in Answers(attempt + 1)
  /\ seen' = seen \cup MasksOf(nonce - 1)

(* The row l_idx of z passes its check and is written into sig. *)
WriteZRow ==
  /\ pc = "z"
  /\ l_idx < L
  /\ l_idx \notin outcome.zbad
  /\ sig' = [sig EXCEPT !.z[l_idx] =
               [c |-> ChallengeForZ, s |-> l_idx, y |-> Kappa(nonce - 1, l_idx)]]
  /\ tmp0' = Junk
  /\ l_idx' = l_idx + 1
  /\ UNCHANGED <<pc, attempt, outcome, seen, nonce, k_idx, wcomp, ccomp, siglen,
                 hint_n, hints_written, ret>>

RejectZRow ==
  /\ pc = "z"
  /\ l_idx < L
  /\ l_idx \in outcome.zbad
  /\ tmp0' = Junk
  /\ Reject
  /\ UNCHANGED <<nonce, l_idx, k_idx, wcomp, ccomp, sig, siglen,
                 hint_n, hints_written, ret>>

(* A slip: the counters of a rejected attempt are kept. *)
BeginHintsKeepingCounters ==
  /\ pc = "z"
  /\ l_idx = L
  /\ pc' = "h"
  /\ k_idx' = 0
  /\ UNCHANGED <<attempt, outcome, seen, nonce, l_idx, wcomp, ccomp, tmp0, sig,
                 siglen, hint_n, hints_written, ret>>

BeginHints ==
  /\ pc = "z"
  /\ l_idx = L
  /\ pc' = "h"
  /\ hint_n' = 0
  /\ hints_written' = 0
  /\ k_idx' = 0
  /\ UNCHANGED <<attempt, outcome, seen, nonce, l_idx, wcomp, ccomp, tmp0, sig,
                 siglen, ret>>

(* The three checks of row k_idx. *)
HintRowGood ==
  /\ k_idx \notin outcome.w0bad
  /\ k_idx \notin outcome.ct0bad
  /\ hint_n + Len(outcome.h[k_idx]) <= OMEGA

SubtractedRow == [wcomp EXCEPT ![k_idx].minus = 1]

(* pack_sig_h: the positions of a row, from hints_written on. *)
PosWithRow(pos, row) ==
  [i \in DOMAIN pos |-> IF hints_written <= i /\ i < hints_written + Len(row)
                        THEN row[i - hints_written + 1]
                        ELSE pos[i]]

(* A slip: the loop over the rows does not advance. *)
WriteHintRowAgain ==
  /\ pc = "h"
  /\ k_idx < K
  /\ HintRowGood
  /\ wcomp' = SubtractedRow
  /\ tmp0' = Junk
  /\ hint_n' = hint_n + Len(outcome.h[k_idx])
  /\ hints_written' = hints_written + Len(outcome.h[k_idx])
  /\ sig' = [sig EXCEPT !.pos = PosWithRow(@, outcome.h[k_idx]),
                        !.cnt[k_idx] = hints_written']
  /\ UNCHANGED <<pc, attempt, outcome, seen, nonce, l_idx, k_idx, ccomp, siglen, ret>>

WriteHintRow ==
  /\ pc = "h"
  /\ k_idx < K
  /\ HintRowGood
  /\ wcomp' = SubtractedRow
  /\ tmp0' = Junk
  /\ hint_n' = hint_n + Len(outcome.h[k_idx])
  /\ hints_written' = hints_written + Len(outcome.h[k_idx])
  /\ sig' = [sig EXCEPT !.pos = PosWithRow(@, outcome.h[k_idx]),
                        !.cnt[k_idx] = hints_written']
  /\ k_idx' = k_idx + 1
  /\ UNCHANGED <<pc, attempt, outcome, seen, nonce, l_idx, ccomp, siglen, ret>>

RejectHintRow ==
  /\ pc = "h"
  /\ k_idx < K
  /\ ~HintRowGood
  /\ wcomp' = SubtractedRow
  /\ tmp0' = Junk
  /\ hint_n' = IF k_idx \in outcome.w0bad \cup outcome.ct0bad THEN hint_n
               ELSE hint_n + Len(outcome.h[k_idx])
  /\ Reject
  /\ UNCHANGED <<nonce, l_idx, k_idx, ccomp, sig, siglen, hints_written, ret>>

(* A slip: the positions after the last hint keep what was there. *)
TailAsFound(pos) == pos

(* pack_sig_h_zero: zeros after the last hint. *)
ZeroTail(pos) == [i \in Slot |-> IF hints_written <= i THEN 0 ELSE pos[i]]

Finish ==
  /\ pc = "h"
  /\ k_idx = K
  /\ pc' = "done"
  /\ sig' = [sig EXCEPT !.pos = ZeroTail(@)]
  /\ hints_written' = IF hints_written < OMEGA THEN OMEGA ELSE hints_written
  /\ siglen' = 1
  /\ ret' = "ok"
  /\ UNCHANGED <<attempt, outcome, seen, nonce, l_idx, k_idx, wcomp, ccomp, tmp0, hint_n>>

Next ==
  \/ Refuse
  \/ Begin
  \/ ClearW
  \/ AddMaskRow
  \/ Commit
  \/ WriteZRow
  \/ RejectZRow
  \/ BeginHints
  \/ WriteHintRow
  \/ RejectHintRow
  \/ Finish

Spec == Init /\ [][Next]_vars

-----------------------------------------------------------------------------
Attempt == INSTANCE SignLoop
             WITH result <- IF ret = "ok" THEN sig ELSE Junk

(***************************************************************************)
(* Whatever rows an attempt was rejected at, the bytes returned are the    *)
(* signature of the accepted attempt alone: one challenge, over the very   *)
(* masks that were sampled a second time for z, and the canonical encoding *)
(* of its hint (the loop of crypto_sign_signature, lines 249 to 390).      *)
(***************************************************************************)
ImplementsSignLoop == Attempt!Spec

(***************************************************************************)
(* Until the 16-bit nonce wraps, no attempt commits to a mask that a       *)
(* rejected attempt has used (the nonce arithmetic of lines 268 and 334).  *)
(***************************************************************************)
FreshMasks ==
  (pc \in {"z", "h"} /\ L * (attempt + 1) <= NonceSpace) =>
    \A k \in KRow : wcomp[k].y \cap seen = {}

(***************************************************************************)
(* While the hint is written row by row, the two counters agree, stay      *)
(* within the position bytes, and the rows written so far can be decoded:  *)
(* pack_sig_h never writes past OMEGA, whatever earlier attempts left.     *)
(***************************************************************************)
HintPrefixEncoded ==
  pc = "h" =>
    /\ hint_n = hints_written
    /\ hints_written = RowStart(sig.cnt, k_idx)
    /\ hints_written <= OMEGA
    /\ \A k \in 0 .. k_idx - 1 : RowEncoded(sig.pos, sig.cnt, outcome.h, k)

(***************************************************************************)
(* The counters and indices stay within the buffers they index: the hint   *)
(* counters within the OMEGA bytes that pack_sig_h may write (350 to 390). *)
(***************************************************************************)
TypeOK ==
  /\ pc \in {"begin", "rej", "mask", "z", "h", "done"}
  /\ attempt \in Nat
  /\ outcome \in Outcome
  /\ seen \in SUBSET Mask
  /\ nonce \in Mask
  /\ l_idx \in 0 .. L
  /\ k_idx \in 0 .. K
  /\ wcomp \in WVec
  /\ ccomp \in Challenge \cup {Junk}
  /\ tmp0 \in Challenge \cup {Junk}
  /\ sig \in SigBuffer
  /\ siglen \in {1, Junk}
  /\ hint_n \in Nat
  /\ hints_written \in Count
  /\ ret \in {"none", "ok", "refused"}
=============================================================================
