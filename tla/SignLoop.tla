------------------------------ MODULE SignLoop -------------------------------
(***************************************************************************)
(* What crypto_sign_signature promises: it refuses an overlong context, or *)
(* runs attempts numbered from 0 until one passes every check, and returns *)
(* the signature of that very attempt.  Nothing of a rejected attempt is   *)
(* left in it.                                                             *)
(***************************************************************************)
EXTENDS SigningAttempt

VARIABLES
  attempt,   \* number of the running attempt
  outcome,   \* what the checks say of it
  ret,       \* "none" while running, then "ok" or "refused"
  result     \* the signature returned, or Junk

vars == <<attempt, outcome, ret, result>>

Signature ==
  [c : {WOf(attempt)},
   z : {[l \in LRow |-> [c |-> WOf(attempt), s |-> l, y |-> Kappa(attempt, l)]]},
   pos : [Slot -> Position],
   cnt : [KRow -> Count]]

Init ==
  /\ attempt = 0
  /\ outcome \in Answers(0)
  /\ ret = "none"
  /\ result = Junk

Refuse ==
  /\ ret = "none"
  /\ attempt = 0
  /\ ret' = "refused"
  /\ UNCHANGED <<attempt, outcome, result>>

Retry ==
  /\ ret = "none"
  /\ ~Acceptable(outcome)
  /\ attempt' = attempt + 1
  /\ outcome' \in Answers(attempt')
  /\ UNCHANGED <<ret, result>>

Accept ==
  /\ ret = "none"
  /\ Acceptable(outcome)
  /\ ret' = "ok"
  /\ result' \in Signature
  /\ Encodes(result'.pos, result'.cnt, outcome.h)
  /\ UNCHANGED <<attempt, outcome>>

Next == Refuse \/ Retry \/ Accept

Spec == Init /\ [][Next]_vars
=============================================================================
