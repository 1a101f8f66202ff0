------------------------------ MODULE SignerPair ------------------------------
(***************************************************************************)
(* The low-RAM signer and the reference signer given the same key, message *)
(* and context.  The checks of an attempt come out the same for the two,   *)
(* as they compute the same polynomials: the low-RAM signer runs each      *)
(* attempt once the reference has run it, on the same answer of the oracle *)
(* (they share nothing, so that the order shows no less than another).     *)
(***************************************************************************)
EXTENDS LowramSign

VARIABLES
  ref_pc, ref_attempt, ref_outcome, ref_nonce, ref_y, ref_w0, ref_cp, ref_z,
  ref_sig, ref_siglen, ref_ret

Ref == INSTANCE RefSign
         WITH pc <- ref_pc, attempt <- ref_attempt, outcome <- ref_outcome,
              nonce <- ref_nonce, y <- ref_y, w0 <- ref_w0, cp <- ref_cp,
              z <- ref_z, sig <- ref_sig, siglen <- ref_siglen, ret <- ref_ret

refVars ==
  <<ref_pc, ref_attempt, ref_outcome, ref_nonce, ref_y, ref_w0, ref_cp, ref_z,
    ref_sig, ref_siglen, ref_ret>>

PairInit == Init /\ Ref!Init /\ outcome = ref_outcome

(* The reference is through with the attempt the low-RAM signer is in. *)
ReferenceAhead == ref_attempt > attempt \/ ref_ret # "none"

ReferenceStep ==
  /\ ~ReferenceAhead
  /\ Ref!Next
  /\ UNCHANGED vars

(* The context is too long for both or for neither, and the next attempt   *)
(* has the answer the reference had for it.                                *)
LowramStep ==
  /\ ReferenceAhead
  /\ Next
  /\ ret' = "refused" <=> ref_ret = "refused"
  /\ outcome' = IF attempt' = ref_attempt THEN ref_outcome ELSE outcome
  /\ UNCHANGED refVars

PairNext == ReferenceStep \/ LowramStep

PairSpec == PairInit /\ [][PairNext]_<<vars, refVars>>

(* Both functions run until they return. *)
FairPairSpec == PairSpec /\ WF_<<vars, refVars>>(PairNext)

-----------------------------------------------------------------------------
(* Properties, besides those of LowramSign                                 *)

(* As in LowramSign and in RefSign. *)
BothTypeOK == TypeOK /\ Ref!TypeOK

(* The reference signer implements the abstract rejection loop as well. *)
RefImplementsSignLoop == Ref!ImplementsSignLoop

(***************************************************************************)
(* The low-RAM signer never accepts, nor rejects, an attempt on which the  *)
(* reference decides otherwise, and what the two write into sig is the     *)
(* same, byte section by byte section (crypto_sign_signature of c-ref and  *)
(* of c-lowram), though one fills it in rows and in every attempt.         *)
(***************************************************************************)
SameSignature ==
  /\ attempt <= ref_attempt
  /\ ret # "none" => /\ ret = ref_ret /\ attempt = ref_attempt
                     /\ ret = "ok" => sig = ref_sig /\ siglen = ref_siglen

(***************************************************************************)
(* Both return, if the checks pass in the end: a rejection at any row      *)
(* leaves indices and counters from which the next attempt runs to its own *)
(* verdict.                                                                *)
(***************************************************************************)
BothReturn == <>(ret # "none" /\ ref_ret # "none")
=============================================================================
