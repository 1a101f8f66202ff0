------------------------------ MODULE MCSponges ------------------------------
(* The two sponges of the C code with their counterparts: SHAKE-256 off and *)
(* on chain, or the streaming Keccak-256 under the low-RAM generator, with  *)
(* one rate for all.  A behaviour uses one of the two.                      *)
EXTENDS ShakePair

CONSTANTS SizeSpace, Size, MaxBytes     \* of KeccakAbsorb

VARIABLES
  using,   \* "shake" or "keccak"
  k_hash, k_message, k_rest, k_finalized, k_pc, k_msg, k_size, k_idx,
  k_aligned, k_total, k_passed, k_ret

ASSUME SpongesAssumption ==
  SizeSpace \in Nat \ {0} /\ Size \subseteq Nat /\ MaxBytes \in Nat

Keccak == INSTANCE KeccakAbsorb
            WITH hash <- k_hash, message <- k_message, rest <- k_rest,
                 finalized <- k_finalized, pc <- k_pc, msg <- k_msg,
                 size <- k_size, idx <- k_idx, aligned <- k_aligned,
                 total <- k_total, passed <- k_passed, ret <- k_ret

keccakVars ==
  <<k_hash, k_message, k_rest, k_finalized, k_pc, k_msg, k_size, k_idx,
    k_aligned, k_total, k_passed, k_ret>>

SpongesInit == PairInit /\ Keccak!Init /\ using \in {"shake", "keccak"}

SpongesNext ==
  /\ \/ using = "shake" /\ PairNext /\ UNCHANGED keccakVars
     \/ using = "keccak" /\ Keccak!Next /\ UNCHANGED <<vars, solVars>>
  /\ UNCHANGED using

SpongesSpec ==
  SpongesInit /\ [][SpongesNext]_<<using, vars, solVars, keccakVars>>

(* The indices of the three contexts are within their buffers. *)
SpongesTypeOK == BothTypeOK /\ Keccak!TypeOK

(* As in KeccakAbsorb: the padded input is hashed, and nothing else. *)
HashOfInput == Keccak!HashOfInput
=============================================================================
