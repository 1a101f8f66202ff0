------------------------------ MODULE ShakePair -------------------------------
(***************************************************************************)
(* SHAKE-256 off chain and on chain: the C code hashes an input and draws  *)
(* from the state, then the contract hashes one and draws in its own way   *)
(* (poly_challenge reads whole blocks, sampleInBallNist eight bytes and    *)
(* then one at a time).                                                    *)
(***************************************************************************)
EXTENDS Shake

VARIABLES sol_state, sol_buff, sol_i, sol_pc, sol_todo, sol_total,
          sol_digested, sol_squeezed

Sol == INSTANCE SolShake
         WITH state <- sol_state, buff <- sol_buff, i <- sol_i,
              pc <- sol_pc, todo <- sol_todo, total <- sol_total,
              digested <- sol_digested, squeezed <- sol_squeezed

solVars == <<sol_state, sol_buff, sol_i, sol_pc, sol_todo, sol_total,
             sol_digested, sol_squeezed>>

PairInit == Init /\ Sol!Init

SolStarted == sol_pc # "idle" \/ sol_digested \/ sol_total # 0

PairNext ==
  \/ /\ ~SolStarted
     /\ Next
     /\ UNCHANGED solVars
  \/ /\ pc = "idle"
     /\ Sol!Next
     /\ UNCHANGED vars

PairSpec == PairInit /\ [][PairNext]_<<vars, solVars>>

-----------------------------------------------------------------------------
(***************************************************************************)
(* The same for the contract's context and for the C state.                *)
(***************************************************************************)
BothTypeOK == TypeOK /\ Sol!TypeOK

(***************************************************************************)
(* An input of the same bytes gives the same output on both sides, byte by *)
(* byte, however it was cut when it went in and when it came out: signer   *)
(* and contract sample the same challenge.                                 *)
(***************************************************************************)
SameOutput ==
  (finalized /\ sol_digested /\ total = sol_total) =>
    \A p \in 1 .. Lesser(Len(squeezed), Len(sol_squeezed)) :
      squeezed[p] = sol_squeezed[p]
=============================================================================
