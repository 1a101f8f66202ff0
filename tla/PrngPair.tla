------------------------------ MODULE PrngPair -------------------------------
(***************************************************************************)
(* The off-chain and the on-chain generator fed by callers that mean to    *)
(* hash the same input: the C signer injects its pieces one by one, as     *)
(* crypto_sign_signature does, without looking at the return value of      *)
(* inner_keccak256_inject, while the contract joins all of them before     *)
(* initPrng.  Each side then draws bytes in its own way and at its own     *)
(* pace.                                                                   *)
(***************************************************************************)
EXTENDS KeccakPrng

CONSTANT MaxInput   \* bound of the model: pieces of one input

VARIABLES
  c_sent,       \* the pieces the C caller passed to inject, accepted or not
  c_drawn,      \* all the bytes the C caller received since the last init
  sol_input, sol_ready, sol_state, sol_counter, sol_pool, sol_remaining,
  sol_worded,   \* SolKeccakPrng's `drawn`
  sol_given,
  sol_drawn     \* all the bytes the contract drew since the last initPrng

Sol == INSTANCE SolKeccakPrng
         WITH input <- sol_input, ready <- sol_ready, state <- sol_state,
              counter <- sol_counter, pool <- sol_pool,
              remaining <- sol_remaining, drawn <- sol_worded, given <- sol_given

cVars == <<vars, c_sent, c_drawn>>

solVars == <<sol_input, sol_ready, sol_state, sol_counter, sol_pool,
             sol_remaining, sol_worded, sol_given, sol_drawn>>

(* The bytes of a 0-indexed array, appended to a log. *)
Logged(log, array) ==
  LET n == Len(log)
      size == IF DOMAIN array = {} THEN 0 ELSE 1 + CHOOSE i \in DOMAIN array : i + 1 \notin DOMAIN array
  IN  [i \in 1 .. n + size |-> IF i <= n THEN log[i] ELSE array[i - n - 1]]

PairInit ==
  /\ Init
  /\ Sol!Init
  /\ c_sent = << >>
  /\ c_drawn = << >>
  /\ sol_drawn = << >>

(* The contract works on a signature that was made before. *)
SolStarted == sol_ready \/ sol_input # << >>

(* Every inject of the caller, whatever it returns. *)
CInject(c) ==
  /\ finalized = 0
  /\ Len(c_sent) < MaxInput
  /\ Inject(c) \/ InjectRefused(c)
  /\ c_sent' = Append(c_sent, c)
  /\ UNCHANGED <<c_drawn, solVars>>

(* A step that may hand bytes over to the caller. *)
CDeliver ==
  /\ ServeLeftover \/ ExtractReturn
  /\ c_drawn' = IF pc' = "idle" THEN Logged(c_drawn, given') ELSE c_drawn
  /\ UNCHANGED <<c_sent, solVars>>

CInternal ==
  /\ \/ Flip
     \/ FlipRefused
     \/ ExtractRefused
     \/ \E c \in Chunk : finalized = 1 /\ InjectRefused(c)
     \/ \E n \in Request : ExtractBegin(n)
     \/ NoLeftover
     \/ NextBlock
  /\ UNCHANGED <<c_sent, c_drawn, solVars>>

SolPrepare ==
  /\ pc = "idle"
  /\ (\E c \in Chunk : Sol!Concat(c)) \/ Sol!InitPrng
  /\ UNCHANGED <<cVars, sol_drawn>>

SolDraw ==
  /\ Sol!NextByte \/ Sol!FirstBlock \/ Sol!RefillBlock
  /\ sol_drawn' = Logged(sol_drawn, sol_given')
  /\ UNCHANGED cVars

(* Both sides turn to their next hash. *)
CRestart ==
  /\ InitCtx
  /\ c_sent' = << >>
  /\ c_drawn' = << >>
  /\ UNCHANGED solVars

SolRestart ==
  /\ Sol!NewPrng
  /\ sol_drawn' = << >>
  /\ UNCHANGED cVars

PairNext ==
  \/ /\ ~SolStarted
     /\ \/ \E c \in Chunk : CInject(c)
        \/ CDeliver
        \/ CInternal
        \/ CRestart
  \/ SolPrepare
  \/ SolDraw
  \/ SolRestart

PairSpec == PairInit /\ [][PairNext]_<<cVars, solVars>>

-----------------------------------------------------------------------------
(***************************************************************************)
(* Whenever both sides meant to hash the same input, and the whole of it   *)
(* fits the C buffer, what one has drawn so far is a prefix of what the    *)
(* other has drawn: contract and C code derive the same challenge, the     *)
(* same mu and the same final hash.                                        *)
(***************************************************************************)
SameStream ==
  (finalized = 1 /\ sol_ready /\ c_sent = sol_input /\ c_sent = buffer) =>
    \A i \in 1 .. Lesser(Len(c_drawn), Len(sol_drawn)) : c_drawn[i] = sol_drawn[i]

(***************************************************************************)
(* The contract's generator implements the abstract stream, too.           *)
(***************************************************************************)
SolImplementsXof == Sol!ImplementsXof

=============================================================================
