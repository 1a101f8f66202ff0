------------------------------- MODULE MuHash --------------------------------
(***************************************************************************)
(* mu = CRH(tr, 0, ctxlen, ctx, msg), on which signer and verifier must    *)
(* agree.  c-ref feeds the four pieces to its generator one by one and     *)
(* never looks at what inner_keccak256_inject returns; c-lowram feeds the  *)
(* same pieces to a hash that needs no buffer for them, but takes their    *)
(* length in 16 bits; the contracts join them with abi.encodePacked.  One  *)
(* call of the c-ref signer is followed by one of the c-ref verifier, each *)
(* with a context and a message of its own; the others are operators.      *)
(***************************************************************************)
EXTENDS KeccakPrng

Ext == INSTANCE SequencesExt

CONSTANTS
  Tr,         \* the hash of the public key, equal on both sides
  Context, Message,
  CtxLimit,   \* 255
  ByteSpace,  \* 256
  SizeSpace,  \* 2^16, the values of the uint16_t size of keccak_update
  MuLen,      \* CRHBYTES
  NoMu,       \* nothing obtained yet
  Refused     \* the call returned -1, or reverted

Bytes == 0 .. ByteSpace - 1

(* A slip: the length of the context is left out. *)
HeaderWithoutLength(ctx) == <<0>>

(* mu[0] = 0; mu[1] = ctxlen; *)
Header(ctx) == <<0, Len(ctx) % ByteSpace>>

ASSUME MuHashAssumption ==
  /\ ByteSpace \in Nat /\ SizeSpace \in Nat /\ CtxLimit \in Nat
  /\ CtxLimit < ByteSpace /\ CtxLimit < SizeSpace
  /\ Len(Tr) < SizeSpace /\ 2 < SizeSpace
  /\ Chunk \subseteq Seq(Bytes)
  /\ ChunkLen = [c \in Chunk |-> Len(c)]
  /\ Tr \in Chunk /\ Context \subseteq Chunk /\ Message \subseteq Chunk
  /\ \A ctx \in Context : Header(ctx) \in Chunk
  /\ MuLen \in Request
  /\ Refused \notin Seq(Bytes)

VARIABLES
  input,      \* the context and the message of each side
  who,        \* whose call is running
  piece,      \* the piece that is injected next; 0 before the call
  mu          \* what each side has obtained: bytes, NoMu or Refused

callerVars == <<input, who, piece, mu>>

Side == {"signer", "verifier"}

Pieces(in) == <<Tr, Header(in.ctx), in.ctx, in.m>>

MuInit ==
  /\ Init
  /\ input \in [Side -> [ctx : Context, m : Message]]
  /\ who = "signer"
  /\ piece = 0
  /\ mu = [s \in Side |-> NoMu]

NextCall(obtained) ==
  /\ mu' = [mu EXCEPT ![who] = obtained]
  /\ who' = IF who = "signer" THEN "verifier" ELSE "none"
  /\ piece' = 0
  /\ UNCHANGED input

(* A slip: the length is only limited to what a byte and its carry hold. *)
ContextTooLongByOne == Len(input[who].ctx) > CtxLimit + 1

(* ctxlen > 255 *)
ContextTooLong == Len(input[who].ctx) > CtxLimit

RefuseContext ==
  /\ who \in Side
  /\ piece = 0
  /\ ContextTooLong
  /\ NextCall(Refused)
  /\ UNCHANGED vars

BeginMu ==
  /\ who \in Side
  /\ piece = 0
  /\ ~ContextTooLong
  /\ InitCtx
  /\ piece' = 1
  /\ UNCHANGED <<input, who, mu>>

(* inner_keccak256_inject, its result ignored. *)
InjectPiece ==
  /\ piece \in 1 .. 4
  /\ \/ Inject(Pieces(input[who])[piece])
     \/ InjectRefused(Pieces(input[who])[piece])
  /\ piece' = piece + 1
  /\ UNCHANGED <<input, who, mu>>

FlipMu ==
  /\ piece = 5
  /\ Flip
  /\ piece' = 6
  /\ UNCHANGED <<input, who, mu>>

ExtractMu ==
  /\ piece = 6
  /\ ExtractBegin(MuLen)
  /\ piece' = 7
  /\ UNCHANGED <<input, who, mu>>

FillMu ==
  /\ piece = 7
  /\ NoLeftover \/ NextBlock
  /\ UNCHANGED callerVars

EndMu ==
  /\ piece = 7
  /\ ExtractReturn
  /\ NextCall(Ext!FlattenSeq(state))

MuNext ==
  \/ RefuseContext
  \/ BeginMu
  \/ InjectPiece
  \/ FlipMu
  \/ ExtractMu
  \/ FillMu
  \/ EndMu

MuSpec == MuInit /\ [][MuNext]_<<vars, callerVars>>

-----------------------------------------------------------------------------
(***************************************************************************)
(* verify of the contracts: mPrime = 0x00 || len(ctx) || ctx || m, joined  *)
(* with tr; and the variant of ERC-7913, without a context.                *)
(***************************************************************************)
ContractMu(in) ==
  IF Len(in.ctx) > CtxLimit THEN Refused
  ELSE Tr \o <<0, Len(in.ctx) % ByteSpace>> \o in.ctx \o in.m

(* verify(bytes, bytes32, bytes): bytes1(0), bytes1(0), m. *)
Erc7913Mu(m) == Tr \o <<0, 0>> \o m

(* The bytes that keccak_update(ctx, text, Len(text)) looks at. *)
Hashed(text) == SubSeq(text, 1, Len(text) % SizeSpace)

LowramMu(in) ==
  IF Len(in.ctx) > CtxLimit THEN Refused
  ELSE Hashed(Tr) \o Hashed(Header(in.ctx)) \o Hashed(in.ctx) \o Hashed(in.m)

-----------------------------------------------------------------------------
TotalLen(in) == Len(Tr) + Len(Header(in.ctx)) + Len(in.ctx) + Len(in.m)

FitsBuffer(in) == TotalLen(in) <= BufferSize

BothDone == who = "none"

Same == input["signer"] = input["verifier"]

(***************************************************************************)
(* Signer and C verifier obtain the same mu exactly for the same context   *)
(* and message, if these fit the input buffer: no bytes move from the      *)
(* context into the message (sign.c 142-154 and 353-367).                  *)
(***************************************************************************)
MuBinds ==
  (/\ BothDone
   /\ \A s \in Side : mu[s] # Refused /\ FitsBuffer(input[s])) =>
     (mu["signer"] = mu["verifier"] <=> Same)

(***************************************************************************)
(* The contracts bind the same pairs: they obtain the mu of a signer whose *)
(* input fits exactly for the context and message that were signed, and    *)
(* the variant without a context only for an empty one.                    *)
(***************************************************************************)
ContractBinds ==
  (BothDone /\ mu["signer"] # Refused /\ FitsBuffer(input["signer"])) =>
    /\ ContractMu(input["verifier"]) = mu["signer"] <=> Same
    /\ Erc7913Mu(input["verifier"].m) = mu["signer"] <=>
         (input["signer"].ctx = << >> /\ input["signer"].m = input["verifier"].m)

(***************************************************************************)
(* c-lowram, for messages whose length 16 bits can hold, obtains the mu of *)
(* a c-ref signer whose input fits exactly for what was signed             *)
(* (c-lowram/sign.c 206-216 and 499-524, keccak_prng.c 63-73).             *)
(***************************************************************************)
LowramBinds ==
  (/\ BothDone
   /\ mu["signer"] # Refused
   /\ FitsBuffer(input["signer"])
   /\ Len(input["verifier"].m) < SizeSpace) =>
     (LowramMu(input["verifier"]) = mu["signer"] <=> Same)

(***************************************************************************)
(* All other implementations obtain the mu of a c-ref signer exactly where *)
(* they should.                                                            *)
(***************************************************************************)
OthersBind == ContractBinds /\ LowramBinds

(***************************************************************************)
(* "Compute mu = CRH(tr, 0, ctxlen, ctx, msg)" (c-ref/sign.c 142): signer  *)
(* and verifier agree on mu only for the same context and message.         *)
(***************************************************************************)
MuCoversMessage ==
  (BothDone /\ mu["signer"] = mu["verifier"] /\ mu["signer"] # Refused) => Same

=============================================================================
