------------------------------ MODULE MCMuHash -------------------------------
(* Bytes 0 and 1, so that a length byte can be mistaken for a byte of the   *)
(* text; contexts up to one byte beyond the limit; a buffer that holds tr,  *)
(* the two header bytes and two more: a message of three bytes does not fit *)
(* it, and its length does not fit the size that c-lowram passes on.        *)
EXTENDS MuHash

CONSTANT MaxText   \* bound of the model: bytes of a message

Texts(n) == UNION {[1 .. i -> 0 .. ByteSpace - 1] : i \in 0 .. n}

MCTr == <<1>>
MCContext == Texts(CtxLimit + 1)
MCMessage == Texts(2) \cup {[i \in 1 .. MaxText |-> 0], [i \in 1 .. MaxText |-> 1]}
MCChunk == Texts(2) \cup MCMessage \cup {MCTr}
MCChunkLen == [c \in MCChunk |-> Len(c)]
=============================================================================
