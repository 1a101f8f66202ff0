----------------------------- MODULE MCPrngPair ------------------------------
(* Two pieces, of one and of two bytes, in a buffer of three bytes, and     *)
(* blocks of two bytes: an input can overflow the buffer by its first, its  *)
(* second or its third piece, and a request can end inside a block, at its  *)
(* end, and two blocks further on.                                          *)
EXTENDS PrngPair, TLC

CONSTANTS p1, p2

MCChunkLen == (p1 :> 1) @@ (p2 :> 2)
=============================================================================
