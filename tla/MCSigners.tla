------------------------------ MODULE MCSigners ------------------------------
(* Two rows of every kind, two coefficients, two hints at most: a hint of   *)
(* four positions is too long, one of two fills the section, a shorter one  *)
(* leaves positions of an earlier attempt behind it.  Two attempts use up   *)
(* the four nonces, a third one wraps.  An attempt can fail several checks  *)
(* of which only the first is met: z in either row, w0 in the last row and  *)
(* c*t0 in the first.  A row has no hint, one at position 1, or two.        *)
EXTENDS SignerPair

MCOutcome ==
  {[zbad |-> zb, w0bad |-> wb, ct0bad |-> cb, h |-> hint,
    upto |-> [k \in KRow |-> IF k = 0 THEN Len(hint[0]) ELSE Len(hint[0]) + Len(hint[1])]] :
     zb \in {{}, {0}, {1}}, wb \in {{}, {1}}, cb \in {{}, {0}}, hint \in [KRow -> HintRow \ {<<0>>}]}
=============================================================================
