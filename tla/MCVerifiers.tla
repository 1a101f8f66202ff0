----------------------------- MODULE MCVerifiers -----------------------------
(* Two rows, three coefficients and two position bytes: rows of none, one   *)
(* and two hints, end bytes beyond the section and out of order, positions  *)
(* repeated or out of order, and norms on both sides of the bound and at    *)
(* it.                                                                      *)
EXTENDS Verifiers, TLC

MCHint ==
  {0 :> a @@ 1 :> b : <<a, b>> \in
     {<<{}, {}>>, <<{1}, {}>>, <<{}, {2}>>, <<{0}, {0}>>, <<{2}, {1}>>, <<{0, 2}, {}>>, <<{}, {0, 1}>>}}
=============================================================================
