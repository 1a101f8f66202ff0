---------------------------- MODULE MCVerification ----------------------------
(***************************************************************************)
(* One signature through the row-by-row verifier, or the arithmetic of one *)
(* row of a verification, or one product of a challenge and a secret: a    *)
(* behaviour does one of them.  Two small fields stand in place of those   *)
(* of 8380417 and 3329.  The products of all pairs of monomials appear,    *)
(* and denser ones.                                                        *)
(***************************************************************************)
EXTENDS MCVerifiers, RowProduct

VARIABLE part

allVars == <<part, vars, productVars>>

Monomial(i, v) == [n \in 0..7 |-> IF n = i THEN v ELSE 0]
Dense == [n \in 0..7 |-> (3 * n * n + 5) % 17]
Small8 == [n \in 0..7 |-> ((3 * n * n + 1) % 9) - 4]
Challenges ==
  {[n \in 0..7 |-> IF n = i THEN 1 ELSE IF n = m THEN -1 ELSE 0] : i \in {0, 1, 7}, m \in {2, 5}}

TwoColumns(x, y) == [j \in 0..1 |-> IF j = 0 THEN x ELSE y]

MCRow ==
  {[A |-> TwoColumns(Monomial(i, 1), Dense), z |-> TwoColumns(Monomial(m, -1), Monomial(3, v)),
    c |-> Monomial(5, 1), t1 |-> Dense] : i \in 0..7, m \in 0..7, v \in {0, 2}}
  \cup {[A |-> TwoColumns(Dense, Monomial(1, 16)), z |-> TwoColumns(Dense, Monomial(7, 16)),
         c |-> chal, t1 |-> Monomial(i, 3)] : chal \in Challenges, i \in 0..7}
MCSecret ==
  {[c |-> chal, s |-> secret] :
     chal \in Challenges \cup {Monomial(i, -1) : i \in 0..7},
     secret \in {Monomial(i, 4) : i \in 0..7} \cup {Small8}}

VerifiersIdle ==
  /\ sig = [length |-> "short", ctx |-> "fits", z |-> [l \in LRow |-> 0],
            pos |-> [i \in Slot |-> 0], cnt |-> [r \in KRow |-> 0], right |-> [r \in KRow |-> {}]]
  /\ pc = "begin" /\ k_idx = 0 /\ l_idx = 0
  /\ wcomp = {} /\ hint_ones = <<>> /\ fed = <<>>
  /\ verdict = "none"

ProductIdle ==
  /\ impl = "c-lowram" /\ input = [c |-> Monomial(0, -1), s |-> Small8]
  /\ todo = Operands /\ hat = <<>>
  /\ a = [i \in Coeffs |-> 0]
  /\ loop = "none" /\ len = 0 /\ start = 0 /\ k = 0

VerificationInit ==
  \/ part = "verifier" /\ Init /\ ProductIdle
  \/ part = "product" /\ VerifiersIdle /\ ProductInit

VerificationNext ==
  /\ \/ part = "verifier" /\ Next /\ UNCHANGED productVars
     \/ part = "product" /\ ProductNext /\ UNCHANGED vars
  /\ UNCHANGED part

VerificationSpec == VerificationInit /\ [][VerificationNext]_allVars
=============================================================================
