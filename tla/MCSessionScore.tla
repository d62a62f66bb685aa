--------------------------- MODULE MCSessionScore ---------------------------
\* Instances of SessionScore for TLC.
EXTENDS SessionScore, TLC

CONSTANTS s1, s2, r1, r2

OneSession == [r \in Requests |-> s1]

\* An answer costs 1, one with an error status more.
SmallCosts == [v \in Verdicts |-> IF v = "limited" THEN {2} ELSE {1}]

Symmetry == Permutations(Requests)

=============================================================================
