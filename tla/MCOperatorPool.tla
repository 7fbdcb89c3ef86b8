---------------------------- MODULE MCOperatorPool ----------------------------
(* Instances of OperatorPool for TLC.                                      *)
EXTENDS OperatorPool, TLC

Symmetry == Permutations(OperatorIds)

\* A missing key, zero (clamped to one) and three proper counts.
ChangingCounts == {Missing, 0, 1, 2, 3}
OneOrTwo == {1, 2}
One == {1}
=============================================================================
