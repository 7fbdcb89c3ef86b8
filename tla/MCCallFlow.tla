------------------------------ MODULE MCCallFlow ------------------------------
(* Instances of CallFlow for TLC.                                          *)
EXTENDS CallFlow, TLC

Symmetry == Permutations(Calls) \cup Permutations(Phones)

One == {1}
Two == {2}
OneOrTwo == {1, 2}
\* A missing key, no room at all, and one or two places.
ChangingCapacity == {Missing, 0, 1, 2}
=============================================================================
