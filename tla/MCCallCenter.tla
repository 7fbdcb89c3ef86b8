----------------------------- MODULE MCCallCenter -----------------------------
(* Instances of CallCenter for TLC.                                        *)
EXTENDS CallCenter, TLC

Symmetry == Permutations(Calls) \cup Permutations(Phones)
            \cup Permutations(OperatorIds)
            \cup Permutations(IoThreads) \cup Permutations(UserThreads)

One == {1}
Two == {2}
ZeroOrOne == {0, 1}
OneOrTwo == {1, 2}
=============================================================================
