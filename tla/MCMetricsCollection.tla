-------------------------- MODULE MCMetricsCollection --------------------------
(* An instance of MetricsCollection for TLC.                               *)
EXTENDS MetricsCollection, TLC

\* Durations without samples, of three calls in turn and of two at a time;
\* samples without a clock; Start and Stop.
MCBounds ==
    {[time |-> 2, calls |-> 3, servers |-> 1, samples |-> 0, starts |-> 0],
     [time |-> 2, calls |-> 2, servers |-> 2, samples |-> 0, starts |-> 0],
     [time |-> 0, calls |-> 2, servers |-> 2, samples |-> 2, starts |-> 0],
     [time |-> 0, calls |-> 2, servers |-> 2, samples |-> 1, starts |-> 1]}

Symmetry == Permutations(Calls) \cup Permutations(Servers)
=============================================================================
