CONSTANTS
    Calls = {c1, c2, c3}
    Servers = {s1, s2}
    NoServer = none
    Scale = 2
    Second = 2
    Bounds <- MCBounds
SYMMETRY Symmetry
SPECIFICATION Spec
INVARIANTS AveragesAreMeans IntervalsAddUp LossIsAShare LoadIsFeasible ReportIsInOrder SamplingGoesOn
CHECK_DEADLOCK FALSE
