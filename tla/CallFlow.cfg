CONSTANTS
    Calls = {c1, c2, c3}
    NoCall = noCall
    Phones = {p1, p2}
    OperatorIds = {o1}
    NoOperator = none
    OperatorCounts <- One
    Capacities <- ChangingCapacity
    MaxWaits <- OneOrTwo
    DefaultCapacity = 2
    MaxTime = 2
    MaxArrivalTime = 1
SPECIFICATION FlowSpec
SYMMETRY Symmetry
INVARIANTS FlowTypeOK IndexesAgreeUnlessTwins NeverCrashesUnlessTwins
PROPERTIES LeavesInTurn GrowsWithinCapacity
