CONSTANTS
    Calls = {c1, c2}
    NoCall = noCall
    Phones = {p1}
    OperatorIds = {o1}
    NoOperator = none
    OperatorCounts <- One
    Capacities <- Two
    MaxWaits <- One
    DefaultCapacity = 2
    MaxTime = 2
    MaxArrivalTime = 1
SPECIFICATION FlowSpec
INVARIANT CallsAreUnique
