CONSTANTS
    Calls = {c1, c2, c3}
    NoCall = noCall
    Phones = {p1}
    OperatorIds = {o1}
    NoOperator = none
    OperatorCounts <- One
    Capacities <- Two
    MaxWaits <- One
    IoThreads = {i1}
    UserThreads = {u1}
    DefaultOperatorCount = 1
    DefaultCapacity = 2
    MaxTime = 2
    MaxArrivalTime = 1
    MinDelay = 1
    MaxDelay = 1
SPECIFICATION FairSpec
PROPERTY EveryCallIsAnswered
