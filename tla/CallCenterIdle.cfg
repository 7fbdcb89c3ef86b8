CONSTANTS
    Calls = {c1, c2, c3}
    NoCall = noCall
    Phones = {p1, p2}
    OperatorIds = {o1}
    NoOperator = none
    OperatorCounts <- One
    Capacities <- Two
    MaxWaits <- One
    IoThreads = {i1, i2}
    UserThreads = {u1, u2}
    DefaultOperatorCount = 1
    DefaultCapacity = 2
    MaxTime = 2
    MaxArrivalTime = 1
    MinDelay = 0
    MaxDelay = 1
SPECIFICATION Spec
INVARIANT NoIdleOperatorWhileWaiting
