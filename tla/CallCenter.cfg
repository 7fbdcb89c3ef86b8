CONSTANTS
    Calls = {c1, c2, c3}
    NoCall = noCall
    Phones = {p1, p2}
    OperatorIds = {o1, o2}
    NoOperator = none
    OperatorCounts <- OneOrTwo
    Capacities <- Two
    MaxWaits <- One
    IoThreads = {i1, i2}
    UserThreads = {u1}
    DefaultOperatorCount = 1
    DefaultCapacity = 2
    MaxTime = 1
    MaxArrivalTime = 0
    MinDelay = 0
    MaxDelay = 1
SPECIFICATION Spec
SYMMETRY Symmetry
INVARIANTS TypeOK NeverCrashes TimeoutIsScheduled MetricsAreExact JournalIsExact ServedOrRejected
PROPERTY ImplementsOperatorPool
