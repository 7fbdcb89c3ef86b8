CONSTANTS
    OperatorIds = {o1, o2}
    NoOperator = none
    OperatorCounts <- OneOrTwo
    Capacities <- One
    MaxWaits <- One
    MinDelay = 1
    MaxDelay = 1
    DefaultOperatorCount = 1
    MaxServiced = 2
SPECIFICATION Spec
INVARIANT NoAssertionFails
