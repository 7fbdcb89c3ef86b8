CONSTANTS
    OperatorIds = {o1, o2, o3}
    NoOperator = none
    OperatorCounts <- ChangingCounts
    Capacities <- One
    MaxWaits <- One
    MinDelay = 1
    MaxDelay = 1
    DefaultOperatorCount = 2
    MaxServiced = 2
SPECIFICATION Spec
SYMMETRY Symmetry
INVARIANTS TypeOK OwnershipIsExclusive BusyMeansHandling
PROPERTY CountFollowsConfiguration
