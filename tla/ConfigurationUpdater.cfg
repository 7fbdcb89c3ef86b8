CONSTANTS
    Objects <- MCObjects
    Missing = missing
    Invalid = invalid
    Unreadable = unreadable
    Main = main
    IoThreads = {i1, i2}
    UserThreads = {u1}
    Threads <- MCThreads
    kDefaultUserThreadCount = 1
    MaxEdits = 1
SPECIFICATION FairSpec
INVARIANTS TypeOK CacheIsCurrent AnswersAreFresh UpdateIsAlwaysDue ListenersAreNotShared
PROPERTIES FileIsPickedUp LevelIsPutInForce StopEndsAll
