CONSTANTS
    Calls = {c1, c2, c3}
    Serviced = {c1}
    FileNames = {f1, f2}
    Sizes = {0, 2}
    Missing = missing
    kDefaultFileName_ = f1
    kDefaultMaxSize_ = 9
    MaxChanges = 1
SYMMETRY Symmetry
SPECIFICATION Spec
INVARIANTS RecordedOnce RacesNeedAChange SinksAreReleased
CHECK_DEADLOCK FALSE
