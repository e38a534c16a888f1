CONSTANTS
    Creators = {c1, c2}
    Freers = {f}
    MaxThreads = 4
    MaxAllocs = 4
SPECIFICATION Spec
CHECK_DEADLOCK FALSE
INVARIANT AllocFresh
