CONSTANTS
    Creators = {c}
    Freers = {f}
    MaxThreads = 3
    MaxAllocs = 3
SPECIFICATION Spec
CHECK_DEADLOCK FALSE
INVARIANT HighestCovers
