\* One creator: with two the list can hand out a structure that is in use.  The
\* system may stop: the creator has made all its calls.
CONSTANTS
    Creators = {c}
    Freers = {f1, f2}
    MaxThreads = 4
    MaxAllocs = 5
SPECIFICATION Spec
CHECK_DEADLOCK FALSE
INVARIANT TypeOK
INVARIANT NoneLost
PROPERTY ImplementsPool
