\* The handler of a signal to a sender that waits returns normally.
CONSTANTS
    r1 = r1
    r2 = r2
    w1 = w1
    w2 = w2
    d = d
    a = a
    b = b
    Readers = {r1, r2}
    Writers = {w1, w2}
    Destroyers = {d}
    NoThread = NoThread
    Terms = {a, b}
    Unbound = Unbound
    MaxSize = 1
    Scenarios <- SenderUnlocked
    Resuming = {w1, w2}
SPECIFICATION Spec
CHECK_DEADLOCK FALSE
INVARIANT MutexHeld
