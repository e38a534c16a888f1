\* The order of messages, with room for two of them and more to be sent.
CONSTANTS
    r1 = r1
    r2 = r2
    w1 = w1
    w2 = w2
    d = d
    a = a
    b = b
    Readers = {r1, r2}
    Writers = {w1, w2}
    Destroyers = {d}
    NoThread = NoThread
    Terms = {a, b}
    Unbound = Unbound
    MaxSize = 2
    Scenarios <- Ordering
    Resuming = {r1, r2}
SPECIFICATION Spec
CHECK_DEADLOCK FALSE
INVARIANT SeenRejected
PROPERTY ImplementsMailbox
