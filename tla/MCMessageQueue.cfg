\* The scenarios of MCMessageQueue, with room for one message.  The handlers of
\* signals to senders raise an exception.  The system may stop: everybody is done.
CONSTANTS
    r1 = r1
    r2 = r2
    w1 = w1
    w2 = w2
    d = d
    a = a
    b = b
    Readers = {r1, r2}
    Writers = {w1, w2}
    Destroyers = {d}
    NoThread = NoThread
    Terms = {a, b}
    Unbound = Unbound
    MaxSize = 1
    Scenarios <- Passing
    Resuming = {r1, r2}
SPECIFICATION FairSpec
CHECK_DEADLOCK FALSE
INVARIANT TypeOK
INVARIANT MutexHeld
INVARIANT DeletedOnce
INVARIANT NoUseAfterFree
INVARIANT CountersExact
PROPERTY NobodyForgotten
PROPERTY DestroyedIsLeft
