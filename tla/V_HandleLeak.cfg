\* The handle is collected before the thread has started.
CONSTANTS
    Slots = {s1}
    Nil = Nil
    TheGC = TheGC
    Joiners = {j}
    Detachers = {d}
    Scenarios = {{"discard"}}
    Outcomes = {"SUCCEEDED"}
    Cancellable = {}
    MaxThreads = 1
    MaxWait = 2
SPECIFICATION FairSpec
CHECK_DEADLOCK FALSE
PROPERTY ForgottenReclaimed
