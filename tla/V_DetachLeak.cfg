\* thread_detach/1 after the thread has looked at info->detached.
CONSTANTS
    Slots = {s1}
    Nil = Nil
    TheGC = TheGC
    Joiners = {j}
    Detachers = {d}
    Scenarios = {{"detach"}}
    Outcomes = {"SUCCEEDED"}
    Cancellable = {}
    MaxThreads = 1
    MaxWait = 2
SPECIFICATION FairSpec
CHECK_DEADLOCK FALSE
PROPERTY DetachedReclaimed
