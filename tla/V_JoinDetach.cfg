\* thread_join/2 and thread_detach/1 of the same thread.
CONSTANTS
    Slots = {s1}
    Nil = Nil
    TheGC = TheGC
    Joiners = {j}
    Detachers = {d}
    Scenarios = {{"join", "detach"}}
    Outcomes = {"SUCCEEDED"}
    Cancellable = {}
    MaxThreads = 1
    MaxWait = 2
SPECIFICATION Spec
CHECK_DEADLOCK FALSE
INVARIANT FreedOnce
