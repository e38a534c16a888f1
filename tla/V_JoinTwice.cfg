\* Two calls of thread_join/2 for the same thread, and a thread created after it.
CONSTANTS
    Slots = {s1}
    Nil = Nil
    TheGC = TheGC
    Joiners = {j1, j2}
    Detachers = {d}
    Scenarios = {{"join"}}
    Outcomes = {"SUCCEEDED"}
    Cancellable = {}
    MaxThreads = 2
    MaxWait = 2
SPECIFICATION Spec
CHECK_DEADLOCK FALSE
INVARIANT FreedOnce
