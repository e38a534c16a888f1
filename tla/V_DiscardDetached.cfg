\* A thread detaches itself when its handle has been collected.
CONSTANTS
    Slots = {s1}
    Nil = Nil
    TheGC = TheGC
    Joiners = {j}
    Detachers = {d}
    Scenarios = {{"self_detach", "discard"}}
    Outcomes = {"SUCCEEDED"}
    Cancellable = {}
    MaxThreads = 1
    MaxWait = 2
SPECIFICATION Spec
CHECK_DEADLOCK FALSE
INVARIANT FreedOnce
