\* Halting while threads are being started or do not react.
CONSTANTS
    Slots = {s1, s2}
    Nil = Nil
    TheGC = TheGC
    Joiners = {j}
    Detachers = {d}
    Scenarios = {{"halt", "crowd"}}
    Outcomes = {"SUCCEEDED"}
    Cancellable = {}
    MaxThreads = 2
    MaxWait = 2
SPECIFICATION Spec
CHECK_DEADLOCK FALSE
INVARIANT HaltStopsThreads
