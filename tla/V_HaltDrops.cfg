\* Halting while a thread comes to its end.
CONSTANTS
    Slots = {s1}
    Nil = Nil
    TheGC = TheGC
    Joiners = {j}
    Detachers = {d}
    Scenarios = {{"halt"}}
    Outcomes = {"SUCCEEDED"}
    Cancellable = {}
    MaxThreads = 1
    MaxWait = 2
SPECIFICATION Spec
CHECK_DEADLOCK FALSE
INVARIANT HaltHoldsData
