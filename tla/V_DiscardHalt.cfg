\* Halt joins a thread that has completed while its handle is discarded.
CONSTANTS
    Slots = {s1}
    Nil = Nil
    TheGC = TheGC
    Joiners = {j}
    Detachers = {d}
    Scenarios = {{"discard", "halt"}}
    Outcomes = {"EXITED"}
    Cancellable = {}
    MaxThreads = 1
    MaxWait = 2
SPECIFICATION Spec
CHECK_DEADLOCK FALSE
INVARIANT ListedIsFree
