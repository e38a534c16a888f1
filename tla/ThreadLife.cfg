\* Two threads one after the other in one slot, or at the same time in two;
\* each scenario says what others do to them meanwhile.  Joining and detaching
\* the same thread is not among them.  The system may stop: everybody is done.
CONSTANTS
    Slots = {s1, s2}
    Nil = Nil
    TheGC = TheGC
    Joiners = {j}
    Detachers = {d}
    Scenarios = {{"join", "discard", "nomem", "crowd"}, {"detach", "discard"},
                 {"join", "halt"}, {"detach", "halt"}, {"self_detach", "halt"}, {"halt", "crowd"}}
    Outcomes = {"SUCCEEDED", "EXCEPTION"}
    Cancellable = {1}
    MaxThreads = 2
    MaxWait = 2
SPECIFICATION FairSpec
CHECK_DEADLOCK FALSE
INVARIANT TypeOK
INVARIANT FreedOnce
INVARIANT ListedIsFree
PROPERTY DetachedFreesItself
PROPERTY JoinReturns
PROPERTY HaltReturns
