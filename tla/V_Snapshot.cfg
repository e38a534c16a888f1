\* A goal that starts while a clause is being stamped.
CONSTANTS
    Callers = {t1}
    Writers = {w}
    Clauses = {c1, c2}
    Nil = Nil
    NoThread = NoThread
    Initial = {c1}
    MaxGen = 3
SPECIFICATION Spec
CHECK_DEADLOCK FALSE
INVARIANT SnapshotExact
