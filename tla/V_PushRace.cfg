\* A generation that marking finds only after it has been chosen.
CONSTANTS
    Callers = {t1}
    Writers = {w}
    Clauses = {c1, c2, c3}
    Nil = Nil
    NoThread = NoThread
    Initial = {c1, c2, c3}
    MaxGen = 4
SPECIFICATION Spec
CHECK_DEADLOCK FALSE
INVARIANT NoneDangles
