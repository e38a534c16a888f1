\* One thread calls a predicate that has two clauses while another makes two
\* changes to it.  The system may stop: the last generation is reached, no goal
\* is called and nothing is left to collect.
CONSTANTS
    Callers = {t1}
    Writers = {w}
    Clauses = {c1, c2, c3}
    Nil = Nil
    NoThread = NoThread
    Initial = {c1, c2}
    MaxGen = 3
SPECIFICATION FairSpec
CHECK_DEADLOCK FALSE
INVARIANT TypeOK
INVARIANT NoDangling
INVARIANT SnapshotKept
INVARIANT ChainSound
PROPERTY Reclaimed
PROPERTY AnsweredOnce
