SPECIFICATION FairSpec
CONSTANTS
    w1 = w1
    w2 = w2
    t1 = t1
    t2 = t2
    t3 = t3
    None = None
    Worker = {w1, w2}
    Task = {t1, t2, t3}
INVARIANTS
    TypeOK
    EachTaskOnce
    NoLostWakeup
    JoinedIsDrained
PROPERTIES
    AcceptedIsRun
    StopEnds
    ExecutorSpec
CHECK_DEADLOCK FALSE
