SPECIFICATION OFairSpec
CONSTANTS
    t1 = t1
    t2 = t2
    t3 = t3
    t4 = t4
    Threads = {t1, t2, t3, t4}
    NULL = NULL
INVARIANT RunsOnce
INVARIANT ReturnsInitialized
PROPERTY EveryCallEnds
\* All threads may have been canceled.
CHECK_DEADLOCK FALSE
