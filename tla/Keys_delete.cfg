SPECIFICATION KSpec
CONSTANTS
    t1 = t1
    t2 = t2
    k1 = k1
    k2 = k2
    Threads = {t1, t2}
    Keys = {k1, k2}
    Iterations = 1
    NULL = NULL
INVARIANT LockedOnEntry
CHECK_DEADLOCK FALSE
