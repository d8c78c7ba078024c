SPECIFICATION KFairSpec
CONSTANTS
    t1 = t1
    t2 = t2
    k1 = k1
    k2 = k2
    Threads = {t1, t2}
    Keys = {k1, k2}
    Iterations = 1
    NULL = NULL
INVARIANT NextAssocValid
INVARIANT EndsClean
INVARIANT KeyValid
PROPERTY EndsReturn
\* Threads end, and pthread_key_delete may hang.
CHECK_DEADLOCK FALSE
