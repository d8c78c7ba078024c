SPECIFICATION FairSpec
CONSTANTS
    t1 = t1
    t2 = t2
    t3 = t3
    Threads = {t1, t2, t3}
    NULL = NULL
    INT_MAX = 4
INVARIANT Exclusion
INVARIANT ReadersCounted
INVARIANT DestroySafe
PROPERTY WriterGetsOut
\* The lock is destroyed.
CHECK_DEADLOCK FALSE
