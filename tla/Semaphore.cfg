SPECIFICATION FairSpec
CONSTANTS
    t1 = t1
    t2 = t2
    t3 = t3
    t4 = t4
    Threads = {t1, t2, t3, t4}
    SEM_VALUE_MAX = 2
    MaxCount = 3
INVARIANT Accounting
INVARIANT Conservation
PROPERTY PostsServeWaits
\* The semaphore is destroyed.
CHECK_DEADLOCK FALSE
