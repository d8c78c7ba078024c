SPECIFICATION FairSpec
CONSTANTS
    t1 = t1
    t2 = t2
    t3 = t3
    t4 = t4
    Threads = {t1, t2, t3, t4}
    Proxy = proxy
    NULL = NULL
    Height = 3
INVARIANT NoGroupDestroyed
PROPERTY ImplementsBarrier
PROPERTY GroupLeaves
\* The barrier is destroyed.
CHECK_DEADLOCK FALSE
