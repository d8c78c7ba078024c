SPECIFICATION FairSpec
CONSTANTS
    t1 = t1
    t2 = t2
    t3 = t3
    Threads = {t1, t2, t3}
    NULL = NULL
    MaxDepth = 2
INVARIANT MutualExclusion
INVARIANT NoLostWakeup
INVARIANT OwnerRecorded
PROPERTY Drains
