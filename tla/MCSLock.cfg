SPECIFICATION FairSpec
CONSTANTS
    t1 = t1
    t2 = t2
    t3 = t3
    Threads = {t1, t2, t3}
    Proxy = proxy
    NULL = NULL
INVARIANT IInv
PROPERTY ImplementsFifo
PROPERTY EveryClaimServed
\* A null successor is an access violation that ends the process.
CHECK_DEADLOCK FALSE
