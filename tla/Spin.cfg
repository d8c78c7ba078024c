SPECIFICATION SSpec
CONSTANTS
    t1 = t1
    t2 = t2
    t3 = t3
    o1 = o1
    o2 = o2
    Threads = {t1, t2, t3}
    Objects = {o1, o2}
    INITIALIZER = INITIALIZER
    NULL = NULL
INVARIANT Exclusion
INVARIANT InitHolds
\* A fault ends the model.
CHECK_DEADLOCK FALSE
