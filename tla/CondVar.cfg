SPECIFICATION FairSpec
CONSTANTS
    t1 = t1
    t2 = t2
    t3 = t3
    Threads = {t1, t2, t3}
    NULL = NULL
    GoneLimit = 2
    MaxExcess = 1
INVARIANT WaitersCounted
INVARIANT OneKey
INVARIANT BroadcastReachesAll
INVARIANT DestroySafe
PROPERTY GateReopens
\* The key of the gate is lost, or the condition variable is destroyed.
CHECK_DEADLOCK FALSE
