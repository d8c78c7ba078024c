SPECIFICATION FairSpec
CONSTANTS
    s1 = s1
    c1 = c1
    c2 = c2
    Structs = {s1}
    Callers = {c1, c2}
    MaxX = 1
    PTHREAD_CANCELED = PTHREAD_CANCELED
    NULL = NULL
INVARIANT OneDestroyer
INVARIANT JoinSound
INVARIANT PendingSeen
PROPERTY Reclaimed
PROPERTY CancelActs
\* The reuse counter is bounded; a fault ends the model.
CHECK_DEADLOCK FALSE
