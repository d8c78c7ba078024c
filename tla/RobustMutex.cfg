SPECIFICATION Spec
CONSTANTS
    t1 = t1
    t2 = t2
    t3 = t3
    Threads = {t1, t2, t3}
    NULL = NULL
    Kinds = {"NORMAL", "RECURSIVE", "ERRORCHECK"}
    Ops = {"lock", "trylock", "timedlock"}
    MaxDepth = 2
SYMMETRY ThreadSymmetry
INVARIANT MutualExclusion
INVARIANT DeathReported
INVARIANT NoLostWakeup
PROPERTY OnlyHeirGivesUp
\* Threads end.
CHECK_DEADLOCK FALSE
