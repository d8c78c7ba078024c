--------------------------- MODULE MCRobustMutex ---------------------------
(* Model checking of RobustMutex: the constants come from the cfg files.   *)
EXTENDS RobustMutex, TLC

ThreadSymmetry == Permutations(Threads)
=============================================================================
