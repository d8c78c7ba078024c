----------------------------- MODULE MCBarrier -----------------------------
(* Model checking of Barrier: the constants come from the cfg files.       *)
EXTENDS Barrier
=============================================================================
