----------------------------- MODULE MCMCSLock -----------------------------
(* Model checking of MCSLock: the constants come from the cfg files.       *)
EXTENDS MCSLock
=============================================================================
