------------------------------ MODULE MCRWLock ------------------------------
(* Model checking of RWLock: the constants come from the cfg file.         *)
EXTENDS RWLock
=============================================================================
