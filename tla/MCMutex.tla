------------------------------ MODULE MCMutex ------------------------------
(* Model checking of Mutex: the constants come from the cfg files.         *)
EXTENDS Mutex
=============================================================================
