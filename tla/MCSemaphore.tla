---------------------------- MODULE MCSemaphore ----------------------------
(* Model checking of Semaphore: the constants come from the cfg files.     *)
EXTENDS Semaphore
=============================================================================
