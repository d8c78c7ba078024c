------------------------------ MODULE MCThread ------------------------------
(* Model checking of Thread: the constants come from the cfg file.         *)
EXTENDS Thread
=============================================================================
