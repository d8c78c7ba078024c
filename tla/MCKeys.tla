------------------------------- MODULE MCKeys -------------------------------
(* Model checking of Keys: the constants come from the cfg file.           *)
EXTENDS Keys
=============================================================================
