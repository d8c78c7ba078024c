------------------------------- MODULE MCOnce -------------------------------
(* Model checking of Once: the constants come from the cfg file.           *)
EXTENDS Once
=============================================================================
