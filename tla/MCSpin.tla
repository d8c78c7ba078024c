------------------------------- MODULE MCSpin -------------------------------
(* Model checking of Spin: the constants come from the cfg file.           *)
EXTENDS Spin
=============================================================================
