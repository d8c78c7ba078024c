----------------------------- MODULE MCCondVar -----------------------------
(* Model checking of CondVar: the constants come from the cfg files.       *)
EXTENDS CondVar
=============================================================================
