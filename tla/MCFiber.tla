------------------------------- MODULE MCFiber ------------------------------
(* FiberRuntime for TLC; the constants of the run are sets of model values. *)
EXTENDS FiberRuntime, TLC
=============================================================================
