----------------------------- MODULE MCAdapter -----------------------------
(* The adapter with the inputs of MCInputs, for the runs on its contract.  *)
EXTENDS AdapterRefinement, MCInputs
=============================================================================
