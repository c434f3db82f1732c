------------------------- MODULE MCRecoveryHistory -------------------------
(* The adapter, its recovery history and its contract, with the inputs of  *)
(* MCInputs.                                                               *)
EXTENDS AdapterRefinement, RecoveryHistory, MCInputs
=============================================================================
