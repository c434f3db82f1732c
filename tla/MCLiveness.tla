----------------------------- MODULE MCLiveness -----------------------------
(* The sources of MCInputs, until they settle. *)
EXTENDS AdapterLiveness, MCInputs
=============================================================================
