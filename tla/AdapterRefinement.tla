------------------------- MODULE AdapterRefinement -------------------------
(***************************************************************************)
(* The adapter implements RecoveryContract.  A recovering gate is still    *)
(* faulted to the outside, with its progress as the streak.                *)
(***************************************************************************)
EXTENDS AdapterProperties

Verdict ==
  [starting |-> "waiting", healthy |-> "trusted", transient_fault |-> "faulted",
   recovering |-> "faulted", latched_fault |-> "latched"][health]

Contract ==
  INSTANCE RecoveryContract
    WITH verdict <- Verdict, streak <- progress, credited <- last_health_observed_stamp

(* RecoveryRefined: whatever the order of callbacks, trust is lost, latched *)
(* and won back only in the steps RecoveryContract allows.                  *)
RecoveryRefined == Contract!Spec
=============================================================================
