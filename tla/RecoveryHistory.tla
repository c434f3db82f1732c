-------------------------- MODULE RecoveryHistory --------------------------
(***************************************************************************)
(* AdapterNode with one history variable: fresh, the number of odometry    *)
(* frames accepted since the gate last fell to transient_fault, counted up *)
(* to RecoveryRequired.                                                    *)
(***************************************************************************)
EXTENDS AdapterProperties

VARIABLE fresh

AtMost(n, bound) == IF n < bound THEN n ELSE bound

HistoryInit == Init /\ fresh = RecoveryRequired

HistoryNext ==
  /\ Next
  /\ fresh' =
       IF health' = "transient_fault" THEN 0
       ELSE IF stamp_guard' # stamp_guard THEN AtMost(fresh + 1, RecoveryRequired)
       ELSE fresh

HistorySpec == HistoryInit /\ [][HistoryNext]_<<vars, fresh>>

(***************************************************************************)
(* RecoveryNeedsFreshFrames: README.md:428, "automatic recovery ... must   *)
(* first discard the bad message and then satisfy the contract again for   *)
(* recovery_consecutive_samples frames in a row".                          *)
(***************************************************************************)
RecoveryNeedsFreshFrames == health = "healthy" => fresh >= RecoveryRequired

(***************************************************************************)
(* RecoveryNeedsFreshFramesButOne: what the code does guarantee.  The      *)
(* frame accepted last before or during a fault elsewhere may be credited  *)
(* when that fault clears (adapter_node.cpp:790-795), hence one frame less.*)
(***************************************************************************)
RecoveryNeedsFreshFramesButOne == health = "healthy" => fresh >= RecoveryRequired - 1
=============================================================================
