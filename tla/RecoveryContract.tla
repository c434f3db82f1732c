-------------------------- MODULE RecoveryContract --------------------------
(***************************************************************************)
(* What README section 10 promises of the adapter's verdict, without its   *)
(* inputs: a verdict trusted again after a transient fault rests on        *)
(* RecoveryRequired credits in a row, each for a frame newer than any      *)
(* credited before, and a latched verdict is final.                        *)
(***************************************************************************)
EXTENDS Integers

CONSTANT RecoveryRequired

VARIABLES verdict, streak, credited

contractVars == <<verdict, streak, credited>>

Init == verdict = "waiting" /\ streak = 0 /\ credited = 0

Fault ==
  /\ verdict # "latched"
  /\ verdict' = "faulted" /\ streak' = 0
  /\ UNCHANGED credited

Latch ==
  /\ verdict' = "latched" /\ streak' = 0
  /\ UNCHANGED credited

(* A newer frame than every credited one is credited. *)
NewCredit == credited' \in Nat /\ credited' > credited

FirstTrust ==
  /\ verdict \in {"waiting", "trusted"}
  /\ verdict' = "trusted" /\ UNCHANGED streak
  /\ NewCredit

Recover ==
  /\ verdict = "faulted" /\ streak + 1 < RecoveryRequired
  /\ streak' = streak + 1 /\ UNCHANGED verdict
  /\ NewCredit

TrustAgain ==
  /\ verdict = "faulted" /\ streak + 1 = RecoveryRequired
  /\ verdict' = "trusted" /\ streak' = 0
  /\ NewCredit

Next == Fault \/ Latch \/ FirstTrust \/ Recover \/ TrustAgain

Spec == Init /\ [][Next]_contractVars
=============================================================================
