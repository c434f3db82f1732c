------------------------- MODULE AdapterProperties -------------------------
(***************************************************************************)
(* What the shadow adapter promises, over the state of AdapterNode.        *)
(***************************************************************************)
EXTENDS AdapterNode

Evidence == [count : Nat, valid : BOOLEAN]

ClockTypeOK == now \in Nat /\ ros \in Nat /\ timerDue \in Nat

OdometryTypeOK ==
  /\ odometry_sequence_guard \in Nat /\ stamp_guard \in Nat
  /\ recent_odometry_stamps \in Seq(Nat)
  /\ Len(recent_odometry_stamps) <= RateWindow
  /\ last_odometry_observed_at \in Nat \cup {Never}
  /\ last_odometry_received_at \in Nat \cup {Never}
  /\ last_odometry_valid \in BOOLEAN /\ received \in BOOLEAN
  /\ last_input_pose \in Seq(Int) /\ last_shadow_pose \in Seq(Int)

StatusTypeOK ==
  /\ status_sequence_guard \in Nat /\ status_stamp_guard \in Nat
  /\ last_status_received_at \in Nat \cup {Never}
  /\ last_status_valid \in BOOLEAN

DiagnosticTypeOK ==
  /\ diagnostic_sequence_guards \in [Required -> Nat]
  /\ diagnostic_level \in [Required -> Nat]
  /\ diagnostic_stamp \in [Required -> Nat]
  /\ diagnostic_received_at \in [Required -> Nat \cup {Never}]

PublisherTypeOK == odometry_publishers \in Evidence /\ status_publishers \in Evidence

GateTypeOK ==
  /\ health \in HealthStates
  /\ progress \in 0..(RecoveryRequired - 1)
  /\ progress # 0 => health = "recovering"
  /\ last_health_observed_stamp \in Nat

ReportTypeOK ==
  report \in [health : HealthStates \cup {"none"},
             level : {"none", "STALE", "ERROR", "WARN", "OK"}]

(* TypeOK: every member keeps its type, the rate window its length and the *)
(* progress of a recovery its range.  The reason is any one.                *)
TypeOK ==
  /\ ClockTypeOK
  /\ OdometryTypeOK
  /\ StatusTypeOK
  /\ DiagnosticTypeOK
  /\ PublisherTypeOK
  /\ GateTypeOK
  /\ ReportTypeOK

(***************************************************************************)
(* StandingEvidence: while the gate reports healthy or recovering, every   *)
(* piece of evidence that does not age is in place: one authentic          *)
(* publisher per topic, the latest odometry and tracking messages valid, a *)
(* full window without gap and at rate, streams within the skew, and an    *)
(* acceptable observation of each required diagnostic.  Each handler that  *)
(* takes a piece away must tell the gate, on every way out, including the  *)
(* one of OnOdometry (adapter_node.cpp:348-351) that does not call it.     *)
(***************************************************************************)
StandingEvidence ==
  health \in {"healthy", "recovering"} =>
    /\ odometry_publishers = [count |-> 1, valid |-> TRUE]
    /\ status_publishers = [count |-> 1, valid |-> TRUE]
    /\ last_odometry_valid /\ last_status_valid
    /\ Len(recent_odometry_stamps) = RateWindow
    /\ ~RateBelow(recent_odometry_stamps, MinRateSamples, MinRateTicks)
    /\ \A k \in 2..RateWindow :
         recent_odometry_stamps[k] - recent_odometry_stamps[k-1] <= MaxStampGap
    /\ StampDistance(stamp_guard, status_stamp_guard) <= MaxSkew
    /\ \A i \in Required : /\ diagnostic_received_at[i] # Never
                           /\ diagnostic_level[i] <= MaximumLevel[i]

(***************************************************************************)
(* GuardsOrdered: the stamp guards stay in step, so that no Commit and no  *)
(* ComputeStampWindowMetrics ever meets a stamp that does not increase.    *)
(* Either would throw out of the callback and end the process (main.cpp).  *)
(***************************************************************************)
GuardsOrdered ==
  /\ last_health_observed_stamp <= stamp_guard
  /\ stamp_guard <= odometry_sequence_guard
  /\ status_stamp_guard <= status_sequence_guard
  /\ \A k \in 2..Len(recent_odometry_stamps) :
       recent_odometry_stamps[k-1] < recent_odometry_stamps[k]
  /\ \A k \in 1..Len(recent_odometry_stamps) :
       0 < recent_odometry_stamps[k] /\ recent_odometry_stamps[k] <= odometry_sequence_guard

(***************************************************************************)
(* ObservationsVetted: an observation in upstream_diagnostics_ is of an    *)
(* acceptable level and comes from the newest message committed for its    *)
(* name, however many names share a message and whichever of them fails.   *)
(***************************************************************************)
ObservationsVetted ==
  \A i \in Required :
    diagnostic_received_at[i] # Never =>
      /\ diagnostic_level[i] <= MaximumLevel[i]
      /\ diagnostic_stamp[i] = diagnostic_sequence_guards[i]

(***************************************************************************)
(* LatchedIsFinal: README section 10, item 6: a latched fault needs a      *)
(* restart.  No handler and no later good sample leaves it, credits a      *)
(* stamp or counts recovery progress once it is entered.                   *)
(***************************************************************************)
LatchedStays ==
  health = "latched_fault" =>
    /\ health' = "latched_fault"
    /\ progress' = 0
    /\ last_health_observed_stamp' = last_health_observed_stamp

LatchedIsFinal == [][LatchedStays]_vars

(***************************************************************************)
(* ReasonsFit: README section 10, item 2, wants a machine-readable reason. *)
(* Although a latched gate takes the reason of every later latching fault  *)
(* (gate.cpp:77) and transient faults go on being reported to it, the      *)
(* reason is always one of the state it goes with: one that needs a        *)
(* restart exactly when the gate is latched.                               *)
(***************************************************************************)
LatchingReasons ==
  LatchedIssues \cup
  {"NONMONOTONIC_TIMESTAMP", "LOCALIZATION_EPOCH_JUMP_DETECTED",
   "SHADOW_POSE_TRANSFORM_FAILED", "TRACKING_STATUS_NONMONOTONIC_TIMESTAMP",
   "DUPLICATE_REQUIRED_DIAGNOSTIC_STATUS", "DIAGNOSTIC_SOURCE_GID_NOT_UNIQUE",
   "DIAGNOSTIC_PUBLISHER_NOT_UNIQUE", "DIAGNOSTIC_PUBLISHER_IDENTITY_MISMATCH",
   "UPSTREAM_DIAGNOSTIC_NONMONOTONIC_TIMESTAMP",
   "UPSTREAM_DIAGNOSTIC_DUPLICATE_VALUE_KEY",
   "ODOMETRY_PUBLISHER_NOT_UNIQUE", "ODOMETRY_PUBLISHER_IDENTITY_MISMATCH",
   "TRACKING_STATUS_PUBLISHER_NOT_UNIQUE",
   "TRACKING_STATUS_PUBLISHER_IDENTITY_MISMATCH"}

ReasonsFit ==
  /\ health = "latched_fault" <=> reason \in LatchingReasons
  /\ health = "recovering" <=> reason = "RECOVERY_IN_PROGRESS"
  /\ health = "healthy" <=> reason = "INPUT_HEALTHY"
  /\ health = "starting" => reason \in WaitingReasons \cup {"WAITING_FOR_INPUT"}

(***************************************************************************)
(* HealthyStalenessBounded: freshness is only re-checked when a callback   *)
(* runs.  Whatever stops arriving, a healthy state outlives the evidence's *)
(* stale threshold by at most a diagnostic period and the executor's lag.  *)
(***************************************************************************)
CheckLag == DiagnosticPeriod + TimerSlack

HealthyStalenessBounded ==
  health = "healthy" =>
    /\ now - last_odometry_received_at <= OdometryStaleAfter + CheckLag
    /\ now - last_status_received_at <= TrackingStaleAfter + CheckLag
    /\ \A i \in Required :
         now - diagnostic_received_at[i] <= DiagnosticStaleAfter + CheckLag

(* The inductive form of the bound: the next check is at most a period     *)
(* away, and due no later than a period after the evidence goes stale.     *)
TimerOnTime == now <= timerDue + TimerSlack /\ timerDue <= now + DiagnosticPeriod

StalenessChecked ==
  health \in {"healthy", "recovering"} =>
    /\ timerDue - last_odometry_received_at <= OdometryStaleAfter + DiagnosticPeriod
    /\ timerDue - last_status_received_at <= TrackingStaleAfter + DiagnosticPeriod
    /\ \A i \in Required :
         timerDue - diagnostic_received_at[i] <= DiagnosticStaleAfter + DiagnosticPeriod

StartupChecked ==
  health = "starting" =>
    /\ timerDue <= StartupTimeout + DiagnosticPeriod
    /\ last_health_observed_stamp = NoStamp

(***************************************************************************)
(* SourceAgeBounded: README section 9 wants an expired source stamp        *)
(* refused.  While ROS time is not stepped, the frame and the status a     *)
(* healthy state rests on were sampled at most the clock residual before   *)
(* they were received, however long they queued.                           *)
(***************************************************************************)
SourceAgeBounded ==
  health = "healthy" =>
    /\ ros - stamp_guard <= MaxClockResidual + OdometryStaleAfter + CheckLag
    /\ ros - status_stamp_guard <= MaxClockResidual + TrackingStaleAfter + CheckLag

(***************************************************************************)
(* StartupEnds: the starting state, whose timeout only the diagnostic      *)
(* timer looks at (adapter_node.cpp:825-835), is left for a fault or for   *)
(* healthy within a check lag of startup_timeout_sec.                      *)
(***************************************************************************)
StartupEnds == health = "starting" => now <= StartupTimeout + CheckLag

(***************************************************************************)
(* HealthyReportIsCurrent: a healthy report is never a leftover of an      *)
(* earlier judgement: at the instant it is published no evidence is stale  *)
(* and the publishers were just found to be the expected ones.             *)
(***************************************************************************)
HealthyReportIsCurrent ==
  [][(timerDue' # timerDue /\ report'.health = "healthy") =>
       /\ now - last_odometry_received_at <= OdometryStaleAfter
       /\ now - last_status_received_at <= TrackingStaleAfter
       /\ \A i \in Required : now - diagnostic_received_at[i] <= DiagnosticStaleAfter
       /\ odometry_publishers'.valid /\ status_publishers'.valid]_vars

(***************************************************************************)
(* GuardsNotPoisoned: while ROS time is not stepped, no guard runs ahead   *)
(* of it by more than the clock residual, so that a frame from a wrong     *)
(* clock cannot make the good frames after it nonmonotonic.                *)
(***************************************************************************)
GuardsNotPoisoned ==
  /\ odometry_sequence_guard <= ros + MaxClockResidual
  /\ status_sequence_guard <= ros + MaxClockResidual
  /\ \A i \in Required : diagnostic_sequence_guards[i] <= ros + MaxClockResidual

(***************************************************************************)
(* AcceptedPosesContinuous: two poses accepted one after the other are     *)
(* within the step bound, even when frames between them were refused for   *)
(* their timing or arrived while the window filled (adapter_node.cpp:335). *)
(***************************************************************************)
AcceptedPosesContinuous ==
  [][(last_input_pose # NoPose /\ last_input_pose' # last_input_pose) =>
       StampDistance(last_input_pose[1], last_input_pose'[1]) <= MaxPoseStep]_vars

(***************************************************************************)
(* ShadowPoseCurrent: with an approved extrinsic, the shadow pose always   *)
(* belongs to the last accepted input pose, unless the node has latched.   *)
(***************************************************************************)
ShadowPoseCurrent ==
  ("extrinsic" \in Approvals /\ last_input_pose # NoPose /\ health # "latched_fault") =>
    last_shadow_pose = <<last_input_pose[1] - CameraOffset>>
=============================================================================
