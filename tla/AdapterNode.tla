---------------------------- MODULE AdapterNode ----------------------------
(***************************************************************************)
(* CuvslamLocalizationAdapter (cuvslam_localization_adapter/src/           *)
(* adapter_node.cpp), the shadow-mode ROS node that judges cuVSLAM's       *)
(* odometry, its tracking status, the required upstream diagnostics and    *)
(* the publishers of those topics, and reports one verdict on /diagnostics.*)
(*                                                                         *)
(* main.cpp spins the node on one thread and every callback holds mutex_,  *)
(* so a callback is one step; what interleaves is their order, the age of  *)
(* what they bring and the two clocks.  A handler with several ways out is *)
(* one action per way out.  Time is in ticks: now is the steady clock      *)
(* since started_at_, ros is get_clock()->now().                           *)
(***************************************************************************)
EXTENDS HealthGate, Validation, FiniteSets

CONSTANTS
  \* The health section of the contract; periods and thresholds in ticks.
  DiagnosticPeriod, OdometryStaleAfter, TrackingStaleAfter,
  DiagnosticStaleAfter, StartupTimeout, RateWindow, MinRateSamples,
  MinRateTicks, MaxStampGap, MaxReceiveGap, MaxClockResidual, MaxSkew,
  MaxPoseStep,
  \* The rest of the contract.
  NumRequired,           \* how many required_diagnostics there are
  MaximumLevel,          \* required.maximum_level, per required diagnostic
  ExpectedPublisher,     \* required.expected_publisher, likewise
  ExpectedOdometryPublisher, ExpectedStatusPublisher,
  Approvals,             \* the approved parts among extrinsic, twist, covariance
  CameraOffset,          \* the extrinsic T[base,camera], on a line
  \* What the other nodes may do.
  Nodes, Poses, Untransformable, OdometryLags, OdometryDefects,
  StatusLags, StatusKinds, DiagnosticLags, DiagnosticStatuses, DiagnosticGids,
  PublisherLists, DiagnosticEndpoints, ClockSteps,
  \* Bounds of the exploration.
  RosStart, MaxTime, MaxRos, TimerSlack

Required == 1..NumRequired

(* ParseHealth refuses a contract that violates one of these. *)
ASSUME HealthContract ==
  /\ {DiagnosticPeriod, OdometryStaleAfter, TrackingStaleAfter,
      DiagnosticStaleAfter, StartupTimeout, MinRateSamples, MinRateTicks,
      MaxStampGap, MaxReceiveGap, MaxClockResidual, MaxSkew, MaxPoseStep}
        \subseteq Nat \ {0}
  /\ \A stale \in {OdometryStaleAfter, TrackingStaleAfter, DiagnosticStaleAfter} :
       DiagnosticPeriod < stale /\ stale < StartupTimeout
  /\ MaxStampGap < OdometryStaleAfter /\ MaxReceiveGap < OdometryStaleAfter
  /\ MaxSkew < TrackingStaleAfter
  /\ RateWindow \in Nat \ {0, 1}

ASSUME RequiredContract ==
  /\ NumRequired \in Nat \ {0}
  /\ MaximumLevel \in [Required -> Nat]
  /\ DOMAIN ExpectedPublisher = Required
  /\ Approvals \subseteq DOMAIN UnapprovedReason
  /\ CameraOffset \in Int

(* The environment sends integers for stamps and positions and sequences   *)
(* of statuses; the executor lags behind the timer by less than a period   *)
(* (TimerSlack).                                                           *)
ASSUME EnvironmentAssumption ==
  /\ Poses \subseteq Int
  /\ OdometryLags \subseteq Int /\ StatusLags \subseteq Int
  /\ DiagnosticLags \subseteq Int /\ ClockSteps \subseteq Int
  /\ DiagnosticStatuses \subseteq
       Seq([name : Nat, level : Nat, flaws : SUBSET {"hardware_id", "duplicate_key", "value"}])
  /\ PublisherLists \subseteq Seq(Nodes)
  /\ OdometryDefects \subseteq SUBSET {IssueOrder[n] : n \in DOMAIN IssueOrder}
  /\ RosStart \in Nat /\ MaxTime \in Nat /\ MaxRos \in Nat
  /\ TimerSlack \in Nat /\ TimerSlack < DiagnosticPeriod

VARIABLES
  now, ros, timerDue,
  odometry_sequence_guard, stamp_guard, recent_odometry_stamps,
  last_odometry_observed_at, last_odometry_received_at, last_odometry_valid,
  received, last_input_pose, last_shadow_pose,
  status_sequence_guard, status_stamp_guard, last_status_received_at,
  last_status_valid,
  diagnostic_sequence_guards, diagnostic_level, diagnostic_stamp,
  diagnostic_received_at,
  odometry_publishers, status_publishers,
  last_health_observed_stamp,
  report

clockVars == <<now, ros>>

(* Odometry the sequence guard has admitted, and odometry fully accepted.  *)
sequenceVars ==
  <<odometry_sequence_guard, recent_odometry_stamps, last_odometry_observed_at>>
acceptedVars == <<stamp_guard, last_input_pose, last_odometry_received_at>>
odometryVars ==
  <<sequenceVars, acceptedVars, last_odometry_valid, received, last_shadow_pose>>

statusVars ==
  <<status_sequence_guard, status_stamp_guard, last_status_received_at,
    last_status_valid>>

(* upstream_diagnostics_ is the functions diagnostic_level, _stamp and     *)
(* _received_at; a name the map lacks has the time Never.                  *)
observationVars == <<diagnostic_level, diagnostic_stamp, diagnostic_received_at>>
diagnosticVars == <<diagnostic_sequence_guards, observationVars>>

publisherVars == <<odometry_publishers, status_publishers>>
timerVars == <<timerDue, publisherVars, report>>
healthVars == <<gateVars, last_health_observed_stamp>>

vars == <<clockVars, odometryVars, statusVars, diagnosticVars, timerVars, healthVars>>

Never == -1
NoPose == <<>>
NoReport == [health |-> "none", level |-> "none"]

Init ==
  /\ now = 0 /\ ros = RosStart /\ timerDue = DiagnosticPeriod
  /\ odometry_sequence_guard = NoStamp /\ stamp_guard = NoStamp
  /\ recent_odometry_stamps = <<>>
  /\ last_odometry_observed_at = Never /\ last_odometry_received_at = Never
  /\ last_odometry_valid = FALSE /\ received = FALSE
  /\ last_input_pose = NoPose /\ last_shadow_pose = NoPose
  /\ status_sequence_guard = NoStamp /\ status_stamp_guard = NoStamp
  /\ last_status_received_at = Never /\ last_status_valid = FALSE
  /\ diagnostic_sequence_guards = [i \in Required |-> NoStamp]
  /\ diagnostic_level = [i \in Required |-> 0]
  /\ diagnostic_stamp = [i \in Required |-> NoStamp]
  /\ diagnostic_received_at = [i \in Required |-> Never]
  /\ odometry_publishers = [count |-> 0, valid |-> FALSE]
  /\ status_publishers = [count |-> 0, valid |-> FALSE]
  /\ GateInit
  /\ last_health_observed_stamp = NoStamp
  /\ report = NoReport

-----------------------------------------------------------------------------
(***************************************************************************)
(* Health evidence.                                                        *)
(***************************************************************************)

(* Slips: the sign of the residual lost, one way and the other. *)
ClockDomainNotBehind(stamp) ==
  ros > 0 /\ stamp > 0 /\ ros - stamp <= MaxClockResidual

ClockDomainNotAhead(stamp) ==
  ros > 0 /\ stamp > 0 /\ stamp - ros <= MaxClockResidual

(* ClockDomainMatches. *)
ClockDomainMatches(stamp) ==
  ros > 0 /\ stamp > 0 /\ StampDistance(ros, stamp) <= MaxClockResidual

(* The stamp of a message sent lag ticks ago; before the epoch, none.      *)
StampSent(lag) == IF ros > lag THEN ros - lag ELSE NoStamp

RateKnown(window) == Len(window) = RateWindow

(* Slip: an observation never ages. *)
MissingDiagnosticsAgeless ==
  {i \in Required :
     diagnostic_received_at[i] = Never \/ diagnostic_level[i] > MaximumLevel[i]}

MissingDiagnostics ==
  {i \in Required :
     \/ diagnostic_received_at[i] = Never
     \/ diagnostic_level[i] > MaximumLevel[i]
     \/ now - diagnostic_received_at[i] > DiagnosticStaleAfter}

DiagnosticReason(i) ==
  IF diagnostic_received_at[i] = Never THEN "WAITING_FOR_UPSTREAM_DIAGNOSTIC"
  ELSE IF diagnostic_level[i] > MaximumLevel[i] THEN "UPSTREAM_DIAGNOSTIC_NOT_OK"
  ELSE "UPSTREAM_DIAGNOSTIC_STALE"

(* InputsAreHealthyLocked before any odometry was accepted. *)
NoOdometryReason ==
  IF recent_odometry_stamps # <<>> /\ ~RateKnown(recent_odometry_stamps)
    THEN "WAITING_FOR_ODOMETRY_RATE_WINDOW"
  ELSE IF received /\ ~last_odometry_valid THEN "ODOMETRY_INVALID"
  ELSE "WAITING_FOR_ODOMETRY"

(* InputsAreHealthyLocked: the reason of the first check that fails, or    *)
(* INPUT_HEALTHY.                                                          *)
InputsReason ==
  IF odometry_publishers.count = 0 THEN "WAITING_FOR_ODOMETRY_PUBLISHER"
  ELSE IF odometry_publishers.count # 1 \/ ~odometry_publishers.valid
    THEN "ODOMETRY_PUBLISHER_AUTHORITY_INVALID"
  ELSE IF status_publishers.count = 0 THEN "WAITING_FOR_TRACKING_STATUS_PUBLISHER"
  ELSE IF status_publishers.count # 1 \/ ~status_publishers.valid
    THEN "TRACKING_STATUS_PUBLISHER_AUTHORITY_INVALID"
  ELSE IF last_odometry_received_at = Never THEN NoOdometryReason
  ELSE IF last_status_received_at = Never THEN "WAITING_FOR_TRACKING_STATUS"
  ELSE IF ~last_odometry_valid THEN "ODOMETRY_INVALID"
  ELSE IF ~last_status_valid THEN "TRACKING_STATE_NOT_ACCEPTED"
  ELSE IF ~RateKnown(recent_odometry_stamps) THEN "WAITING_FOR_ODOMETRY_RATE_WINDOW"
  ELSE IF RateBelow(recent_odometry_stamps, MinRateSamples, MinRateTicks)
    THEN "ODOMETRY_RATE_TOO_LOW"
  ELSE IF GapExceeds(recent_odometry_stamps, MaxStampGap)
    THEN "ODOMETRY_STAMP_GAP_EXCEEDED"
  ELSE IF stamp_guard = NoStamp \/ status_stamp_guard = NoStamp
    THEN "WAITING_FOR_CROSS_STREAM_TIMESTAMPS"
  ELSE IF StampDistance(stamp_guard, status_stamp_guard) > MaxSkew
    THEN "ODOMETRY_STATUS_SKEW_EXCEEDED"
  ELSE IF now - last_odometry_received_at > OdometryStaleAfter THEN "ODOMETRY_STALE"
  ELSE IF now - last_status_received_at > TrackingStaleAfter
    THEN "TRACKING_STATUS_STALE"
  ELSE IF MissingDiagnostics # {} THEN DiagnosticReason(Min(MissingDiagnostics))
  ELSE "INPUT_HEALTHY"

WaitingReasons ==
  {"WAITING_FOR_ODOMETRY_PUBLISHER", "WAITING_FOR_TRACKING_STATUS_PUBLISHER",
   "WAITING_FOR_ODOMETRY_RATE_WINDOW", "WAITING_FOR_ODOMETRY",
   "WAITING_FOR_TRACKING_STATUS", "WAITING_FOR_CROSS_STREAM_TIMESTAMPS",
   "WAITING_FOR_UPSTREAM_DIAGNOSTIC"}

(* Slip: every healthy callback is credited. *)
NeverCredited(stamp) == FALSE

AlreadyCredited(stamp) == stamp = last_health_observed_stamp

(* MaybeAdvanceHealthLocked, over the evidence the handler leaves behind:  *)
(* every accepted odometry stamp is credited to the gate at most once.     *)
MaybeAdvanceHealth ==
  \/ /\ health = "latched_fault"
     /\ UNCHANGED healthVars
  \/ /\ health # "latched_fault"
     /\ InputsReason' # "INPUT_HEALTHY"
     /\ IF health = "starting" THEN UNCHANGED gateVars ELSE MarkTransient(InputsReason')
     /\ UNCHANGED last_health_observed_stamp
  \/ /\ health # "latched_fault"
     /\ InputsReason' = "INPUT_HEALTHY"
     /\ AlreadyCredited(stamp_guard')
     /\ UNCHANGED healthVars
  \/ /\ health # "latched_fault"
     /\ InputsReason' = "INPUT_HEALTHY"
     /\ ~AlreadyCredited(stamp_guard')
     /\ ObserveHealthySample
     /\ last_health_observed_stamp' = stamp_guard'

(* Slip: a fault during recovery goes unnoticed. *)
TransientUnlessRecovering(why) ==
  IF health = "recovering" THEN UNCHANGED healthVars
  ELSE MarkTransient(why) /\ UNCHANGED last_health_observed_stamp

Transient(why) == MarkTransient(why) /\ UNCHANGED last_health_observed_stamp
Latched(why) == MarkLatched(why) /\ UNCHANGED last_health_observed_stamp

-----------------------------------------------------------------------------
(***************************************************************************)
(* OnOdometry.                                                             *)
(***************************************************************************)

OdometrySamples ==
  {[stamp |-> StampSent(lag), pose |-> p, defects |-> d] :
     lag \in OdometryLags, p \in Poses, d \in OdometryDefects}

OdometryOthersUnchanged == UNCHANGED <<clockVars, statusVars, diagnosticVars, timerVars>>

(* A frame that ends here is remembered as the latest, invalid one. *)
RejectOdometry ==
  /\ received' = TRUE
  /\ last_odometry_valid' = FALSE
  /\ OdometryOthersUnchanged

(* A frame whose stamp the sequence guard did not take. *)
DropOdometry ==
  /\ RejectOdometry
  /\ UNCHANGED <<sequenceVars, acceptedVars, last_shadow_pose>>

OdometryInvalid(sample) ==
  LET issues == ValidateOdometrySample(sample)
  IN  /\ issues # {}
      /\ \/ issues \cap LatchedIssues # {} /\ Latched(FirstIssue(issues \cap LatchedIssues))
         \/ issues \cap LatchedIssues = {} /\ Transient(FirstIssue(issues))
      /\ DropOdometry

OdometryOutOfOrder(sample) ==
  LET order == Classify(odometry_sequence_guard, sample.stamp)
  IN  /\ ValidateOdometrySample(sample) = {}
      /\ \/ order = "duplicate" /\ Transient("DUPLICATE_TIMESTAMP")
         \/ order = "nonmonotonic" /\ Latched("NONMONOTONIC_TIMESTAMP")
      /\ DropOdometry

InSequence(sample) ==
  /\ ValidateOdometrySample(sample) = {}
  /\ Classify(odometry_sequence_guard, sample.stamp) = "accept"

OdometryClockMismatch(sample) ==
  /\ InSequence(sample)
  /\ ~ClockDomainMatches(sample.stamp)
  /\ Transient("ODOMETRY_CLOCK_DOMAIN_MISMATCH")
  /\ DropOdometry

(* Slip: the oldest stamp is not dropped. *)
SlideGrowing(window, stamp) == Append(window, stamp)

(* Slip: a full window is measured once and begun anew. *)
SlideRestarting(window, stamp) ==
  IF Len(window) < RateWindow THEN Append(window, stamp) ELSE <<stamp>>

(* UpdateOdometryRateLocked keeps the last RateWindow stamps. *)
Slide(window, stamp) ==
  IF Len(window) < RateWindow THEN Append(window, stamp)
  ELSE Append(Tail(window), stamp)

StampGapExceeded(stamp) ==
  /\ odometry_sequence_guard # NoStamp
  /\ StampDistance(stamp, odometry_sequence_guard) > MaxStampGap

ReceiveGapExceeded ==
  /\ last_odometry_observed_at # Never
  /\ now - last_odometry_observed_at > MaxReceiveGap

(* Slip: only a pose that follows a valid frame is compared. *)
PoseJumpsIfValid(pose) ==
  /\ last_input_pose # NoPose /\ last_odometry_valid
  /\ StampDistance(last_input_pose[1], pose) > MaxPoseStep

(* MeasurePoseStep from the last accepted pose, on a line. *)
PoseJumps(pose) ==
  last_input_pose # NoPose /\ StampDistance(last_input_pose[1], pose) > MaxPoseStep

(* What the timing checks hold against a frame, the full window included.  *)
TimingReason(stamp, window) ==
  IF StampGapExceeded(stamp) \/ GapExceeds(window, MaxStampGap)
    THEN "ODOMETRY_STAMP_GAP_EXCEEDED"
  ELSE IF ReceiveGapExceeded THEN "ODOMETRY_RECEIVE_GAP_EXCEEDED"
  ELSE IF RateBelow(window, MinRateSamples, MinRateTicks) THEN "ODOMETRY_RATE_TOO_LOW"
  ELSE "TIMELY"

(* From here on the sequence guard, the window and the receive time have   *)
(* moved on, whatever becomes of the frame.                                *)
CommitSequence(sample) ==
  /\ InSequence(sample)
  /\ ClockDomainMatches(sample.stamp)
  /\ odometry_sequence_guard' = sample.stamp
  /\ recent_odometry_stamps' = Slide(recent_odometry_stamps, sample.stamp)
  /\ last_odometry_observed_at' = now

OdometryJumps(sample) ==
  /\ CommitSequence(sample)
  /\ PoseJumps(sample.pose)
  /\ Latched("LOCALIZATION_EPOCH_JUMP_DETECTED")
  /\ RejectOdometry
  /\ UNCHANGED <<acceptedVars, last_shadow_pose>>

(* While the window fills the gate is not told and the frame not counted.  *)
OdometryWarmsUp(sample) ==
  /\ CommitSequence(sample)
  /\ ~PoseJumps(sample.pose)
  /\ ~RateKnown(recent_odometry_stamps')
  /\ RejectOdometry
  /\ UNCHANGED <<acceptedVars, last_shadow_pose, healthVars>>

OdometryUntimely(sample) ==
  LET why == TimingReason(sample.stamp, recent_odometry_stamps')
  IN  /\ CommitSequence(sample)
      /\ ~PoseJumps(sample.pose)
      /\ RateKnown(recent_odometry_stamps')
      /\ why # "TIMELY"
      /\ Transient(why)
      /\ RejectOdometry
      /\ UNCHANGED <<acceptedVars, last_shadow_pose>>

AcceptOdometry(sample) ==
  /\ CommitSequence(sample)
  /\ ~PoseJumps(sample.pose)
  /\ RateKnown(recent_odometry_stamps')
  /\ TimingReason(sample.stamp, recent_odometry_stamps') = "TIMELY"
  /\ received' = TRUE
  /\ stamp_guard' = sample.stamp
  /\ last_input_pose' = <<sample.pose>>
  /\ last_odometry_received_at' = now
  /\ OdometryOthersUnchanged

(* T[odom,base] = T[odom,camera] composed with the inverse extrinsic. *)
CameraPoseToBasePose(pose) == pose - CameraOffset

(* Slip: the failure is taken for a passing one. *)
OdometryTransformFailsTransiently(sample) ==
  /\ "extrinsic" \in Approvals
  /\ sample.pose \in Untransformable
  /\ AcceptOdometry(sample)
  /\ last_odometry_valid' = FALSE
  /\ Transient("SHADOW_POSE_TRANSFORM_FAILED")
  /\ UNCHANGED last_shadow_pose

(* CameraPoseToBasePose throws: the accepted frame is rejected after all.  *)
OdometryTransformFails(sample) ==
  /\ "extrinsic" \in Approvals
  /\ sample.pose \in Untransformable
  /\ AcceptOdometry(sample)
  /\ last_odometry_valid' = FALSE
  /\ Latched("SHADOW_POSE_TRANSFORM_FAILED")
  /\ UNCHANGED last_shadow_pose

OdometryAccepted(sample) ==
  /\ "extrinsic" \in Approvals => sample.pose \notin Untransformable
  /\ AcceptOdometry(sample)
  /\ last_odometry_valid' = TRUE
  /\ last_shadow_pose' =
       IF "extrinsic" \in Approvals THEN <<CameraPoseToBasePose(sample.pose)>>
       ELSE last_shadow_pose
  /\ MaybeAdvanceHealth

OnOdometry(sample) ==
  \/ OdometryInvalid(sample)
  \/ OdometryOutOfOrder(sample)
  \/ OdometryClockMismatch(sample)
  \/ OdometryJumps(sample)
  \/ OdometryWarmsUp(sample)
  \/ OdometryUntimely(sample)
  \/ OdometryTransformFails(sample)
  \/ OdometryAccepted(sample)

-----------------------------------------------------------------------------
(***************************************************************************)
(* OnVisualSlamStatus.  A message's kind: "invalid" (a wrong frame or a    *)
(* bad execution time), "lost" (a vo_state the contract does not accept)   *)
(* or "tracking".                                                          *)
(***************************************************************************)

StatusMessages ==
  {[stamp |-> StampSent(lag), kind |-> k] : lag \in StatusLags, k \in StatusKinds}

StatusOthersUnchanged == UNCHANGED <<clockVars, odometryVars, diagnosticVars, timerVars>>

DropStatus ==
  /\ last_status_valid' = FALSE
  /\ UNCHANGED <<status_sequence_guard, status_stamp_guard, last_status_received_at>>
  /\ StatusOthersUnchanged

WellFormed(message) == message.stamp > 0 /\ message.kind # "invalid"

StatusInvalid(message) ==
  /\ ~WellFormed(message)
  /\ Transient("TRACKING_STATUS_INVALID")
  /\ DropStatus

StatusOutOfOrder(message) ==
  LET order == Classify(status_sequence_guard, message.stamp)
  IN  /\ WellFormed(message)
      /\ \/ order = "duplicate" /\ Transient("TRACKING_STATUS_DUPLICATE_TIMESTAMP")
         \/ order = "nonmonotonic" /\ Latched("TRACKING_STATUS_NONMONOTONIC_TIMESTAMP")
      /\ DropStatus

StatusClockMismatch(message) ==
  /\ WellFormed(message)
  /\ Classify(status_sequence_guard, message.stamp) = "accept"
  /\ ~ClockDomainMatches(message.stamp)
  /\ Transient("TRACKING_STATUS_CLOCK_DOMAIN_MISMATCH")
  /\ DropStatus

CommitStatus(message) ==
  /\ WellFormed(message)
  /\ Classify(status_sequence_guard, message.stamp) = "accept"
  /\ ClockDomainMatches(message.stamp)
  /\ status_sequence_guard' = message.stamp
  /\ last_status_valid' = (message.kind = "tracking")
  /\ StatusOthersUnchanged

TrackingLost(message) ==
  /\ message.kind = "lost"
  /\ CommitStatus(message)
  /\ Transient("TRACKING_STATE_NOT_ACCEPTED")
  /\ UNCHANGED <<status_stamp_guard, last_status_received_at>>

TrackingAccepted(message) ==
  /\ message.kind = "tracking"
  /\ CommitStatus(message)
  /\ status_stamp_guard' = message.stamp
  /\ last_status_received_at' = now
  /\ MaybeAdvanceHealth

OnVisualSlamStatus(message) ==
  \/ StatusInvalid(message)
  \/ StatusOutOfOrder(message)
  \/ StatusClockMismatch(message)
  \/ TrackingLost(message)
  \/ TrackingAccepted(message)
-----------------------------------------------------------------------------
(***************************************************************************)
(* OnUpstreamDiagnostics.  A message carries one stamp, the gid of its     *)
(* publisher and a sequence of statuses; endpoints is the list of          *)
(* publishers the ROS graph shows for the topic.  A status has a level and *)
(* the set of its flaws against the required identity and values.  Names   *)
(* outside Required, the adapter's own among them, are skipped.            *)
(***************************************************************************)

DiagnosticMessages ==
  {[stamp |-> StampSent(lag), gid |-> g, status |-> s] :
     lag \in DiagnosticLags, g \in DiagnosticGids, s \in DiagnosticStatuses}

Candidates(message) ==
  {k \in DOMAIN message.status : message.status[k].name \in Required}

CandidateNames(message) == {message.status[k].name : k \in Candidates(message)}

RepeatedCandidates(message) ==
  {k \in Candidates(message) :
     \E j \in Candidates(message) :
       j < k /\ message.status[j].name = message.status[k].name}

DiagnosticOthersUnchanged == UNCHANGED <<clockVars, odometryVars, statusVars, timerVars>>

Erase(names) ==
  /\ diagnostic_level' = [i \in Required |-> IF i \in names THEN 0 ELSE diagnostic_level[i]]
  /\ diagnostic_stamp' =
       [i \in Required |-> IF i \in names THEN NoStamp ELSE diagnostic_stamp[i]]
  /\ diagnostic_received_at' =
       [i \in Required |-> IF i \in names THEN Never ELSE diagnostic_received_at[i]]

(* The second status of a name ends the handler before the others of the   *)
(* message are erased.                                                     *)
DiagnosticsRepeatAName(message) ==
  /\ RepeatedCandidates(message) # {}
  /\ Erase({message.status[Min(RepeatedCandidates(message))].name})
  /\ Latched("DUPLICATE_REQUIRED_DIAGNOSTIC_STATUS")
  /\ UNCHANGED diagnostic_sequence_guards
  /\ DiagnosticOthersUnchanged

HasCandidates(message) ==
  Candidates(message) # {} /\ RepeatedCandidates(message) = {}

(* A message whose candidates all lose their observation. *)
RejectDiagnostics(message) ==
  /\ HasCandidates(message)
  /\ Erase(CandidateNames(message))
  /\ DiagnosticOthersUnchanged

SourceEndpoints(message, endpoints) ==
  {e \in DOMAIN endpoints : endpoints[e].gid = message.gid}

SourceNode(message, endpoints) ==
  endpoints[Min(SourceEndpoints(message, endpoints))].node

SameNamePublishers(message, endpoints) ==
  {e \in DOMAIN endpoints : endpoints[e].node = SourceNode(message, endpoints)}

(* The source is the one publisher every candidate expects. *)
Attributed(message, endpoints) ==
  /\ Cardinality(SourceEndpoints(message, endpoints)) = 1
  /\ Cardinality(SameNamePublishers(message, endpoints)) = 1
  /\ \A i \in CandidateNames(message) :
       ExpectedPublisher[i] = SourceNode(message, endpoints)

DiagnosticsUnattributed(message, endpoints) ==
  LET matches == Cardinality(SourceEndpoints(message, endpoints))
  IN  /\ ~Attributed(message, endpoints)
      /\ RejectDiagnostics(message)
      /\ UNCHANGED diagnostic_sequence_guards
      /\ \/ matches > 1 /\ Latched("DIAGNOSTIC_SOURCE_GID_NOT_UNIQUE")
         \/ matches = 0 /\ Transient("DIAGNOSTIC_SOURCE_NOT_DISCOVERED")
         \/ /\ matches = 1
            /\ Cardinality(SameNamePublishers(message, endpoints)) # 1
            /\ Latched("DIAGNOSTIC_PUBLISHER_NOT_UNIQUE")
         \/ /\ matches = 1
            /\ Cardinality(SameNamePublishers(message, endpoints)) = 1
            /\ Latched("DIAGNOSTIC_PUBLISHER_IDENTITY_MISMATCH")

DiagnosticsUntimed(message, endpoints) ==
  /\ Attributed(message, endpoints)
  /\ ~ClockDomainMatches(message.stamp)
  /\ RejectDiagnostics(message)
  /\ Transient(IF message.stamp <= 0 THEN "UPSTREAM_DIAGNOSTIC_TIMESTAMP_INVALID"
               ELSE "UPSTREAM_DIAGNOSTIC_CLOCK_DOMAIN_MISMATCH")
  /\ UNCHANGED diagnostic_sequence_guards

(* How the stamp of the message stands to the guard of its k-th status. *)
DiagnosticOrder(message, k) ==
  Classify(diagnostic_sequence_guards[message.status[k].name], message.stamp)

LateCandidates(message) ==
  {k \in Candidates(message) : DiagnosticOrder(message, k) # "accept"}

DiagnosticsOutOfOrder(message, endpoints) ==
  /\ Attributed(message, endpoints)
  /\ ClockDomainMatches(message.stamp)
  /\ LateCandidates(message) # {}
  /\ RejectDiagnostics(message)
  /\ LET order == DiagnosticOrder(message, Min(LateCandidates(message)))
     IN  \/ order = "duplicate" /\ Transient("UPSTREAM_DIAGNOSTIC_DUPLICATE_TIMESTAMP")
         \/ order = "nonmonotonic" /\ Latched("UPSTREAM_DIAGNOSTIC_NONMONOTONIC_TIMESTAMP")
  /\ UNCHANGED diagnostic_sequence_guards

(* CheckDiagnosticEvidence: the first thing wrong with a status. *)
EvidenceError(status) ==
  IF status.level > MaximumLevel[status.name] \/ "hardware_id" \in status.flaws
    THEN "UPSTREAM_DIAGNOSTIC_IDENTITY_OR_LEVEL_MISMATCH"
  ELSE IF "duplicate_key" \in status.flaws
    THEN "UPSTREAM_DIAGNOSTIC_DUPLICATE_VALUE_KEY"
  ELSE IF "value" \in status.flaws THEN "UPSTREAM_DIAGNOSTIC_VALUE_MISMATCH"
  ELSE "NONE"

(* Slip: only the first status is looked at. *)
FlawedFirstCandidate(message) ==
  {k \in Candidates(message) :
     k = Min(Candidates(message)) /\ EvidenceError(message.status[k]) # "NONE"}

FlawedCandidates(message) ==
  {k \in Candidates(message) : EvidenceError(message.status[k]) # "NONE"}

(* Slip: one guard for the topic instead of one per name. *)
CommitDiagnosticsForAll(message, endpoints) ==
  /\ HasCandidates(message)
  /\ Attributed(message, endpoints)
  /\ ClockDomainMatches(message.stamp)
  /\ LateCandidates(message) = {}
  /\ diagnostic_sequence_guards' = [i \in Required |-> message.stamp]
  /\ DiagnosticOthersUnchanged

(* Every guard of the message moves on before any evidence is looked at. *)
CommitDiagnostics(message, endpoints) ==
  /\ HasCandidates(message)
  /\ Attributed(message, endpoints)
  /\ ClockDomainMatches(message.stamp)
  /\ LateCandidates(message) = {}
  /\ diagnostic_sequence_guards' =
       [i \in Required |-> IF i \in CandidateNames(message) THEN message.stamp
                          ELSE diagnostic_sequence_guards[i]]
  /\ DiagnosticOthersUnchanged

DiagnosticsFlawed(message, endpoints) ==
  LET error == EvidenceError(message.status[Min(FlawedCandidates(message))])
  IN  /\ CommitDiagnostics(message, endpoints)
      /\ FlawedCandidates(message) # {}
      /\ Erase(CandidateNames(message))
      /\ \/ error = "UPSTREAM_DIAGNOSTIC_DUPLICATE_VALUE_KEY" /\ Latched(error)
         \/ error # "UPSTREAM_DIAGNOSTIC_DUPLICATE_VALUE_KEY" /\ Transient(error)

StatusOf(message, i) ==
  message.status[CHOOSE k \in Candidates(message) : message.status[k].name = i]

DiagnosticsAccepted(message, endpoints) ==
  LET names == CandidateNames(message)
  IN  /\ CommitDiagnostics(message, endpoints)
      /\ FlawedCandidates(message) = {}
      /\ diagnostic_level' = [i \in Required |->
           IF i \in names THEN StatusOf(message, i).level ELSE diagnostic_level[i]]
      /\ diagnostic_stamp' = [i \in Required |->
           IF i \in names THEN message.stamp ELSE diagnostic_stamp[i]]
      /\ diagnostic_received_at' = [i \in Required |->
           IF i \in names THEN now ELSE diagnostic_received_at[i]]
      /\ MaybeAdvanceHealth

OnUpstreamDiagnostics(message, endpoints) ==
  \/ DiagnosticsRepeatAName(message)
  \/ DiagnosticsUnattributed(message, endpoints)
  \/ DiagnosticsUntimed(message, endpoints)
  \/ DiagnosticsOutOfOrder(message, endpoints)
  \/ DiagnosticsFlawed(message, endpoints)
  \/ DiagnosticsAccepted(message, endpoints)
-----------------------------------------------------------------------------
(***************************************************************************)
(* OnDiagnosticTimer: the publishers of the two input topics are read from *)
(* the ROS graph here and nowhere else, so between two timer callbacks the *)
(* message handlers judge by what the last one saw.                        *)
(***************************************************************************)

(* UpdatePublisherEvidenceLocked, for one topic. *)
PublisherEvidence(publishers, expected) ==
  [count |-> Len(publishers), valid |-> publishers = <<expected>>]

(* Over the publishers just read. *)
PublisherFault ==
  IF odometry_publishers.count > 1 THEN "ODOMETRY_PUBLISHER_NOT_UNIQUE"
  ELSE IF odometry_publishers.count = 1 /\ ~odometry_publishers.valid
    THEN "ODOMETRY_PUBLISHER_IDENTITY_MISMATCH"
  ELSE IF status_publishers.count > 1 THEN "TRACKING_STATUS_PUBLISHER_NOT_UNIQUE"
  ELSE IF status_publishers.count = 1 /\ ~status_publishers.valid
    THEN "TRACKING_STATUS_PUBLISHER_IDENTITY_MISMATCH"
  ELSE "NONE"

(* The level PublishDiagnosticsLocked gives to a state. *)
ReportLevel(state) ==
  IF state = "starting" THEN "STALE"
  ELSE IF state = "recovering" THEN "WARN"
  ELSE IF state = "healthy"
    THEN IF PublishGateReasons("shadow", state, Approvals) = {} THEN "OK" ELSE "WARN"
  ELSE "ERROR"

(* Slip: the report is composed before the gate is updated. *)
PublishOldDiagnostics == report' = [health |-> health, level |-> ReportLevel(health)]

(* Slip: only a verdict the timer itself changes is published. *)
PublishOnlyChanges ==
  report' = IF health' = health THEN report
            ELSE [health |-> health', level |-> ReportLevel(health')]

PublishDiagnostics == report' = [health |-> health', level |-> ReportLevel(health')]

(* A wall timer is due again a period after it was due, not after it ran. *)
TimerFires ==
  /\ now >= timerDue
  /\ timerDue' = timerDue + DiagnosticPeriod
  /\ \E o \in PublisherLists, s \in PublisherLists :
       /\ odometry_publishers' = PublisherEvidence(o, ExpectedOdometryPublisher)
       /\ status_publishers' = PublisherEvidence(s, ExpectedStatusPublisher)
  /\ UNCHANGED <<clockVars, odometryVars, statusVars, diagnosticVars>>

TimerLatches ==
  /\ TimerFires
  /\ PublisherFault' # "NONE"
  /\ Latched(PublisherFault')
  /\ PublishDiagnostics

TimerFindsHealthy ==
  /\ TimerFires
  /\ PublisherFault' = "NONE"
  /\ health = "latched_fault" \/ InputsReason' = "INPUT_HEALTHY"
  /\ MaybeAdvanceHealth
  /\ PublishDiagnostics

(* Slip: the startup timeout is never looked at. *)
StartupNeverExpires == FALSE

StartupExpired == now > StartupTimeout

TimerWaits ==
  /\ TimerFires
  /\ PublisherFault' = "NONE"
  /\ health = "starting" /\ InputsReason' \in WaitingReasons
  /\ \/ ~StartupExpired /\ MarkStarting(InputsReason')
     \/ StartupExpired /\ MarkTransient("STARTUP_TIMEOUT")
  /\ UNCHANGED last_health_observed_stamp
  /\ PublishDiagnostics

TimerFindsFault ==
  /\ TimerFires
  /\ PublisherFault' = "NONE"
  /\ health # "latched_fault" /\ InputsReason' # "INPUT_HEALTHY"
  /\ ~(health = "starting" /\ InputsReason' \in WaitingReasons)
  /\ Transient(InputsReason')
  /\ PublishDiagnostics

OnDiagnosticTimer ==
  \/ TimerLatches
  \/ TimerFindsHealthy
  \/ TimerWaits
  \/ TimerFindsFault
-----------------------------------------------------------------------------
(***************************************************************************)
(* The clocks.  The single-threaded executor serves a due timer within     *)
(* TimerSlack ticks; ROS time runs with the steady clock except that it    *)
(* may be stepped (ClockSteps) within 1..MaxRos.                           *)
(***************************************************************************)

Tick ==
  /\ now < MaxTime
  /\ now < timerDue + TimerSlack
  /\ now' = now + 1 /\ ros' = ros + 1
  /\ UNCHANGED <<odometryVars, statusVars, diagnosticVars, timerVars, healthVars>>

ClockStep ==
  /\ \E step \in ClockSteps :
       /\ ros + step \in 1..MaxRos
       /\ ros' = ros + step
  /\ UNCHANGED <<now, odometryVars, statusVars, diagnosticVars, timerVars, healthVars>>

Next ==
  \/ \E sample \in OdometrySamples : OnOdometry(sample)
  \/ \E message \in StatusMessages : OnVisualSlamStatus(message)
  \/ \E message \in DiagnosticMessages, endpoints \in DiagnosticEndpoints :
       OnUpstreamDiagnostics(message, endpoints)
  \/ OnDiagnosticTimer
  \/ Tick
  \/ ClockStep

Spec == Init /\ [][Next]_vars
=============================================================================
