------------------------- MODULE AdapterTrustProofs -------------------------
(***************************************************************************)
(* What a frame the adapter accepted, a stamp it committed and a verdict   *)
(* it published can be trusted for, and that its verdicts are those of     *)
(* RecoveryContract.                                                       *)
(***************************************************************************)
EXTENDS AdapterProofs, AdapterRefinement

-----------------------------------------------------------------------------
(* Accepted frames.                                                        *)

(* What was accepted last changes with an accepted frame only. *)
LEMMA AcceptedMoves ==
  ASSUME [Next]_vars
  PROVE  \/ UNCHANGED <<acceptedVars, last_shadow_pose>>
         \/ \E sample \in OdometrySamples :
              OdometryTransformFails(sample) \/ OdometryAccepted(sample)
<1>1. UNCHANGED odometryVars => UNCHANGED <<acceptedVars, last_shadow_pose>>
  BY DEF odometryVars
<1>2. UNCHANGED odometryVars \/ \E sample \in OdometrySamples : OnOdometry(sample)
  BY StatusFrame, DiagnosticFrame, TimerFrame, ClockFrame DEF Next, vars
<1>3. ASSUME NEW sample \in OdometrySamples, OnOdometry(sample)
      PROVE  \/ UNCHANGED <<acceptedVars, last_shadow_pose>>
             \/ OdometryTransformFails(sample) \/ OdometryAccepted(sample)
  BY <1>3 DEF OnOdometry, OdometryInvalid, OdometryOutOfOrder, OdometryClockMismatch,
    OdometryJumps, OdometryWarmsUp, OdometryUntimely, DropOdometry
<1>. QED  BY <1>1, <1>2, <1>3

(* PosesAreContinuous: poses accepted one after the other are within the   *)
(* step bound, whatever was refused between them.                          *)
THEOREM PosesAreContinuous == Spec => AcceptedPosesContinuous
<1>1. TypeOK /\ [Next]_vars =>
        ((last_input_pose # NoPose /\ last_input_pose' # last_input_pose) =>
           StampDistance(last_input_pose[1], last_input_pose'[1]) <= MaxPoseStep)
  <2>. SUFFICES ASSUME TypeOK, [Next]_vars, last_input_pose # NoPose,
                       last_input_pose' # last_input_pose
                PROVE  StampDistance(last_input_pose[1], last_input_pose'[1]) <= MaxPoseStep
    OBVIOUS
  <2>1. PICK sample \in OdometrySamples : AcceptOdometry(sample)
    BY AcceptedMoves DEF acceptedVars, OdometryTransformFails, OdometryAccepted
  <2>2. last_input_pose'[1] = sample.pose /\ ~PoseJumps(sample.pose)
    BY <2>1 DEF AcceptOdometry
  <2>3. last_input_pose[1] \in Int /\ sample.pose \in Int /\ MaxPoseStep \in Int
    <3>1. last_input_pose \in Seq(Int) /\ last_input_pose # <<>>
      BY DEF TypeOK, OdometryTypeOK, NoPose
    <3>2. last_input_pose[1] \in Int
      BY <3>1
    <3>. QED  BY <3>2, SampleType, HealthContract
  <2>4. ~(StampDistance(last_input_pose[1], sample.pose) > MaxPoseStep)
    BY <2>2 DEF PoseJumps
  <2>5. StampDistance(last_input_pose[1], sample.pose) \in Int
    BY <2>3 DEF StampDistance
  <2>. QED  BY <2>2, <2>3, <2>4, <2>5
<1>. QED  BY <1>1, TypeCorrect, PTL DEF Spec, AcceptedPosesContinuous

(* ShadowStaysCurrent: with an approved extrinsic the shadow pose belongs  *)
(* to the last accepted pose, unless the node has latched.                 *)
THEOREM ShadowStaysCurrent == Spec => []ShadowPoseCurrent
<1>1. Init => ShadowPoseCurrent
  BY DEF Init, ShadowPoseCurrent
<1>2. TypeOK /\ ShadowPoseCurrent /\ [Next]_vars => ShadowPoseCurrent'
  <2>. SUFFICES ASSUME TypeOK, ShadowPoseCurrent, [Next]_vars, "extrinsic" \in Approvals,
                       last_input_pose' # NoPose, health' # "latched_fault"
                PROVE  last_shadow_pose' = <<last_input_pose'[1] - CameraOffset>>
    BY DEF ShadowPoseCurrent
  <2>1. CASE UNCHANGED <<acceptedVars, last_shadow_pose>>
    <3>1. health # "latched_fault"
      BY GateMoves DEF healthVars, gateVars, Transient, Latched, MarkTransient, MarkLatched,
        MaybeAdvanceHealth, TimerWaits
    <3>. QED  BY <2>1, <3>1 DEF acceptedVars, ShadowPoseCurrent
  <2>2. ASSUME NEW sample \in OdometrySamples, OdometryAccepted(sample)
        PROVE  last_shadow_pose' = <<last_input_pose'[1] - CameraOffset>>
    BY <2>2 DEF OdometryAccepted, AcceptOdometry, CameraPoseToBasePose
  <2>3. ASSUME NEW sample \in OdometrySamples, OdometryTransformFails(sample)  PROVE FALSE
    BY <2>3 DEF OdometryTransformFails, Latched, MarkLatched
  <2>. QED  BY <2>1, <2>2, <2>3, AcceptedMoves
<1>. QED  BY <1>1, <1>2, TypeCorrect, PTL DEF Spec
-----------------------------------------------------------------------------
(* Stamps, while ROS time runs with the steady clock.                      *)

(* Without steps ROS time never goes back. *)
LEMMA ClockAdvances ==
  ASSUME TypeOK, ClockSteps = {}, [Next]_vars
  PROVE  ros \in Nat /\ ros' \in {ros, ros + 1} /\ ros' - now' = ros - now
<1>1. ros \in Nat /\ now \in Nat
  BY DEF TypeOK, ClockTypeOK
<1>2. CASE UNCHANGED clockVars
  BY <1>1, <1>2 DEF clockVars
<1>3. CASE Tick
  BY <1>1, <1>3 DEF Tick
<1>4. ~ClockStep
  BY DEF ClockStep
<1>. QED  BY <1>2, <1>3, <1>4, OdometryFrame, StatusFrame, DiagnosticFrame, TimerFrame
      DEF Next, vars

(* A stamp of the clock's domain is at most the residual away from it. *)
LEMMA InDomain ==
  ASSUME ros \in Nat, NEW stamp \in Nat, ClockDomainMatches(stamp)
  PROVE  stamp <= ros + MaxClockResidual /\ ros - MaxClockResidual <= stamp
BY HealthContract DEF ClockDomainMatches, StampDistance

(* GuardsStaySane: no guard is ahead of an unstepped clock by more than    *)
(* the residual.                                                           *)
THEOREM GuardsStaySane == ASSUME ClockSteps = {} PROVE Spec => []GuardsNotPoisoned
<1>1. Init => GuardsNotPoisoned
  BY HealthContract, EnvironmentAssumption, SMTT(30) DEF Init, GuardsNotPoisoned, NoStamp
<1>2. TypeOK /\ GuardsNotPoisoned /\ [Next]_vars => GuardsNotPoisoned'
  <2>. SUFFICES ASSUME TypeOK, GuardsNotPoisoned, [Next]_vars PROVE GuardsNotPoisoned'
    OBVIOUS
  <2>1. /\ ros \in Nat /\ ros' \in Nat /\ ros <= ros' /\ MaxClockResidual \in Nat
    BY ClockAdvances, HealthContract
  <2>2. odometry_sequence_guard' <= ros' + MaxClockResidual
    <3>1. UNCHANGED odometryVars \/ \E sample \in OdometrySamples : OnOdometry(sample)
      BY StatusFrame, DiagnosticFrame, TimerFrame, ClockFrame DEF Next, vars
    <3>2. ASSUME NEW sample \in OdometrySamples, OnOdometry(sample)
          PROVE  \/ odometry_sequence_guard' = odometry_sequence_guard
                 \/ /\ ClockDomainMatches(sample.stamp)
                    /\ odometry_sequence_guard' = sample.stamp
      BY <3>2 DEF OnOdometry, OdometryInvalid, OdometryOutOfOrder, OdometryClockMismatch,
        OdometryJumps, OdometryWarmsUp, OdometryUntimely, OdometryTransformFails,
        OdometryAccepted, DropOdometry, AcceptOdometry, CommitSequence, sequenceVars
    <3>3. \A sample \in OdometrySamples : sample.stamp \in Nat
      BY SampleType
    <3>. QED  BY <2>1, <3>1, <3>2, <3>3, InDomain
          DEF odometryVars, sequenceVars, GuardsNotPoisoned, TypeOK, OdometryTypeOK
  <2>3. status_sequence_guard' <= ros' + MaxClockResidual
    <3>1. UNCHANGED statusVars \/ \E message \in StatusMessages : OnVisualSlamStatus(message)
      BY OdometryFrame, DiagnosticFrame, TimerFrame, ClockFrame DEF Next, vars
    <3>2. ASSUME NEW message \in StatusMessages, OnVisualSlamStatus(message)
          PROVE  \/ status_sequence_guard' = status_sequence_guard
                 \/ /\ ClockDomainMatches(message.stamp)
                    /\ status_sequence_guard' = message.stamp
      BY <3>2 DEF OnVisualSlamStatus, StatusInvalid, StatusOutOfOrder, StatusClockMismatch,
        TrackingLost, TrackingAccepted, DropStatus, CommitStatus
    <3>3. \A message \in StatusMessages : message.stamp \in Nat
      BY StatusMessageType
    <3>. QED  BY <2>1, <3>1, <3>2, <3>3, InDomain
          DEF statusVars, GuardsNotPoisoned, TypeOK, StatusTypeOK
  <2>4. ASSUME NEW i \in Required
        PROVE  diagnostic_sequence_guards'[i] <= ros' + MaxClockResidual
    <3>1. \/ UNCHANGED diagnosticVars
          \/ \E message \in DiagnosticMessages, endpoints \in DiagnosticEndpoints :
               OnUpstreamDiagnostics(message, endpoints)
      BY OdometryFrame, StatusFrame, TimerFrame, ClockFrame DEF Next, vars
    <3>2. ASSUME NEW message \in DiagnosticMessages, NEW endpoints \in DiagnosticEndpoints,
                 OnUpstreamDiagnostics(message, endpoints)
          PROVE  \/ diagnostic_sequence_guards' = diagnostic_sequence_guards
                 \/ CommitDiagnostics(message, endpoints)
      BY <3>2 DEF OnUpstreamDiagnostics, DiagnosticsRepeatAName, DiagnosticsUnattributed,
        DiagnosticsUntimed, DiagnosticsOutOfOrder, DiagnosticsFlawed, DiagnosticsAccepted
    <3>3. ASSUME NEW message \in DiagnosticMessages, NEW endpoints \in DiagnosticEndpoints,
                 CommitDiagnostics(message, endpoints)
          PROVE  \/ diagnostic_sequence_guards'[i] = diagnostic_sequence_guards[i]
                 \/ /\ message.stamp \in Nat /\ ClockDomainMatches(message.stamp)
                    /\ diagnostic_sequence_guards'[i] = message.stamp
      BY <3>3, DiagnosticMessageType DEF CommitDiagnostics
    <3>4. diagnostic_sequence_guards[i] \in Nat
      BY DEF TypeOK, DiagnosticTypeOK
    <3>. QED  BY <2>1, <3>1, <3>2, <3>3, <3>4, InDomain DEF diagnosticVars, GuardsNotPoisoned
  <2>. QED  BY <2>2, <2>3, <2>4 DEF GuardsNotPoisoned
<1>. QED  BY <1>1, <1>2, TypeCorrect, PTL DEF Spec
-----------------------------------------------------------------------------
(* The age of the source behind a healthy state.                           *)

(* ROS time is the steady clock's since the start; what was accepted was   *)
(* stamped at most the residual before it was received; and whoever trusts *)
(* has received both streams.                                              *)
SourceDated ==
  /\ ros - now = RosStart
  /\ last_odometry_received_at # Never =>
       RosStart + last_odometry_received_at - stamp_guard <= MaxClockResidual
  /\ last_status_received_at # Never =>
       RosStart + last_status_received_at - status_stamp_guard <= MaxClockResidual

StreamsReceived ==
  health \in {"healthy", "recovering"} =>
    last_odometry_received_at # Never /\ last_status_received_at # Never

(* An accepted stamp is dated when it is accepted. *)
LEMMA SourceDatedStep ==
  ASSUME ClockSteps = {}
  PROVE  TypeOK /\ SourceDated /\ [Next]_vars => SourceDated'
<1>. SUFFICES ASSUME TypeOK, SourceDated, [Next]_vars PROVE SourceDated'
  OBVIOUS
<1>1. ros' - now' = RosStart
  BY ClockAdvances DEF SourceDated
<1>2. /\ ros \in Nat /\ now \in Nat /\ ros = RosStart + now
      /\ RosStart \in Nat /\ MaxClockResidual \in Nat
  BY HealthContract, EnvironmentAssumption DEF SourceDated, TypeOK, ClockTypeOK
<1>3. ASSUME NEW stamp \in Nat, ClockDomainMatches(stamp)
      PROVE  RosStart + now - stamp <= MaxClockResidual
  BY <1>2, <1>3, InDomain
<1>4. last_odometry_received_at' # Never =>
        RosStart + last_odometry_received_at' - stamp_guard' <= MaxClockResidual
  <2>1. CASE UNCHANGED acceptedVars
    BY <2>1 DEF acceptedVars, SourceDated
  <2>2. ASSUME NEW sample \in OdometrySamples, AcceptOdometry(sample)
        PROVE  RosStart + last_odometry_received_at' - stamp_guard' <= MaxClockResidual
    BY <1>3, <2>2, SampleType DEF AcceptOdometry, CommitSequence
  <2>. QED  BY <2>1, <2>2, AcceptedMoves DEF OdometryTransformFails, OdometryAccepted
<1>5. last_status_received_at' # Never =>
        RosStart + last_status_received_at' - status_stamp_guard' <= MaxClockResidual
  <2>1. CASE UNCHANGED <<status_stamp_guard, last_status_received_at>>
    BY <2>1 DEF SourceDated
  <2>2. ASSUME NEW message \in StatusMessages, TrackingAccepted(message)
        PROVE  RosStart + last_status_received_at' - status_stamp_guard' <= MaxClockResidual
    BY <1>3, <2>2, StatusMessageType DEF TrackingAccepted, CommitStatus
  <2>3. UNCHANGED statusVars \/ \E message \in StatusMessages : OnVisualSlamStatus(message)
    BY OdometryFrame, DiagnosticFrame, TimerFrame, ClockFrame DEF Next, vars
  <2>4. ASSUME NEW message \in StatusMessages, OnVisualSlamStatus(message)
        PROVE  \/ UNCHANGED <<status_stamp_guard, last_status_received_at>>
               \/ TrackingAccepted(message)
    BY <2>4 DEF OnVisualSlamStatus, StatusInvalid, StatusOutOfOrder, StatusClockMismatch,
      TrackingLost, DropStatus
  <2>. QED  BY <2>1, <2>2, <2>3, <2>4 DEF statusVars
<1>. QED  BY <1>1, <1>4, <1>5 DEF SourceDated

(* Inputs found healthy have both streams. *)
LEMMA HealthyIsReceived ==
  InputsReason = "INPUT_HEALTHY" =>
    last_odometry_received_at # Never /\ last_status_received_at # Never
BY DEF InputsReason, NoOdometryReason

(* Trust is given, and kept, with both streams received only. *)
LEMMA StreamsReceivedStep ==
  TypeOK /\ StandingEvidence /\ StreamsReceived /\ [Next]_vars => StreamsReceived'
<1>. SUFFICES ASSUME TypeOK, StandingEvidence, StreamsReceived, [Next]_vars,
                     health' \in {"healthy", "recovering"}
              PROVE  last_odometry_received_at' # Never /\ last_status_received_at' # Never
  BY DEF StreamsReceived
<1>1. CASE InputsReason' = "INPUT_HEALTHY"
  <2>1. (InputsReason = "INPUT_HEALTHY" =>
          last_odometry_received_at # Never /\ last_status_received_at # Never)'
    BY HealthyIsReceived, PTL
  <2>. QED  BY <1>1, <2>1
<1>2. CASE health' = health /\ UNCHANGED <<odometryVars, statusVars, diagnosticVars, timerVars>>
  BY <1>2 DEF StreamsReceived, odometryVars, acceptedVars, statusVars
<1>. QED  BY <1>1, <1>2, Judged, NoWarmUpWhenHealthy

(* SourceAgeIsBounded: while the clock is not stepped, what a healthy      *)
(* state rests on was sampled at most the residual before it was received, *)
(* and received at most a check lag before it went stale.                  *)
THEOREM SourceAgeIsBounded == ASSUME ClockSteps = {} PROVE Spec => []SourceAgeBounded
<1>1. Init => SourceDated
  BY HealthContract, EnvironmentAssumption DEF Init, SourceDated, Never
<1>2. Init => StreamsReceived
  BY DEF Init, GateInit, StreamsReceived
<1>3. TypeOK /\ SourceDated /\ StreamsReceived /\ HealthyStalenessBounded => SourceAgeBounded
  <2>. SUFFICES ASSUME TypeOK, SourceDated, StreamsReceived, HealthyStalenessBounded,
                       health = "healthy"
                PROVE  /\ ros - stamp_guard <= MaxClockResidual + OdometryStaleAfter + CheckLag
                       /\ ros - status_stamp_guard
                            <= MaxClockResidual + TrackingStaleAfter + CheckLag
    BY DEF SourceAgeBounded
  <2>1. /\ now \in Nat /\ ros = RosStart + now
        /\ stamp_guard \in Nat /\ status_stamp_guard \in Nat
        /\ {RosStart, MaxClockResidual, OdometryStaleAfter, TrackingStaleAfter,
            DiagnosticPeriod, TimerSlack} \subseteq Nat
    BY HealthContract, EnvironmentAssumption
      DEF SourceDated, TypeOK, ClockTypeOK, OdometryTypeOK, StatusTypeOK
  <2>2. /\ RosStart + last_odometry_received_at - stamp_guard <= MaxClockResidual
        /\ RosStart + last_status_received_at - status_stamp_guard <= MaxClockResidual
    BY DEF SourceDated, StreamsReceived
  <2>3. /\ now - last_odometry_received_at <= OdometryStaleAfter + CheckLag
        /\ now - last_status_received_at <= TrackingStaleAfter + CheckLag
    BY DEF HealthyStalenessBounded
  <2>. QED  BY <2>1, <2>2, <2>3, TimesType DEF CheckLag
<1>. QED  BY <1>1, <1>2, <1>3, SourceDatedStep, StreamsReceivedStep, TypeCorrect,
      EvidenceStands, StalenessIsBounded, PTL DEF Spec
-----------------------------------------------------------------------------
(* The published verdict.                                                  *)

(* Evidence found healthy comes from the expected publishers, and is fresh. *)
LEMMA HealthyIsFresh ==
  InputsReason = "INPUT_HEALTHY" =>
    /\ ~(now - last_odometry_received_at > OdometryStaleAfter)
    /\ ~(now - last_status_received_at > TrackingStaleAfter)
    /\ \A i \in Required : ~(now - diagnostic_received_at[i] > DiagnosticStaleAfter)
    /\ odometry_publishers.valid /\ status_publishers.valid
<1>1. InputsReason = "INPUT_HEALTHY" =>
        odometry_publishers.valid /\ status_publishers.valid
  BY DEF InputsReason, NoOdometryReason, DiagnosticReason
<1>. QED  BY <1>1, FreshInputs

(* HealthyReportsAreCurrent: a report that says healthy is published by a  *)
(* timer callback that has just found every piece of evidence fresh.       *)
THEOREM HealthyReportsAreCurrent == Spec => HealthyReportIsCurrent
<1>. DEFINE Current == /\ now - last_odometry_received_at <= OdometryStaleAfter
                       /\ now - last_status_received_at <= TrackingStaleAfter
                       /\ \A i \in Required :
                            now - diagnostic_received_at[i] <= DiagnosticStaleAfter
                       /\ odometry_publishers'.valid /\ status_publishers'.valid
<1>1. TypeOK /\ [Next]_vars => ((timerDue' # timerDue /\ report'.health = "healthy") => Current)
  <2>. SUFFICES ASSUME TypeOK, [Next]_vars, timerDue' # timerDue, report'.health = "healthy"
                PROVE  Current
    OBVIOUS
  <2>1. OnDiagnosticTimer
    BY OdometryFrame, StatusFrame, DiagnosticFrame, ClockFrame DEF Next, vars, timerVars
  <2>2. health' = "healthy"
    BY <2>1 DEF OnDiagnosticTimer, TimerLatches, TimerFindsHealthy, TimerWaits,
      TimerFindsFault, PublishDiagnostics
  <2>3. InputsReason' = "INPUT_HEALTHY"
    <3>1. CASE TimerFindsHealthy
      BY <2>2, <3>1 DEF TimerFindsHealthy, MaybeAdvanceHealth, healthVars, gateVars
    <3>. QED  BY <2>1, <2>2, <3>1 DEF OnDiagnosticTimer, TimerLatches, TimerWaits,
          TimerFindsFault, Latched, MarkLatched, Transient, MarkTransient, MarkStarting
  <2>4. (InputsReason = "INPUT_HEALTHY" =>
          /\ ~(now - last_odometry_received_at > OdometryStaleAfter)
          /\ ~(now - last_status_received_at > TrackingStaleAfter)
          /\ \A i \in Required : ~(now - diagnostic_received_at[i] > DiagnosticStaleAfter)
          /\ odometry_publishers.valid /\ status_publishers.valid)'
    BY HealthyIsFresh, PTL
  <2>5. UNCHANGED <<now, last_odometry_received_at, last_status_received_at,
                    diagnostic_received_at>>
    BY <2>1, TimerFrame DEF clockVars, odometryVars, acceptedVars, statusVars,
      diagnosticVars, observationVars
  <2>6. /\ now \in Nat
        /\ {OdometryStaleAfter, TrackingStaleAfter, DiagnosticStaleAfter} \subseteq Nat
    BY HealthContract DEF TypeOK, ClockTypeOK
  <2>. QED  BY <2>3, <2>4, <2>5, <2>6, TimesType
<1>. QED  BY <1>1, TypeCorrect, PTL DEF Spec, HealthyReportIsCurrent
-----------------------------------------------------------------------------
(* The adapter implements RecoveryContract.                                *)

(* The stamp guard of accepted frames only moves forward. *)
LEMMA StampGuardAdvances ==
  ASSUME TypeOK, GuardsOrdered, [Next]_vars
  PROVE  stamp_guard <= stamp_guard'
<1>1. stamp_guard \in Nat /\ stamp_guard' \in Nat /\ odometry_sequence_guard \in Nat
  BY TypeStep DEF TypeOK, OdometryTypeOK
<1>2. CASE UNCHANGED acceptedVars
  BY <1>1, <1>2 DEF acceptedVars
<1>3. ASSUME NEW sample \in OdometrySamples, AcceptOdometry(sample)
      PROVE  stamp_guard <= stamp_guard'
  BY <1>1, <1>3, CommitKeepsOrder DEF AcceptOdometry, GuardsOrdered
<1>. QED  BY <1>2, <1>3, AcceptedMoves DEF OdometryTransformFails, OdometryAccepted

(* The verdict of each state. *)
LEMMA VerdictOf ==
  /\ health = "starting" => Verdict = "waiting"
  /\ health = "healthy" => Verdict = "trusted"
  /\ health \in {"transient_fault", "recovering"} => Verdict = "faulted"
  /\ health = "latched_fault" => Verdict = "latched"
BY DEF Verdict

(* Every step of the adapter is a step of the contract, or shows nothing.  *)
LEMMA ContractStep ==
  TypeOK /\ GuardsOrdered /\ [Next]_vars => [Contract!Next]_(Contract!contractVars)
<1>. SUFFICES ASSUME TypeOK, GuardsOrdered, [Next]_vars
              PROVE  Contract!Next \/ UNCHANGED Contract!contractVars
  OBVIOUS
<1>0. /\ health \in HealthStates /\ progress \in 0..(RecoveryRequired - 1)
      /\ progress # 0 => health = "recovering"
      /\ last_health_observed_stamp \in Nat /\ last_health_observed_stamp <= stamp_guard
      /\ stamp_guard \in Nat /\ stamp_guard' \in Nat /\ stamp_guard <= stamp_guard'
  BY StampGuardAdvances, TypeStep DEF TypeOK, GateTypeOK, OdometryTypeOK, GuardsOrdered
<1>1. /\ health' = "starting" => Verdict' = "waiting"
      /\ health' = "healthy" => Verdict' = "trusted"
      /\ health' \in {"transient_fault", "recovering"} => Verdict' = "faulted"
      /\ health' = "latched_fault" => Verdict' = "latched"
  BY DEF Verdict
<1>2. UNCHANGED healthVars => UNCHANGED Contract!contractVars
  BY DEF healthVars, gateVars, Verdict, Contract!contractVars
<1>3. ASSUME NEW why, Transient(why)
      PROVE  Contract!Next \/ UNCHANGED Contract!contractVars
  <2>1. CASE health = "latched_fault"
    BY <1>2, <1>3, <2>1 DEF Transient, MarkTransient, healthVars
  <2>2. CASE health # "latched_fault"
    BY <1>0, <1>1, <1>3, <2>2, VerdictOf
      DEF Transient, MarkTransient, HealthStates, Contract!Next, Contract!Fault
  <2>. QED  BY <2>1, <2>2
<1>4. ASSUME NEW why, Latched(why)
      PROVE  Contract!Next
  BY <1>1, <1>4 DEF Latched, MarkLatched, Contract!Next, Contract!Latch
<1>5. ASSUME ObserveHealthySample, health # "latched_fault",
             ~AlreadyCredited(stamp_guard'), last_health_observed_stamp' = stamp_guard'
      PROVE  Contract!Next
  <2>1. Contract!NewCredit
    BY <1>0, <1>5 DEF AlreadyCredited, Contract!NewCredit
  <2>2. CASE health \in {"starting", "healthy"}
    BY <1>0, <1>1, <1>5, <2>1, <2>2, VerdictOf
      DEF ObserveHealthySample, gateVars, Contract!Next, Contract!FirstTrust
  <2>3. CASE health \in {"transient_fault", "recovering"} /\ progress + 1 < RecoveryRequired
    BY <1>0, <1>1, <1>5, <2>1, <2>3, VerdictOf, RecoveryAssumption
      DEF ObserveHealthySample, Contract!Next, Contract!Recover
  <2>4. CASE health \in {"transient_fault", "recovering"} /\ ~(progress + 1 < RecoveryRequired)
    <3>1. progress + 1 = RecoveryRequired
      BY <1>0, <2>4, RecoveryAssumption
    <3>. QED  BY <1>1, <1>5, <2>1, <2>4, <3>1, VerdictOf
          DEF ObserveHealthySample, Contract!Next, Contract!TrustAgain
  <2>. QED  BY <1>0, <1>5, <2>2, <2>3, <2>4 DEF HealthStates
<1>6. MaybeAdvanceHealth => Contract!Next \/ UNCHANGED Contract!contractVars
  BY <1>2, <1>3, <1>5 DEF MaybeAdvanceHealth, Transient, healthVars
<1>7. TimerWaits => Contract!Next \/ UNCHANGED Contract!contractVars
  <2>1. CASE TimerWaits /\ MarkStarting(InputsReason')
    <3>1. UNCHANGED <<health, progress, last_health_observed_stamp>>
      BY <1>0, <2>1 DEF TimerWaits, MarkStarting
    <3>. QED  BY <3>1 DEF Verdict, Contract!contractVars
  <2>. QED  BY <1>3, <2>1 DEF TimerWaits, Transient
<1>. QED  BY <1>2, <1>3, <1>4, <1>6, <1>7, GateMoves

(* ImplementsRecoveryContract: whatever the order of callbacks, trust is   *)
(* lost, latched and won back only in the steps of RecoveryContract.       *)
THEOREM ImplementsRecoveryContract == Spec => RecoveryRefined
<1>1. Init => Contract!Init
  BY VerdictOf DEF Init, GateInit, NoStamp, Contract!Init
<1>. QED  BY <1>1, ContractStep, TypeCorrect, GuardsStayOrdered, PTL
      DEF Spec, RecoveryRefined, Contract!Spec
-----------------------------------------------------------------------------
(* The reason.                                                             *)

(* The reasons of a state a fault may leave a gate in. *)
FaultReason(why) ==
  why \notin LatchingReasons \cup {"RECOVERY_IN_PROGRESS", "INPUT_HEALTHY"}

(* The least of some issues is one of them. *)
LEMMA FirstIssueIsOne ==
  ASSUME NEW issues, \E n \in DOMAIN IssueOrder : IssueOrder[n] \in issues
  PROVE  FirstIssue(issues) \in issues /\ FirstIssue(issues) \in {IssueOrder[n] : n \in DOMAIN IssueOrder}
<1>. DEFINE S == {i \in DOMAIN IssueOrder : IssueOrder[i] \in issues}
<1>1. DOMAIN IssueOrder = 1..7
  BY DEF IssueOrder
<1>2. S \subseteq 1..7 /\ S # {}
  BY <1>1
<1>. HIDE DEF S
<1>3. \E x \in S : \A y \in S : x <= y
  <2>. SUFFICES ASSUME \A x \in S : \E y \in S : y < x  PROVE FALSE
    BY <1>2
  <2>1. 1 \notin S
    BY <1>2
  <2>2. 2 \notin S
    BY <1>2, <2>1
  <2>3. 3 \notin S
    BY <1>2, <2>1, <2>2
  <2>4. 4 \notin S
    BY <1>2, <2>1, <2>2, <2>3
  <2>5. 5 \notin S
    BY <1>2, <2>1, <2>2, <2>3, <2>4
  <2>6. 6 \notin S
    BY <1>2, <2>1, <2>2, <2>3, <2>4, <2>5
  <2>7. 7 \notin S
    BY <1>2, <2>1, <2>2, <2>3, <2>4, <2>5, <2>6
  <2>8. PICK y \in S : TRUE
    BY <1>2
  <2>9. y \in Int /\ 1 <= y /\ y <= 7
    BY <1>2
  <2>10. y = 1 \/ y = 2 \/ y = 3 \/ y = 4 \/ y = 5 \/ y = 6 \/ y = 7
    BY <2>9
  <2>. QED  BY <2>1, <2>2, <2>3, <2>4, <2>5, <2>6, <2>7, <2>10
<1>4. Min(S) \in S
  BY <1>3 DEF Min
<1>. QED  BY <1>4 DEF FirstIssue, S

(* A defective frame is reported by a latching reason exactly when it has  *)
(* a latching issue.                                                       *)
LEMMA IssueReasons ==
  ASSUME TypeOK, NEW sample \in OdometrySamples, ValidateOdometrySample(sample) # {}
  PROVE  LET issues == ValidateOdometrySample(sample)
         IN  /\ issues \cap LatchedIssues # {} =>
                  FirstIssue(issues \cap LatchedIssues) \in LatchingReasons
             /\ issues \cap LatchedIssues = {} => FaultReason(FirstIssue(issues))
<1>. DEFINE issues == ValidateOdometrySample(sample)
<1>0. DOMAIN IssueOrder = 1..7
  BY DEF IssueOrder
<1>1. {IssueOrder[n] : n \in DOMAIN IssueOrder} =
        {"PARENT_FRAME_MISMATCH", "CHILD_FRAME_MISMATCH", "INVALID_TIMESTAMP",
         "NONFINITE_MEASUREMENT", "INVALID_QUATERNION", "INVALID_POSE_COVARIANCE",
         "INVALID_TWIST_COVARIANCE"}
  <2>1. /\ IssueOrder[1] = "PARENT_FRAME_MISMATCH" /\ IssueOrder[2] = "CHILD_FRAME_MISMATCH"
        /\ IssueOrder[3] = "INVALID_TIMESTAMP" /\ IssueOrder[4] = "NONFINITE_MEASUREMENT"
        /\ IssueOrder[5] = "INVALID_QUATERNION" /\ IssueOrder[6] = "INVALID_POSE_COVARIANCE"
        /\ IssueOrder[7] = "INVALID_TWIST_COVARIANCE"
    BY DEF IssueOrder
  <2>2. 1..7 = {1, 2, 3, 4, 5, 6, 7}
    OBVIOUS
  <2>. QED  BY <1>0, <2>1, <2>2
<1>2. issues \subseteq {IssueOrder[n] : n \in DOMAIN IssueOrder}
  BY <1>1, SampleType DEF ValidateOdometrySample
<1>. HIDE DEF issues
<1>3. ASSUME issues \cap LatchedIssues # {}
      PROVE  FirstIssue(issues \cap LatchedIssues) \in LatchingReasons
  BY <1>2, <1>3, FirstIssueIsOne DEF LatchingReasons
<1>4. ASSUME issues \cap LatchedIssues = {}
      PROVE  FaultReason(FirstIssue(issues))
  <2>1. issues # {}
    BY DEF issues
  <2>2. FirstIssue(issues) \in issues
    BY <1>2, <2>1, FirstIssueIsOne
  <2>. QED  BY <1>1, <1>2, <1>4, <2>2 DEF FaultReason, LatchingReasons, LatchedIssues
<1>. QED  BY <1>3, <1>4 DEF issues

(* What InputsAreHealthyLocked answers is no latching reason. *)
LEMMA InputsReasonFits ==
  InputsReason # "INPUT_HEALTHY" => FaultReason(InputsReason)
BY DEF InputsReason, NoOdometryReason, DiagnosticReason, FaultReason, LatchingReasons, LatchedIssues

(* Every handler reports a latching reason with MarkLatched and no other. *)
LEMMA ReasonedMoves ==
  ASSUME TypeOK, [Next]_vars
  PROVE  \/ UNCHANGED healthVars
         \/ \E why : Transient(why) /\ FaultReason(why)
         \/ \E why \in LatchingReasons : Latched(why)
         \/ MaybeAdvanceHealth
         \/ TimerWaits
<1>. DEFINE Reasoned == \/ UNCHANGED healthVars
                        \/ \E why : Transient(why) /\ FaultReason(why)
                        \/ \E why \in LatchingReasons : Latched(why)
                        \/ MaybeAdvanceHealth
                        \/ TimerWaits
<1>. SUFFICES Reasoned
  OBVIOUS
<1>1. ASSUME NEW sample \in OdometrySamples, OnOdometry(sample)  PROVE Reasoned
  <2>1. CASE OdometryInvalid(sample)
    BY <2>1, IssueReasons DEF OdometryInvalid
  <2>2. CASE OdometryOutOfOrder(sample)
    BY <2>2 DEF OdometryOutOfOrder, FaultReason, LatchingReasons, LatchedIssues
  <2>3. CASE OdometryUntimely(sample)
    BY <2>3 DEF OdometryUntimely, TimingReason, FaultReason, LatchingReasons, LatchedIssues
  <2>4. CASE \/ OdometryClockMismatch(sample) \/ OdometryJumps(sample)
             \/ OdometryTransformFails(sample)
    BY <2>4 DEF OdometryClockMismatch, OdometryJumps, OdometryTransformFails, FaultReason,
      LatchingReasons, LatchedIssues
  <2>5. CASE OdometryWarmsUp(sample) \/ OdometryAccepted(sample)
    BY <2>5 DEF OdometryWarmsUp, OdometryAccepted
  <2>. QED  BY <1>1, <2>1, <2>2, <2>3, <2>4, <2>5 DEF OnOdometry
<1>2. ASSUME NEW message \in StatusMessages, OnVisualSlamStatus(message)  PROVE Reasoned
  BY <1>2 DEF OnVisualSlamStatus, StatusInvalid, StatusOutOfOrder, StatusClockMismatch,
    TrackingLost, TrackingAccepted, FaultReason, LatchingReasons, LatchedIssues
<1>3. ASSUME NEW message \in DiagnosticMessages, NEW endpoints \in DiagnosticEndpoints,
             OnUpstreamDiagnostics(message, endpoints)
      PROVE  Reasoned
  <2>1. CASE DiagnosticsRepeatAName(message) \/ DiagnosticsUnattributed(message, endpoints)
    BY <2>1 DEF DiagnosticsRepeatAName, DiagnosticsUnattributed, FaultReason,
      LatchingReasons, LatchedIssues
  <2>2. CASE DiagnosticsUntimed(message, endpoints) \/ DiagnosticsOutOfOrder(message, endpoints)
    BY <2>2 DEF DiagnosticsUntimed, DiagnosticsOutOfOrder, FaultReason,
      LatchingReasons, LatchedIssues
  <2>3. CASE DiagnosticsFlawed(message, endpoints)
    <3>. DEFINE error == EvidenceError(message.status[Min(FlawedCandidates(message))])
    <3>1. error \in {"UPSTREAM_DIAGNOSTIC_IDENTITY_OR_LEVEL_MISMATCH",
                     "UPSTREAM_DIAGNOSTIC_DUPLICATE_VALUE_KEY",
                     "UPSTREAM_DIAGNOSTIC_VALUE_MISMATCH", "NONE"}
      BY DEF EvidenceError
    <3>2. \/ Latched(error) /\ error = "UPSTREAM_DIAGNOSTIC_DUPLICATE_VALUE_KEY"
          \/ Transient(error) /\ error # "UPSTREAM_DIAGNOSTIC_DUPLICATE_VALUE_KEY"
      BY <2>3 DEF DiagnosticsFlawed
    <3>. QED  BY <3>1, <3>2 DEF FaultReason, LatchingReasons, LatchedIssues
  <2>4. CASE DiagnosticsAccepted(message, endpoints)
    BY <2>4 DEF DiagnosticsAccepted
  <2>. QED  BY <1>3, <2>1, <2>2, <2>3, <2>4 DEF OnUpstreamDiagnostics
<1>4. CASE OnDiagnosticTimer
  <2>1. PublisherFault' # "NONE" => PublisherFault' \in LatchingReasons
    BY DEF PublisherFault, LatchingReasons
  <2>2. (InputsReason # "INPUT_HEALTHY" => FaultReason(InputsReason))'
    BY InputsReasonFits, PTL
  <2>3. CASE TimerFindsFault
    BY <2>2, <2>3 DEF TimerFindsFault, FaultReason, LatchingReasons, LatchedIssues
  <2>. QED  BY <1>4, <2>1, <2>3 DEF OnDiagnosticTimer, TimerLatches, TimerFindsHealthy
<1>5. UNCHANGED vars \/ Tick \/ ClockStep => UNCHANGED healthVars
  BY ClockFrame DEF vars
<1>. HIDE DEF Reasoned
<1>6. UNCHANGED healthVars => Reasoned
  BY DEF Reasoned
<1>. QED  BY <1>1, <1>2, <1>3, <1>4, <1>5, <1>6 DEF Next

(* ReasonsAlwaysFit: the reason is always one of the state it goes with.   *)
THEOREM ReasonsAlwaysFit == Spec => []ReasonsFit
<1>1. Init => ReasonsFit
  BY DEF Init, GateInit, ReasonsFit, LatchingReasons, LatchedIssues, WaitingReasons
<1>2. TypeOK /\ ReasonsFit /\ [Next]_vars => ReasonsFit'
  <2>. SUFFICES ASSUME TypeOK, ReasonsFit, [Next]_vars PROVE ReasonsFit'
    OBVIOUS
  <2>0. health \in HealthStates
    BY DEF TypeOK, GateTypeOK
  <2>1. CASE UNCHANGED gateVars
    BY <2>1 DEF gateVars, ReasonsFit, LatchingReasons, WaitingReasons
  <2>2. ASSUME NEW why, MarkTransient(why), FaultReason(why)  PROVE ReasonsFit'
    <3>1. CASE health = "latched_fault"
      BY <2>1, <2>2, <3>1 DEF MarkTransient
    <3>2. CASE health # "latched_fault"
      BY <2>2, <3>2 DEF MarkTransient, FaultReason, ReasonsFit
    <3>. QED  BY <3>1, <3>2
  <2>3. ASSUME NEW why \in LatchingReasons, Latched(why)  PROVE ReasonsFit'
    BY <2>3 DEF Latched, MarkLatched, ReasonsFit, LatchingReasons, LatchedIssues
  <2>4. ASSUME ObserveHealthySample, ~UNCHANGED gateVars  PROVE ReasonsFit'
    BY <2>4 DEF ObserveHealthySample, ReasonsFit, LatchingReasons, LatchedIssues
  <2>5. (InputsReason # "INPUT_HEALTHY" => FaultReason(InputsReason))'
    BY InputsReasonFits, PTL
  <2>6. CASE MaybeAdvanceHealth
    BY <2>1, <2>2, <2>4, <2>5, <2>6 DEF MaybeAdvanceHealth, FaultReason, LatchingReasons, healthVars
  <2>7. CASE TimerWaits
    <3>1. CASE MarkStarting(InputsReason')
      BY <2>1, <2>7, <3>1 DEF TimerWaits, MarkStarting, ReasonsFit, WaitingReasons,
        LatchingReasons, LatchedIssues
    <3>2. FaultReason("STARTUP_TIMEOUT")
      BY DEF FaultReason, LatchingReasons, LatchedIssues
    <3>. QED  BY <2>2, <2>7, <3>1, <3>2 DEF TimerWaits
  <2>8. UNCHANGED healthVars => UNCHANGED gateVars
    BY DEF healthVars
  <2>. QED  BY <2>1, <2>2, <2>3, <2>6, <2>7, <2>8, ReasonedMoves DEF Transient
<1>. QED  BY <1>1, <1>2, TypeCorrect, PTL DEF Spec
=============================================================================
