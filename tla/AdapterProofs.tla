--------------------------- MODULE AdapterProofs ---------------------------
(***************************************************************************)
(* Proofs about AdapterNode for every contract and every environment that  *)
(* satisfy its assumptions.                                                *)
(***************************************************************************)
EXTENDS AdapterProperties, TLAPS, SequenceTheorems, FiniteSetTheorems

-----------------------------------------------------------------------------
(* What each step leaves alone, so that a proof about one group of         *)
(* variables meets only the actions that touch it.                         *)

(* The odometry handler touches odometry and health only. *)
LEMMA OdometryFrame ==
  ASSUME NEW sample, OnOdometry(sample)
  PROVE  UNCHANGED <<clockVars, statusVars, diagnosticVars, timerVars>>
BY DEF OnOdometry, OdometryInvalid, OdometryOutOfOrder, OdometryClockMismatch,
  OdometryJumps, OdometryWarmsUp, OdometryUntimely, OdometryTransformFails,
  OdometryAccepted, AcceptOdometry, DropOdometry, RejectOdometry, OdometryOthersUnchanged

(* The status handler touches the tracking status and health only. *)
LEMMA StatusFrame ==
  ASSUME NEW message, OnVisualSlamStatus(message)
  PROVE  UNCHANGED <<clockVars, odometryVars, diagnosticVars, timerVars>>
BY DEF OnVisualSlamStatus, StatusInvalid, StatusOutOfOrder, StatusClockMismatch,
  TrackingLost, TrackingAccepted, DropStatus, CommitStatus, StatusOthersUnchanged

(* The diagnostics handler touches upstream diagnostics and health only. *)
LEMMA DiagnosticFrame ==
  ASSUME NEW message, NEW endpoints, OnUpstreamDiagnostics(message, endpoints)
  PROVE  UNCHANGED <<clockVars, odometryVars, statusVars, timerVars>>
BY DEF OnUpstreamDiagnostics, DiagnosticsRepeatAName, DiagnosticsUnattributed,
  DiagnosticsUntimed, DiagnosticsOutOfOrder, DiagnosticsFlawed, DiagnosticsAccepted,
  RejectDiagnostics, CommitDiagnostics, DiagnosticOthersUnchanged

(* The timer touches the publishers, the report and health only. *)
LEMMA TimerFrame ==
  ASSUME OnDiagnosticTimer
  PROVE  TimerFires /\ UNCHANGED <<clockVars, odometryVars, statusVars, diagnosticVars>>
BY DEF OnDiagnosticTimer, TimerLatches, TimerFindsHealthy, TimerWaits,
  TimerFindsFault, TimerFires

(* The clocks touch nothing of the node. *)
LEMMA ClockFrame ==
  ASSUME Tick \/ ClockStep
  PROVE  UNCHANGED <<odometryVars, statusVars, diagnosticVars, timerVars, healthVars>>
BY DEF Tick, ClockStep
-----------------------------------------------------------------------------
(* What the helpers return.                                                *)

(* A set of natural numbers that is not empty has a least one, Min. *)
LEMMA LeastNatural ==
  ASSUME NEW S \in SUBSET Nat, S # {}
  PROVE  Min(S) \in S /\ \A n \in S : Min(S) <= n
<1>. DEFINE R == {pair \in Nat \X Nat : pair[1] < pair[2]}
<1>1. IsWellFoundedOn(R, Nat)
  BY NatLessThanWellFounded DEF OpToRel
<1>2. PICK x \in S : \A y \in S : <<y, x>> \notin R
  BY <1>1, WFMin, Zenon
<1>3. ASSUME NEW y \in Nat, y < x  PROVE <<y, x>> \in R
  BY <1>3
<1>4. ASSUME NEW y \in S  PROVE x <= y
  <2>1. y \in Nat /\ x \in Nat /\ <<y, x>> \notin R
    BY <1>2
  <2>2. ~(y < x)
    BY <1>3, <2>1, Zenon
  <2>. QED  BY <2>1, <2>2
<1>. QED  BY <1>4 DEF Min

(* The stamp of a sent message is a natural number. *)
LEMMA StampSentType ==
  ASSUME ros \in Nat, NEW lag \in Int
  PROVE  StampSent(lag) \in Nat
BY DEF StampSent, NoStamp

(* Sliding keeps the window's type and bound, never shortens it, and puts  *)
(* the new stamp behind the younger of the old ones.                       *)
LEMMA SlideProperties ==
  ASSUME NEW window \in Seq(Nat), Len(window) <= RateWindow, NEW stamp \in Nat
  PROVE  /\ Slide(window, stamp) \in Seq(Nat)
         /\ Len(Slide(window, stamp)) <= RateWindow
         /\ Len(window) <= Len(Slide(window, stamp))
         /\ Len(Slide(window, stamp)) > 0
         /\ Slide(window, stamp)[Len(Slide(window, stamp))] = stamp
         /\ \E shift \in {0, 1} : \A k \in 1..(Len(Slide(window, stamp)) - 1) :
              /\ k + shift \in 1..Len(window)
              /\ Slide(window, stamp)[k] = window[k + shift]
<1>. DEFINE s == Slide(window, stamp)
<1>0. RateWindow \in Nat /\ RateWindow >= 2
  BY HealthContract
<1>1. CASE Len(window) < RateWindow
  <2>1. s = Append(window, stamp)
    BY <1>1 DEF Slide
  <2>2. /\ s \in Seq(Nat) /\ Len(s) = Len(window) + 1 /\ s[Len(window) + 1] = stamp
        /\ \A k \in 1..Len(window) : s[k] = window[k]
    BY <2>1, AppendProperties
  <2>. QED  BY <1>0, <1>1, <2>2
<1>2. CASE Len(window) = RateWindow
  <2>1. s = Append(Tail(window), stamp) /\ window # <<>>
    BY <1>0, <1>2 DEF Slide
  <2>2. /\ Tail(window) \in Seq(Nat) /\ Len(Tail(window)) = RateWindow - 1
        /\ \A k \in 1..(RateWindow - 1) : Tail(window)[k] = window[k + 1]
    BY <1>0, <1>2, <2>1, HeadTailProperties
  <2>3. /\ s \in Seq(Nat) /\ Len(s) = RateWindow /\ s[RateWindow] = stamp
        /\ \A k \in 1..(RateWindow - 1) : s[k] = Tail(window)[k]
    BY <1>0, <2>1, <2>2, AppendProperties
  <2>. QED  BY <1>0, <1>2, <2>2, <2>3
<1>. QED  BY <1>0, <1>1, <1>2

(* Both reject paths of a frame whose stamp was or was not committed. *)
LEMMA CommitSequenceType ==
  ASSUME TypeOK, NEW sample, sample.stamp \in Nat, CommitSequence(sample)
  PROVE  /\ odometry_sequence_guard' \in Nat
         /\ recent_odometry_stamps' \in Seq(Nat)
         /\ Len(recent_odometry_stamps') <= RateWindow
         /\ last_odometry_observed_at' \in Nat \cup {Never}
BY SlideProperties DEF CommitSequence, TypeOK, ClockTypeOK, OdometryTypeOK

(* Odometry samples carry a natural stamp and an integer position. *)
LEMMA SampleType ==
  ASSUME TypeOK, NEW sample \in OdometrySamples
  PROVE  /\ sample.stamp \in Nat /\ sample.pose \in Int
         /\ sample.defects \subseteq {IssueOrder[n] : n \in DOMAIN IssueOrder}
<1>1. PICK lag \in OdometryLags, p \in Poses, d \in OdometryDefects :
        sample = [stamp |-> StampSent(lag), pose |-> p, defects |-> d]
  BY DEF OdometrySamples
<1>2. StampSent(lag) \in Nat
  BY StampSentType, EnvironmentAssumption DEF TypeOK, ClockTypeOK
<1>. QED  BY <1>1, <1>2, EnvironmentAssumption

(* The odometry handler keeps the odometry variables typed. *)
LEMMA OdometryTypeStep ==
  ASSUME TypeOK, NEW sample \in OdometrySamples, OnOdometry(sample)
  PROVE  OdometryTypeOK'
<1>0. sample.stamp \in Nat /\ sample.pose \in Int
  BY SampleType
<1>1. CASE DropOdometry
  BY <1>1 DEF DropOdometry, RejectOdometry, sequenceVars, acceptedVars, TypeOK, OdometryTypeOK
<1>2. CASE CommitSequence(sample) /\ RejectOdometry /\ UNCHANGED <<acceptedVars, last_shadow_pose>>
  BY <1>0, <1>2, CommitSequenceType DEF RejectOdometry, acceptedVars, TypeOK, OdometryTypeOK
<1>3. CASE /\ AcceptOdometry(sample)
           /\ last_odometry_valid' \in BOOLEAN
           /\ last_shadow_pose' \in {last_shadow_pose, <<CameraPoseToBasePose(sample.pose)>>}
  <2>1. CommitSequence(sample)
    BY <1>3 DEF AcceptOdometry
  <2>2. CameraPoseToBasePose(sample.pose) \in Int
    BY <1>0, RequiredContract DEF CameraPoseToBasePose
  <2>3. last_shadow_pose' \in Seq(Int)
    <3>1. <<CameraPoseToBasePose(sample.pose)>> \in Seq(Int)
      BY <2>2
    <3>. QED  BY <1>3, <3>1 DEF TypeOK, OdometryTypeOK
  <2>4. /\ stamp_guard' \in Nat /\ received' \in BOOLEAN
        /\ last_odometry_received_at' \in Nat
    BY <1>0, <1>3 DEF AcceptOdometry, TypeOK, ClockTypeOK
  <2>5. last_input_pose' \in Seq(Int)
    <3>1. last_input_pose' = <<sample.pose>>
      BY <1>3 DEF AcceptOdometry
    <3>. QED  BY <1>0, <3>1
  <2>. QED  BY <1>0, <1>3, <2>1, <2>3, <2>4, <2>5, CommitSequenceType DEF OdometryTypeOK
<1>4. CASE OdometryInvalid(sample) \/ OdometryOutOfOrder(sample) \/ OdometryClockMismatch(sample)
  BY <1>1, <1>4 DEF OdometryInvalid, OdometryOutOfOrder, OdometryClockMismatch
<1>5. CASE OdometryJumps(sample) \/ OdometryWarmsUp(sample) \/ OdometryUntimely(sample)
  BY <1>2, <1>5 DEF OdometryJumps, OdometryWarmsUp, OdometryUntimely
<1>6. CASE OdometryTransformFails(sample) \/ OdometryAccepted(sample)
  BY <1>3, <1>6 DEF OdometryTransformFails, OdometryAccepted
<1>. QED  BY <1>4, <1>5, <1>6 DEF OnOdometry

(* Status messages carry a natural stamp. *)
LEMMA StatusMessageType ==
  ASSUME TypeOK, NEW message \in StatusMessages
  PROVE  message.stamp \in Nat
<1>1. PICK lag \in StatusLags, k \in StatusKinds : message = [stamp |-> StampSent(lag), kind |-> k]
  BY DEF StatusMessages
<1>. QED  BY <1>1, StampSentType, EnvironmentAssumption DEF TypeOK, ClockTypeOK

(* The status handler keeps the status variables typed. *)
LEMMA StatusTypeStep ==
  ASSUME TypeOK, NEW message \in StatusMessages, OnVisualSlamStatus(message)
  PROVE  StatusTypeOK'
BY StatusMessageType DEF OnVisualSlamStatus, StatusInvalid, StatusOutOfOrder,
  StatusClockMismatch, TrackingLost, TrackingAccepted, DropStatus, CommitStatus,
  TypeOK, ClockTypeOK, StatusTypeOK

(* Diagnostic messages carry a natural stamp and a sequence of statuses,   *)
(* whose levels are natural numbers.                                       *)
LEMMA DiagnosticMessageType ==
  ASSUME TypeOK, NEW message \in DiagnosticMessages
  PROVE  /\ message.stamp \in Nat
         /\ Len(message.status) \in Nat /\ DOMAIN message.status = 1..Len(message.status)
         /\ \A k \in DOMAIN message.status : message.status[k].level \in Nat
<1>1. PICK lag \in DiagnosticLags, g \in DiagnosticGids, s \in DiagnosticStatuses :
        message = [stamp |-> StampSent(lag), gid |-> g, status |-> s]
  BY DEF DiagnosticMessages
<1>2. message.stamp \in Nat
  BY <1>1, StampSentType, EnvironmentAssumption DEF TypeOK, ClockTypeOK
<1>3. message.status \in Seq([name : Nat, level : Nat,
                              flaws : SUBSET {"hardware_id", "duplicate_key", "value"}])
  BY <1>1, EnvironmentAssumption, Zenon
<1>4. ASSUME NEW S, message.status \in Seq(S), \A status \in S : status.level \in Nat
      PROVE  \A k \in 1..Len(message.status) : message.status[k].level \in Nat
  BY <1>4
<1>5. \A k \in 1..Len(message.status) : message.status[k].level \in Nat
  <2>. DEFINE S == [name : Nat, level : Nat,
                    flaws : SUBSET {"hardware_id", "duplicate_key", "value"}]
  <2>1. \A status \in S : status.level \in Nat
    OBVIOUS
  <2>. HIDE DEF S
  <2>. QED  BY <1>3, <1>4, <2>1 DEF S
<1>. QED  BY <1>2, <1>3, <1>5

(* StatusOf finds the status of a name the message carries. *)
LEMMA StatusOfName ==
  ASSUME NEW message, NEW i \in CandidateNames(message)
  PROVE  \E k \in Candidates(message) :
           message.status[k].name = i /\ StatusOf(message, i) = message.status[k]
BY DEF CandidateNames, StatusOf

(* The diagnostics handler keeps the diagnostic variables typed. *)
LEMMA DiagnosticTypeStep ==
  ASSUME TypeOK, NEW message \in DiagnosticMessages, NEW endpoints \in DiagnosticEndpoints,
         OnUpstreamDiagnostics(message, endpoints)
  PROVE  DiagnosticTypeOK'
<1>0. /\ message.stamp \in Nat
      /\ \A k \in Candidates(message) : message.status[k].level \in Nat
  BY DiagnosticMessageType DEF Candidates
<1>1. ASSUME NEW names, Erase(names), diagnostic_sequence_guards' \in [Required -> Nat]
      PROVE  DiagnosticTypeOK'
  BY <1>1 DEF Erase, TypeOK, DiagnosticTypeOK, NoStamp
<1>2. CommitDiagnostics(message, endpoints) => diagnostic_sequence_guards' \in [Required -> Nat]
  BY <1>0 DEF CommitDiagnostics, TypeOK, DiagnosticTypeOK
<1>3. CASE DiagnosticsRepeatAName(message)
  BY <1>1, <1>3 DEF DiagnosticsRepeatAName, TypeOK, DiagnosticTypeOK
<1>4. CASE \/ DiagnosticsUnattributed(message, endpoints) \/ DiagnosticsUntimed(message, endpoints)
           \/ DiagnosticsOutOfOrder(message, endpoints)
  BY <1>1, <1>4 DEF DiagnosticsUnattributed, DiagnosticsUntimed, DiagnosticsOutOfOrder,
    RejectDiagnostics, TypeOK, DiagnosticTypeOK
<1>5. CASE DiagnosticsFlawed(message, endpoints)
  BY <1>1, <1>2, <1>5 DEF DiagnosticsFlawed
<1>6. CASE DiagnosticsAccepted(message, endpoints)
  <2>1. \A i \in CandidateNames(message) : StatusOf(message, i).level \in Nat
    BY <1>0, StatusOfName
  <2>. QED  BY <1>0, <1>2, <1>6, <2>1 DEF DiagnosticsAccepted, TypeOK, ClockTypeOK, DiagnosticTypeOK
<1>. QED  BY <1>3, <1>4, <1>5, <1>6 DEF OnUpstreamDiagnostics

-----------------------------------------------------------------------------
(* The gate.                                                               *)

(* Marking and observing keep the gate typed. *)
LEMMA MarkType ==
  ASSUME TypeOK, NEW why
  PROVE  /\ Transient(why) => GateTypeOK'
         /\ Latched(why) => GateTypeOK'
BY RecoveryAssumption DEF Transient, Latched, MarkTransient, MarkLatched, gateVars,
  HealthStates, TypeOK, GateTypeOK

(* Judging the evidence keeps the gate's type. *)
LEMMA AdvanceType ==
  ASSUME TypeOK, stamp_guard' \in Nat, MaybeAdvanceHealth
  PROVE  GateTypeOK'
<1>1. UNCHANGED healthVars => GateTypeOK'
  BY DEF healthVars, gateVars, TypeOK, GateTypeOK
<1>2. MarkTransient(InputsReason') /\ UNCHANGED last_health_observed_stamp => GateTypeOK'
  BY MarkType DEF Transient
<1>3. ASSUME ObserveHealthySample, last_health_observed_stamp' = stamp_guard'
      PROVE  GateTypeOK'
  <2>1. health' \in HealthStates
    BY <1>3 DEF ObserveHealthySample, gateVars, HealthStates, TypeOK, GateTypeOK
  <2>2. progress' \in 0..(RecoveryRequired - 1)
    BY <1>3, RecoveryAssumption DEF ObserveHealthySample, gateVars, TypeOK, GateTypeOK
  <2>3. progress' # 0 => health' = "recovering"
    BY <1>3 DEF ObserveHealthySample, gateVars, HealthStates, TypeOK, GateTypeOK
  <2>. QED  BY <1>3, <2>1, <2>2, <2>3 DEF GateTypeOK
<1>. QED  BY <1>1, <1>2, <1>3 DEF MaybeAdvanceHealth, healthVars

(* A callback makes at most one call on the gate. *)
LEMMA GateMoves ==
  ASSUME [Next]_vars
  PROVE  \/ UNCHANGED healthVars
         \/ \E why : Transient(why) \/ Latched(why)
         \/ MaybeAdvanceHealth
         \/ TimerWaits
<1>1. CASE UNCHANGED vars
  BY <1>1 DEF vars
<1>2. CASE \E sample \in OdometrySamples : OnOdometry(sample)
  BY <1>2 DEF OnOdometry, OdometryInvalid, OdometryOutOfOrder, OdometryClockMismatch,
    OdometryJumps, OdometryWarmsUp, OdometryUntimely, OdometryTransformFails,
    OdometryAccepted
<1>3. CASE \E message \in StatusMessages : OnVisualSlamStatus(message)
  BY <1>3 DEF OnVisualSlamStatus, StatusInvalid, StatusOutOfOrder, StatusClockMismatch,
    TrackingLost, TrackingAccepted
<1>4. CASE \E message \in DiagnosticMessages, endpoints \in DiagnosticEndpoints :
             OnUpstreamDiagnostics(message, endpoints)
  BY <1>4 DEF OnUpstreamDiagnostics, DiagnosticsRepeatAName, DiagnosticsUnattributed,
    DiagnosticsUntimed, DiagnosticsOutOfOrder, DiagnosticsFlawed, DiagnosticsAccepted
<1>5. CASE OnDiagnosticTimer
  BY <1>5 DEF OnDiagnosticTimer, TimerLatches, TimerFindsHealthy, TimerFindsFault
<1>6. CASE Tick \/ ClockStep
  BY <1>6, ClockFrame
<1>. QED  BY <1>1, <1>2, <1>3, <1>4, <1>5, <1>6 DEF Next
-----------------------------------------------------------------------------
(* Type correctness.                                                       *)

(* The timer keeps the publishers and the report typed. *)
LEMMA TimerTypeStep ==
  ASSUME TypeOK, GateTypeOK', OnDiagnosticTimer
  PROVE  timerDue' \in Nat /\ PublisherTypeOK' /\ ReportTypeOK'
<1>1. TimerFires
  BY TimerFrame
<1>2. timerDue' \in Nat
  BY <1>1, HealthContract DEF TimerFires, TypeOK, ClockTypeOK
<1>3. PublisherTypeOK'
  <2>1. ASSUME NEW list \in PublisherLists, NEW expected
        PROVE  PublisherEvidence(list, expected) \in Evidence
    <3>1. Len(list) \in Nat
      BY EnvironmentAssumption, LenProperties
    <3>. QED  BY <3>1 DEF PublisherEvidence, Evidence
  <2>. QED  BY <1>1, <2>1 DEF TimerFires, PublisherTypeOK
<1>4. ReportTypeOK'
  <2>1. report' = [health |-> health', level |-> ReportLevel(health')]
    BY DEF OnDiagnosticTimer, TimerLatches, TimerFindsHealthy, TimerWaits,
      TimerFindsFault, PublishDiagnostics
  <2>2. ReportLevel(health') \in {"STALE", "ERROR", "WARN", "OK"}
    BY DEF ReportLevel
  <2>. QED  BY <2>1, <2>2 DEF ReportTypeOK, GateTypeOK
<1>. QED  BY <1>2, <1>3, <1>4

(* TypeOK holds initially and is kept by every step. *)
LEMMA TypeInit == Init => TypeOK
<1>. SUFFICES ASSUME Init PROVE TypeOK
  OBVIOUS
<1>1. ClockTypeOK
  BY HealthContract, EnvironmentAssumption DEF Init, ClockTypeOK
<1>2. OdometryTypeOK
  <2>1. <<>> \in Seq(Nat) /\ <<>> \in Seq(Int) /\ Len(<<>>) = 0
    OBVIOUS
  <2>2. Len(recent_odometry_stamps) <= RateWindow
    BY <2>1, HealthContract DEF Init
  <2>3. /\ odometry_sequence_guard \in Nat /\ stamp_guard \in Nat
        /\ last_odometry_valid \in BOOLEAN /\ received \in BOOLEAN
    BY DEF Init, NoStamp
  <2>. QED  BY <2>1, <2>2, <2>3 DEF Init, OdometryTypeOK, NoPose
<1>3. StatusTypeOK /\ DiagnosticTypeOK /\ PublisherTypeOK
  BY DEF Init, StatusTypeOK, DiagnosticTypeOK, PublisherTypeOK, Evidence, NoStamp
<1>4. GateTypeOK /\ ReportTypeOK
  BY RecoveryAssumption DEF Init, GateInit, GateTypeOK, ReportTypeOK, HealthStates,
    NoReport, NoStamp
<1>. QED  BY <1>1, <1>2, <1>3, <1>4 DEF TypeOK

(* Every step keeps the types. *)
LEMMA TypeStep == TypeOK /\ [Next]_vars => TypeOK'
<1>. SUFFICES ASSUME TypeOK, [Next]_vars PROVE TypeOK'
  OBVIOUS
<1>1. OdometryTypeOK'
  <2>1. UNCHANGED odometryVars => OdometryTypeOK'
    BY DEF odometryVars, sequenceVars, acceptedVars, TypeOK, OdometryTypeOK
  <2>. QED  BY <2>1, OdometryTypeStep, StatusFrame, DiagnosticFrame, TimerFrame, ClockFrame
        DEF Next, vars
<1>2. StatusTypeOK'
  <2>1. UNCHANGED statusVars => StatusTypeOK'
    BY DEF statusVars, TypeOK, StatusTypeOK
  <2>. QED  BY <2>1, StatusTypeStep, OdometryFrame, DiagnosticFrame, TimerFrame, ClockFrame
        DEF Next, vars
<1>3. DiagnosticTypeOK'
  <2>1. UNCHANGED diagnosticVars => DiagnosticTypeOK'
    BY DEF diagnosticVars, observationVars, TypeOK, DiagnosticTypeOK
  <2>. QED  BY <2>1, DiagnosticTypeStep, OdometryFrame, StatusFrame, TimerFrame, ClockFrame
        DEF Next, vars
<1>4. GateTypeOK'
  <2>1. UNCHANGED healthVars => GateTypeOK'
    BY DEF healthVars, gateVars, TypeOK, GateTypeOK
  <2>2. MaybeAdvanceHealth => GateTypeOK'
    BY <1>1, AdvanceType DEF OdometryTypeOK
  <2>3. TimerWaits => GateTypeOK'
    BY RecoveryAssumption DEF TimerWaits, MarkStarting, MarkTransient, gateVars,
      HealthStates, TypeOK, GateTypeOK
  <2>. QED  BY <2>1, <2>2, <2>3, GateMoves, MarkType
<1>5. ClockTypeOK' /\ PublisherTypeOK' /\ ReportTypeOK'
  <2>1. CASE UNCHANGED <<clockVars, timerVars>>
    BY <2>1 DEF clockVars, timerVars, publisherVars, TypeOK, ClockTypeOK, PublisherTypeOK,
      ReportTypeOK
  <2>2. CASE OnDiagnosticTimer
    BY <1>4, <2>2, TimerTypeStep, TimerFrame DEF clockVars, TypeOK, ClockTypeOK
  <2>3. CASE Tick \/ ClockStep
    BY <2>3, ClockFrame DEF Tick, ClockStep, timerVars, publisherVars, TypeOK, ClockTypeOK,
      PublisherTypeOK, ReportTypeOK
  <2>. QED  BY <2>1, <2>2, <2>3, OdometryFrame, StatusFrame, DiagnosticFrame DEF Next, vars
<1>. QED  BY <1>1, <1>2, <1>3, <1>4, <1>5 DEF TypeOK

(* TypeCorrect: in every reachable state every member has its type. *)
THEOREM TypeCorrect == Spec => []TypeOK
BY TypeInit, TypeStep, PTL DEF Spec

(* LatchedForever: no step of any handler leaves a latched fault. *)
THEOREM LatchedForever == Spec => LatchedIsFinal
<1>1. TypeOK /\ [Next]_vars => LatchedStays
  <2>. SUFFICES ASSUME TypeOK, [Next]_vars, health = "latched_fault"
                PROVE  /\ health' = "latched_fault" /\ progress' = 0
                       /\ last_health_observed_stamp' = last_health_observed_stamp
    BY DEF LatchedStays
  <2>1. progress = 0
    BY DEF TypeOK, GateTypeOK
  <2>. QED  BY <2>1, GateMoves DEF healthVars, gateVars, Transient, Latched, MarkTransient,
        MarkLatched, MaybeAdvanceHealth, TimerWaits
<1>. QED  BY <1>1, TypeCorrect, PTL DEF Spec, LatchedIsFinal

-----------------------------------------------------------------------------
(* The stamp guards.                                                       *)

(* An accepted stamp is newer than the last one. *)
LEMMA AcceptedIsNewer ==
  ASSUME NEW last \in Nat, NEW stamp \in Nat, stamp > 0, Classify(last, stamp) = "accept"
  PROVE  last < stamp
BY DEF Classify, NoStamp

(* The window after a commit: still increasing, up to the new stamp. *)
LEMMA CommitKeepsOrder ==
  ASSUME TypeOK, GuardsOrdered, NEW sample \in OdometrySamples, CommitSequence(sample)
  PROVE  /\ odometry_sequence_guard < odometry_sequence_guard'
         /\ odometry_sequence_guard' = sample.stamp
         /\ \A k \in 2..Len(recent_odometry_stamps') :
              recent_odometry_stamps'[k-1] < recent_odometry_stamps'[k]
         /\ \A k \in 1..Len(recent_odometry_stamps') :
              /\ 0 < recent_odometry_stamps'[k]
              /\ recent_odometry_stamps'[k] <= odometry_sequence_guard'
<1>. DEFINE w == recent_odometry_stamps
            s == Slide(w, sample.stamp)
<1>1. sample.stamp \in Nat /\ sample.stamp > 0
  BY SampleType DEF CommitSequence, ClockDomainMatches
<1>2. odometry_sequence_guard < sample.stamp
  BY <1>1, AcceptedIsNewer DEF CommitSequence, InSequence, TypeOK, OdometryTypeOK
<1>3. recent_odometry_stamps' = s /\ odometry_sequence_guard' = sample.stamp
  BY DEF CommitSequence
<1>4. w \in Seq(Nat) /\ Len(w) <= RateWindow /\ odometry_sequence_guard \in Nat
  BY DEF TypeOK, OdometryTypeOK
<1>5. s \in Seq(Nat) /\ Len(s) > 0 /\ s[Len(s)] = sample.stamp
  BY <1>1, <1>4, SlideProperties
<1>6. PICK shift \in {0, 1} : \A k \in 1..(Len(s) - 1) : k + shift \in 1..Len(w) /\ s[k] = w[k + shift]
  BY <1>1, <1>4, SlideProperties
<1>7. \A k \in 1..Len(w) : w[k] \in Nat /\ 0 < w[k] /\ w[k] <= odometry_sequence_guard
  BY <1>4 DEF GuardsOrdered
<1>8. \A k \in 2..Len(w) : w[k-1] < w[k]
  BY DEF GuardsOrdered
<1>. HIDE DEF s, w
<1>9. \A k \in 1..Len(s) : 0 < s[k] /\ s[k] <= sample.stamp
  <2>. TAKE k \in 1..Len(s)
  <2>1. CASE k = Len(s)
    BY <1>1, <1>5, <2>1
  <2>2. CASE k # Len(s)
    <3>1. k \in 1..(Len(s) - 1)
      BY <1>5, <2>2
    <3>2. k + shift \in 1..Len(w) /\ s[k] = w[k + shift]
      BY <1>6, <3>1
    <3>. QED  BY <1>1, <1>2, <1>4, <1>7, <3>2
  <2>. QED  BY <2>1, <2>2
<1>10. \A k \in 2..Len(s) : s[k-1] < s[k]
  <2>. TAKE k \in 2..Len(s)
  <2>1. k - 1 \in 1..(Len(s) - 1)
    BY <1>5
  <2>2. (k - 1) + shift \in 1..Len(w) /\ s[k-1] = w[(k - 1) + shift]
    BY <1>6, <2>1
  <2>3. CASE k = Len(s)
    <3>1. s[k-1] \in Nat /\ s[k-1] <= odometry_sequence_guard
      BY <1>7, <2>2
    <3>2. s[k] = sample.stamp
      BY <1>5, <2>3
    <3>. QED  BY <1>1, <1>2, <1>4, <3>1, <3>2
  <2>4. CASE k # Len(s)
    <3>1. k \in 1..(Len(s) - 1)
      BY <1>5, <2>4
    <3>2. k + shift \in 1..Len(w) /\ s[k] = w[k + shift]
      BY <1>6, <3>1
    <3>3. k + shift \in 2..Len(w) /\ (k - 1) + shift = (k + shift) - 1
      BY <2>2, <3>2
    <3>. QED  BY <1>8, <2>2, <3>2, <3>3
  <2>. QED  BY <2>3, <2>4
<1>. QED  BY <1>2, <1>3, <1>9, <1>10

(* The gate credits no other stamp than the one just accepted. *)
LEMMA CreditMoves ==
  ASSUME [Next]_vars
  PROVE  last_health_observed_stamp' \in {last_health_observed_stamp, stamp_guard'}
BY GateMoves DEF healthVars, Transient, Latched, MaybeAdvanceHealth, TimerWaits

(* No stamp is in order with no other. *)
LEMMA GuardsInit == Init => GuardsOrdered
<1>. SUFFICES ASSUME Init PROVE GuardsOrdered
  OBVIOUS
<1>1. Len(recent_odometry_stamps) = 0
  BY DEF Init
<1>. QED  BY <1>1 DEF Init, GateInit, GuardsOrdered, NoStamp

(* Every handler commits a stamp only behind those it has let pass. *)
LEMMA GuardsStep == TypeOK /\ GuardsOrdered /\ [Next]_vars => GuardsOrdered'
<1>. SUFFICES ASSUME TypeOK, GuardsOrdered, [Next]_vars PROVE GuardsOrdered'
  OBVIOUS
<1>. DEFINE WindowOrdered ==
       /\ \A k \in 2..Len(recent_odometry_stamps) :
            recent_odometry_stamps[k-1] < recent_odometry_stamps[k]
       /\ \A k \in 1..Len(recent_odometry_stamps) :
            /\ 0 < recent_odometry_stamps[k]
            /\ recent_odometry_stamps[k] <= odometry_sequence_guard
<1>0. /\ odometry_sequence_guard \in Nat /\ odometry_sequence_guard' \in Nat
      /\ stamp_guard \in Nat /\ stamp_guard' \in Nat
  BY TypeStep DEF TypeOK, OdometryTypeOK
<1>1. /\ WindowOrdered'
      /\ stamp_guard <= stamp_guard' /\ stamp_guard' <= odometry_sequence_guard'
  <2>1. CASE UNCHANGED <<sequenceVars, acceptedVars>>
    BY <1>0, <2>1 DEF sequenceVars, acceptedVars, GuardsOrdered
  <2>2. ASSUME NEW sample \in OdometrySamples, CommitSequence(sample),
               stamp_guard' \in {stamp_guard, sample.stamp}
        PROVE  /\ WindowOrdered'
               /\ stamp_guard <= stamp_guard' /\ stamp_guard' <= odometry_sequence_guard'
    BY <1>0, <2>2, CommitKeepsOrder DEF GuardsOrdered
  <2>3. ASSUME NEW sample \in OdometrySamples, OnOdometry(sample)
        PROVE  \/ UNCHANGED <<sequenceVars, acceptedVars>>
               \/ CommitSequence(sample) /\ stamp_guard' \in {stamp_guard, sample.stamp}
    BY <2>3 DEF OnOdometry, OdometryInvalid, OdometryOutOfOrder, OdometryClockMismatch,
      OdometryJumps, OdometryWarmsUp, OdometryUntimely, OdometryTransformFails,
      OdometryAccepted, DropOdometry, AcceptOdometry, acceptedVars
  <2>4. UNCHANGED odometryVars => UNCHANGED <<sequenceVars, acceptedVars>>
    BY DEF odometryVars
  <2>5. UNCHANGED odometryVars \/ \E sample \in OdometrySamples : OnOdometry(sample)
    BY StatusFrame, DiagnosticFrame, TimerFrame, ClockFrame DEF Next, vars
  <2>. HIDE DEF WindowOrdered
  <2>. QED  BY <2>1, <2>2, <2>3, <2>4, <2>5
<1>2. status_stamp_guard' <= status_sequence_guard'
  <2>1. UNCHANGED statusVars \/ \E message \in StatusMessages : OnVisualSlamStatus(message)
    BY OdometryFrame, DiagnosticFrame, TimerFrame, ClockFrame DEF Next, vars
  <2>2. CASE UNCHANGED statusVars
    BY <2>2 DEF statusVars, GuardsOrdered
  <2>3. ASSUME NEW message \in StatusMessages, OnVisualSlamStatus(message)
        PROVE  status_stamp_guard' <= status_sequence_guard'
    <3>1. message.stamp \in Nat
      BY StatusMessageType
    <3>2. CASE DropStatus
      BY <3>2 DEF DropStatus, GuardsOrdered
    <3>3. CASE CommitStatus(message) /\ status_stamp_guard' = status_stamp_guard
      <4>1. status_sequence_guard < message.stamp
        BY <3>1, <3>3, AcceptedIsNewer DEF CommitStatus, WellFormed, TypeOK, StatusTypeOK
      <4>. QED  BY <3>1, <3>3, <4>1 DEF CommitStatus, GuardsOrdered, TypeOK, StatusTypeOK
    <3>4. CASE CommitStatus(message) /\ status_stamp_guard' = message.stamp
      BY <3>1, <3>4 DEF CommitStatus
    <3>. QED  BY <2>3, <3>2, <3>3, <3>4 DEF OnVisualSlamStatus, StatusInvalid, StatusOutOfOrder,
          StatusClockMismatch, TrackingLost, TrackingAccepted
  <2>. QED  BY <2>1, <2>2, <2>3
<1>3. last_health_observed_stamp' <= stamp_guard'
  <2>1. last_health_observed_stamp \in Nat /\ last_health_observed_stamp <= stamp_guard
    BY DEF TypeOK, GateTypeOK, GuardsOrdered
  <2>. QED  BY <1>0, <1>1, <2>1, CreditMoves
<1>. QED  BY <1>1, <1>2, <1>3 DEF GuardsOrdered

(* GuardsStayOrdered: no Commit and no window metric ever throws. *)
THEOREM GuardsStayOrdered == Spec => []GuardsOrdered
BY GuardsInit, GuardsStep, TypeCorrect, PTL DEF Spec

-----------------------------------------------------------------------------
(* The evidence behind a healthy or recovering gate.                       *)

(* InputsReason says INPUT_HEALTHY only when all of the evidence is there. *)
LEMMA HealthyInputs ==
  ASSUME TypeOK, InputsReason = "INPUT_HEALTHY"
  PROVE  /\ odometry_publishers.count = 1 /\ odometry_publishers.valid
         /\ status_publishers.count = 1 /\ status_publishers.valid
         /\ last_odometry_valid /\ last_status_valid
         /\ RateKnown(recent_odometry_stamps)
         /\ ~RateBelow(recent_odometry_stamps, MinRateSamples, MinRateTicks)
         /\ ~GapExceeds(recent_odometry_stamps, MaxStampGap)
         /\ ~(StampDistance(stamp_guard, status_stamp_guard) > MaxSkew)
         /\ MissingDiagnostics = {}
BY DEF InputsReason, NoOdometryReason, DiagnosticReason

(* What StandingEvidence asks for, without the gate. *)
AllEvidence ==
  /\ odometry_publishers = [count |-> 1, valid |-> TRUE]
  /\ status_publishers = [count |-> 1, valid |-> TRUE]
  /\ last_odometry_valid /\ last_status_valid
  /\ Len(recent_odometry_stamps) = RateWindow
  /\ ~RateBelow(recent_odometry_stamps, MinRateSamples, MinRateTicks)
  /\ \A k \in 2..RateWindow :
       recent_odometry_stamps[k] - recent_odometry_stamps[k-1] <= MaxStampGap
  /\ StampDistance(stamp_guard, status_stamp_guard) <= MaxSkew
  /\ \A i \in Required : /\ diagnostic_received_at[i] # Never
                         /\ diagnostic_level[i] <= MaximumLevel[i]

(* Inputs found healthy are all of the evidence that does not age. *)
LEMMA HealthyInputsAreEvidence == TypeOK /\ InputsReason = "INPUT_HEALTHY" => AllEvidence
<1>. SUFFICES ASSUME TypeOK, InputsReason = "INPUT_HEALTHY" PROVE AllEvidence
  OBVIOUS
<1>0. /\ RateWindow \in Nat /\ MaxStampGap \in Nat /\ MaxSkew \in Nat
      /\ recent_odometry_stamps \in Seq(Nat)
      /\ stamp_guard \in Nat /\ status_stamp_guard \in Nat
  BY HealthContract DEF TypeOK, OdometryTypeOK, StatusTypeOK
<1>1. Len(recent_odometry_stamps) = RateWindow
  BY HealthyInputs DEF RateKnown
<1>2. \A k \in 2..RateWindow :
        recent_odometry_stamps[k] - recent_odometry_stamps[k-1] <= MaxStampGap
  <2>. TAKE k \in 2..RateWindow
  <2>1. ~(recent_odometry_stamps[k] - recent_odometry_stamps[k-1] > MaxStampGap)
    BY <1>1, HealthyInputs DEF GapExceeds
  <2>2. recent_odometry_stamps[k] \in Nat /\ recent_odometry_stamps[k-1] \in Nat
    BY <1>0, <1>1
  <2>. QED  BY <1>0, <2>1, <2>2
<1>3. StampDistance(stamp_guard, status_stamp_guard) <= MaxSkew
  BY <1>0, HealthyInputs DEF StampDistance
<1>4. \A i \in Required : /\ diagnostic_received_at[i] # Never
                         /\ diagnostic_level[i] <= MaximumLevel[i]
  <2>. TAKE i \in Required
  <2>1. i \notin MissingDiagnostics
    BY HealthyInputs
  <2>2. diagnostic_level[i] \in Nat /\ MaximumLevel[i] \in Nat
    BY RequiredContract DEF TypeOK, DiagnosticTypeOK
  <2>. QED  BY <2>1, <2>2 DEF MissingDiagnostics
<1>5. /\ odometry_publishers = [count |-> 1, valid |-> TRUE]
      /\ status_publishers = [count |-> 1, valid |-> TRUE]
  BY HealthyInputs DEF TypeOK, PublisherTypeOK, Evidence
<1>. QED  BY <1>1, <1>2, <1>3, <1>4, <1>5, HealthyInputs DEF AllEvidence

(* A callback that keeps the gate healthy or recovering has just found all *)
(* evidence there, but for a frame of a window that still fills.           *)
LEMMA Judged ==
  ASSUME TypeOK, [Next]_vars, health' \in {"healthy", "recovering"}
  PROVE  \/ InputsReason' = "INPUT_HEALTHY"
         \/ /\ health' = health
            /\ UNCHANGED <<odometryVars, statusVars, diagnosticVars, timerVars>>
         \/ health' = health /\ \E sample \in OdometrySamples : OdometryWarmsUp(sample)
<1>1. ASSUME NEW why, Transient(why) \/ Latched(why) PROVE FALSE
  BY <1>1 DEF Transient, Latched, MarkTransient, MarkLatched, gateVars
<1>2. MaybeAdvanceHealth => InputsReason' = "INPUT_HEALTHY"
  BY DEF MaybeAdvanceHealth, MarkTransient, healthVars, gateVars
<1>3. ~TimerWaits
  BY DEF TimerWaits, MarkStarting, MarkTransient
<1>4. CASE UNCHANGED vars
  BY <1>4 DEF vars, healthVars, gateVars
<1>5. CASE \E sample \in OdometrySamples : OnOdometry(sample)
  BY <1>1, <1>2, <1>5 DEF OnOdometry, OdometryInvalid, OdometryOutOfOrder,
    OdometryClockMismatch, OdometryJumps, OdometryWarmsUp, OdometryUntimely,
    OdometryTransformFails, OdometryAccepted, healthVars, gateVars
<1>6. CASE \E message \in StatusMessages : OnVisualSlamStatus(message)
  BY <1>1, <1>2, <1>6 DEF OnVisualSlamStatus, StatusInvalid, StatusOutOfOrder,
    StatusClockMismatch, TrackingLost, TrackingAccepted
<1>7. CASE \E message \in DiagnosticMessages, endpoints \in DiagnosticEndpoints :
             OnUpstreamDiagnostics(message, endpoints)
  BY <1>1, <1>2, <1>7 DEF OnUpstreamDiagnostics, DiagnosticsRepeatAName,
    DiagnosticsUnattributed, DiagnosticsUntimed, DiagnosticsOutOfOrder,
    DiagnosticsFlawed, DiagnosticsAccepted
<1>8. CASE OnDiagnosticTimer
  BY <1>1, <1>2, <1>3, <1>8 DEF OnDiagnosticTimer, TimerLatches, TimerFindsHealthy, TimerFindsFault
<1>9. CASE Tick \/ ClockStep
  BY <1>9, ClockFrame DEF healthVars, gateVars
<1>. QED  BY <1>4, <1>5, <1>6, <1>7, <1>8, <1>9 DEF Next

(* A frame of a filling window finds no healthy gate. *)
LEMMA NoWarmUpWhenHealthy ==
  ASSUME TypeOK, StandingEvidence, health \in {"healthy", "recovering"}, [Next]_vars,
         NEW sample \in OdometrySamples, OdometryWarmsUp(sample)
  PROVE  FALSE
<1>1. Len(recent_odometry_stamps) = RateWindow
  BY DEF StandingEvidence
<1>2. sample.stamp \in Nat
  BY SampleType
<1>3. Len(recent_odometry_stamps) <= Len(recent_odometry_stamps')
  BY <1>2, SlideProperties DEF OdometryWarmsUp, CommitSequence, TypeOK, OdometryTypeOK
<1>4. Len(recent_odometry_stamps') <= RateWindow /\ Len(recent_odometry_stamps') \in Nat
  BY TypeStep, LenProperties DEF TypeOK, OdometryTypeOK
<1>. QED  BY <1>1, <1>3, <1>4, HealthContract DEF OdometryWarmsUp, RateKnown

(* Whoever takes a piece of evidence away tells the gate in that step. *)
LEMMA StandingStep == TypeOK /\ StandingEvidence /\ [Next]_vars => StandingEvidence'
<1>. SUFFICES ASSUME TypeOK, StandingEvidence, [Next]_vars, health' \in {"healthy", "recovering"}
              PROVE  AllEvidence'
  BY DEF StandingEvidence, AllEvidence
<1>1. CASE InputsReason' = "INPUT_HEALTHY"
  <2>1. TypeOK'
    BY TypeStep
  <2>2. (TypeOK /\ InputsReason = "INPUT_HEALTHY" => AllEvidence)'
    BY HealthyInputsAreEvidence, PTL
  <2>. QED  BY <1>1, <2>1, <2>2
<1>2. CASE /\ health' = health
           /\ UNCHANGED <<odometryVars, statusVars, diagnosticVars, timerVars>>
  <2>1. AllEvidence
    BY <1>2 DEF StandingEvidence, AllEvidence
  <2>. QED  BY <1>2, <2>1 DEF AllEvidence, odometryVars, sequenceVars, acceptedVars,
        statusVars, diagnosticVars, observationVars, timerVars, publisherVars, RateBelow, StampDistance
<1>. QED  BY <1>1, <1>2, Judged, NoWarmUpWhenHealthy

(* EvidenceStands: a healthy or recovering gate has all of the evidence    *)
(* that does not age.                                                      *)
THEOREM EvidenceStands == Spec => []StandingEvidence
<1>1. Init => StandingEvidence
  BY DEF Init, GateInit, StandingEvidence
<1>. QED  BY <1>1, StandingStep, TypeCorrect, PTL DEF Spec

-----------------------------------------------------------------------------
(* Upstream diagnostics.                                                   *)

(* An observation is stored only when vetted, and erased with its guard's move. *)
LEMMA VettedStep == TypeOK /\ ObservationsVetted /\ [Next]_vars => ObservationsVetted'
<1>. SUFFICES ASSUME TypeOK, ObservationsVetted, [Next]_vars PROVE ObservationsVetted'
  OBVIOUS
<1>1. CASE UNCHANGED diagnosticVars
  BY <1>1 DEF diagnosticVars, observationVars, ObservationsVetted
<1>2. ASSUME NEW message \in DiagnosticMessages, NEW endpoints \in DiagnosticEndpoints,
             OnUpstreamDiagnostics(message, endpoints)
      PROVE  ObservationsVetted'
  <2>1. CASE \/ DiagnosticsRepeatAName(message)
             \/ DiagnosticsUnattributed(message, endpoints)
             \/ DiagnosticsUntimed(message, endpoints)
             \/ DiagnosticsOutOfOrder(message, endpoints)
    BY <2>1 DEF DiagnosticsRepeatAName, DiagnosticsUnattributed, DiagnosticsUntimed,
      DiagnosticsOutOfOrder, RejectDiagnostics, Erase, ObservationsVetted
  <2>2. CASE DiagnosticsFlawed(message, endpoints)
    BY <2>2 DEF DiagnosticsFlawed, CommitDiagnostics, Erase, ObservationsVetted
  <2>3. CASE DiagnosticsAccepted(message, endpoints)
    <3>1. ASSUME NEW i \in CandidateNames(message), i \in Required
          PROVE  StatusOf(message, i).level <= MaximumLevel[i]
      <4>1. PICK k \in Candidates(message) :
              message.status[k].name = i /\ StatusOf(message, i) = message.status[k]
        BY StatusOfName
      <4>2. EvidenceError(message.status[k]) = "NONE"
        BY <2>3, <4>1 DEF DiagnosticsAccepted, FlawedCandidates
      <4>3. message.status[k].level \in Nat /\ MaximumLevel[i] \in Nat
        BY <3>1, DiagnosticMessageType, RequiredContract DEF Candidates
      <4>4. ~(message.status[k].level > MaximumLevel[i])
        BY <4>1, <4>2 DEF EvidenceError
      <4>. QED  BY <4>1, <4>3, <4>4
    <3>. QED  BY <2>3, <3>1 DEF DiagnosticsAccepted, CommitDiagnostics, ObservationsVetted
  <2>. QED  BY <1>2, <2>1, <2>2, <2>3 DEF OnUpstreamDiagnostics
<1>. QED  BY <1>1, <1>2, OdometryFrame, StatusFrame, TimerFrame, ClockFrame DEF Next, vars

(* OnlyVettedObservations: an observation is acceptable and the newest.    *)
THEOREM OnlyVettedObservations == Spec => []ObservationsVetted
<1>1. Init => ObservationsVetted
  BY DEF Init, ObservationsVetted
<1>. QED  BY <1>1, VettedStep, TypeCorrect, PTL DEF Spec

-----------------------------------------------------------------------------
(***************************************************************************)
(* How long a verdict may outlive its evidence.  The inductive invariants  *)
(* relate the times of the evidence to timerDue, the time the diagnostic   *)
(* timer is next due, instead of now: time passes in many steps, while     *)
(* timerDue moves only when the evidence is judged.                        *)
(***************************************************************************)
(* The timer runs on time: it is due a period after it was due last, and   *)
(* the executor lags behind by a bound.                                    *)
LEMMA TimerStep == TypeOK /\ TimerOnTime /\ [Next]_vars => TimerOnTime'
<1>. SUFFICES ASSUME TypeOK, TimerOnTime, [Next]_vars PROVE TimerOnTime'
  OBVIOUS
<1>0. /\ now \in Nat /\ timerDue \in Nat
      /\ DiagnosticPeriod \in Nat /\ TimerSlack \in Nat
  BY HealthContract, EnvironmentAssumption DEF TypeOK, ClockTypeOK
<1>1. CASE UNCHANGED <<now, timerDue>>
  BY <1>1 DEF TimerOnTime
<1>2. CASE OnDiagnosticTimer
  BY <1>0, <1>2, TimerFrame DEF TimerFires, TimerOnTime, clockVars
<1>3. CASE Tick
  BY <1>0, <1>3 DEF Tick, TimerOnTime, timerVars
<1>4. CASE ClockStep
  BY <1>1, <1>4 DEF ClockStep, timerVars
<1>. QED  BY <1>1, <1>2, <1>3, <1>4, OdometryFrame, StatusFrame, DiagnosticFrame
      DEF Next, vars, clockVars, timerVars

(* The first timer callback is due a period after the start. *)
LEMMA TimerInit == Init => TimerOnTime
BY HealthContract, EnvironmentAssumption DEF Init, TimerOnTime
-----------------------------------------------------------------------------
(* Staleness.                                                              *)

(* Evidence found healthy is within its stale thresholds. *)
LEMMA FreshInputs ==
  InputsReason = "INPUT_HEALTHY" =>
    /\ ~(now - last_odometry_received_at > OdometryStaleAfter)
    /\ ~(now - last_status_received_at > TrackingStaleAfter)
    /\ stamp_guard # NoStamp
    /\ \A i \in Required : ~(now - diagnostic_received_at[i] > DiagnosticStaleAfter)
<1>1. MissingDiagnostics = {} =>
        \A i \in Required : ~(now - diagnostic_received_at[i] > DiagnosticStaleAfter)
  BY DEF MissingDiagnostics
<1>. QED  BY <1>1 DEF InputsReason, NoOdometryReason, DiagnosticReason

(* A fresh piece of evidence stays within a period of stale until the      *)
(* timer is next due.                                                      *)
LEMMA FreshUntilChecked ==
  ASSUME NEW t \in Nat, NEW due \in Nat, NEW at \in Int, NEW stale \in Nat,
         ~(t - at > stale), due <= t + DiagnosticPeriod
  PROVE  due - at <= stale + DiagnosticPeriod
<1>1. DiagnosticPeriod \in Nat
  BY HealthContract
<1>. QED  BY <1>1

(* The times the evidence was received at are integers. *)
LEMMA TimesType ==
  TypeOK => /\ last_odometry_received_at \in Int /\ last_status_received_at \in Int
            /\ \A i \in Required : diagnostic_received_at[i] \in Int
BY DEF TypeOK, OdometryTypeOK, StatusTypeOK, DiagnosticTypeOK, Never

(* Evidence found healthy is judged again before it is a period too old.  *)
LEMMA HealthyIsChecked ==
  TypeOK /\ TimerOnTime /\ InputsReason = "INPUT_HEALTHY" =>
    /\ timerDue - last_odometry_received_at <= OdometryStaleAfter + DiagnosticPeriod
    /\ timerDue - last_status_received_at <= TrackingStaleAfter + DiagnosticPeriod
    /\ \A i \in Required :
         timerDue - diagnostic_received_at[i] <= DiagnosticStaleAfter + DiagnosticPeriod
<1>. SUFFICES ASSUME TypeOK, TimerOnTime, InputsReason = "INPUT_HEALTHY"
              PROVE  /\ timerDue - last_odometry_received_at <= OdometryStaleAfter + DiagnosticPeriod
                     /\ timerDue - last_status_received_at <= TrackingStaleAfter + DiagnosticPeriod
                     /\ \A i \in Required : timerDue - diagnostic_received_at[i]
                                              <= DiagnosticStaleAfter + DiagnosticPeriod
  OBVIOUS
<1>1. /\ now \in Nat /\ timerDue \in Nat /\ timerDue <= now + DiagnosticPeriod
      /\ OdometryStaleAfter \in Nat /\ TrackingStaleAfter \in Nat /\ DiagnosticStaleAfter \in Nat
  BY HealthContract DEF TypeOK, ClockTypeOK, TimerOnTime
<1>2. timerDue - last_odometry_received_at <= OdometryStaleAfter + DiagnosticPeriod
  BY <1>1, FreshInputs, TimesType, FreshUntilChecked
<1>3. timerDue - last_status_received_at <= TrackingStaleAfter + DiagnosticPeriod
  BY <1>1, FreshInputs, TimesType, FreshUntilChecked
<1>4. ASSUME NEW i \in Required
      PROVE  timerDue - diagnostic_received_at[i] <= DiagnosticStaleAfter + DiagnosticPeriod
  BY <1>1, FreshInputs, TimesType, FreshUntilChecked
<1>. QED  BY <1>2, <1>3, <1>4

(* Trust survives a step only if the step found the evidence fresh or left *)
(* both alone.                                                             *)
LEMMA StalenessStep ==
  TypeOK /\ StandingEvidence /\ TimerOnTime /\ StalenessChecked /\ [Next]_vars => StalenessChecked'
<1>. SUFFICES ASSUME TypeOK, StandingEvidence, TimerOnTime, StalenessChecked, [Next]_vars,
                     health' \in {"healthy", "recovering"}
              PROVE  StalenessChecked'
  BY DEF StalenessChecked
<1>1. CASE InputsReason' = "INPUT_HEALTHY"
  <2>1. TypeOK' /\ TimerOnTime'
    BY TypeStep, TimerStep
  <2>2. (TypeOK /\ TimerOnTime /\ InputsReason = "INPUT_HEALTHY" =>
          /\ timerDue - last_odometry_received_at <= OdometryStaleAfter + DiagnosticPeriod
          /\ timerDue - last_status_received_at <= TrackingStaleAfter + DiagnosticPeriod
          /\ \A i \in Required :
               timerDue - diagnostic_received_at[i] <= DiagnosticStaleAfter + DiagnosticPeriod)'
    BY HealthyIsChecked, PTL
  <2>. QED  BY <1>1, <2>1, <2>2 DEF StalenessChecked
<1>2. CASE /\ health' = health
           /\ UNCHANGED <<odometryVars, statusVars, diagnosticVars, timerVars>>
  BY <1>2 DEF StalenessChecked, odometryVars, acceptedVars, statusVars, diagnosticVars,
    observationVars, timerVars
<1>. QED  BY <1>1, <1>2, Judged, NoWarmUpWhenHealthy

(* StalenessIsBounded: a healthy gate's evidence is older than its stale   *)
(* threshold by at most a diagnostic period and the executor's lag.        *)
THEOREM StalenessIsBounded == Spec => []HealthyStalenessBounded
<1>1. Init => StalenessChecked
  BY DEF Init, GateInit, StalenessChecked
<1>2. TypeOK /\ TimerOnTime /\ StalenessChecked => HealthyStalenessBounded
  <2>. SUFFICES ASSUME TypeOK, TimerOnTime, StalenessChecked, health = "healthy"
                PROVE  HealthyStalenessBounded
    BY DEF HealthyStalenessBounded
  <2>1. /\ now \in Nat /\ timerDue \in Nat /\ now <= timerDue + TimerSlack
        /\ {OdometryStaleAfter, TrackingStaleAfter, DiagnosticStaleAfter,
            DiagnosticPeriod, TimerSlack} \subseteq Nat
    BY HealthContract, EnvironmentAssumption DEF TypeOK, ClockTypeOK, TimerOnTime
  <2>2. ASSUME NEW at \in Int, NEW stale \in Nat, timerDue - at <= stale + DiagnosticPeriod
        PROVE  now - at <= stale + (DiagnosticPeriod + TimerSlack)
    BY <2>1, <2>2
  <2>. QED  BY <2>1, <2>2, TimesType DEF StalenessChecked, HealthyStalenessBounded, CheckLag
<1>. QED  BY <1>1, <1>2, TimerInit, TimerStep, StalenessStep, TypeCorrect, EvidenceStands, PTL
      DEF Spec
-----------------------------------------------------------------------------
(* The end of the starting state.                                          *)

(* A gate that has left the starting state does not return to it. *)
LEMMA AdvanceNeverStarts ==
  ASSUME MaybeAdvanceHealth, health' = "starting"
  PROVE  health = "starting"
BY DEF MaybeAdvanceHealth, MarkTransient, ObserveHealthySample, gateVars, healthVars

(* Inputs found healthy have an accepted odometry stamp to credit, so that *)
(* a gate which goes on starting has not found them healthy.               *)
LEMMA StartingIsNotHealthy ==
  ASSUME MaybeAdvanceHealth, health' = "starting", last_health_observed_stamp = NoStamp
  PROVE  last_health_observed_stamp' = NoStamp /\ InputsReason' # "INPUT_HEALTHY"
<1>1. (InputsReason = "INPUT_HEALTHY" => stamp_guard # NoStamp)'
  BY FreshInputs, PTL
<1>2. health = "starting"
  BY AdvanceNeverStarts
<1>. QED  BY <1>1, <1>2 DEF MaybeAdvanceHealth, AlreadyCredited, MarkTransient,
      ObserveHealthySample, gateVars, healthVars

(* A timer callback that leaves the gate starting ran before the timeout. *)
LEMMA StartingTimer ==
  ASSUME OnDiagnosticTimer, health' = "starting", last_health_observed_stamp = NoStamp
  PROVE  last_health_observed_stamp' = NoStamp /\ ~StartupExpired
<1>1. CASE TimerLatches
  BY <1>1 DEF TimerLatches, Latched, MarkLatched
<1>2. CASE TimerFindsHealthy
  <2>1. MaybeAdvanceHealth /\ health = "starting"
    BY <1>2, AdvanceNeverStarts DEF TimerFindsHealthy
  <2>. QED  BY <1>2, <2>1, StartingIsNotHealthy DEF TimerFindsHealthy
<1>3. CASE TimerWaits
  BY <1>3 DEF TimerWaits, MarkTransient
<1>4. CASE TimerFindsFault
  BY <1>4 DEF TimerFindsFault, Transient, MarkTransient
<1>. QED  BY <1>1, <1>2, <1>3, <1>4 DEF OnDiagnosticTimer

(* A message that leaves the gate starting was judged, or not told to it. *)
LEMMA StartingMessages ==
  ASSUME health' = "starting",
         \/ \E sample \in OdometrySamples : OnOdometry(sample)
         \/ \E message \in StatusMessages : OnVisualSlamStatus(message)
         \/ \E message \in DiagnosticMessages, endpoints \in DiagnosticEndpoints :
              OnUpstreamDiagnostics(message, endpoints)
  PROVE  UNCHANGED healthVars \/ MaybeAdvanceHealth
<1>1. ASSUME NEW why, Transient(why) \/ Latched(why)  PROVE FALSE
  BY <1>1 DEF Transient, Latched, MarkTransient, MarkLatched, gateVars
<1>2. ASSUME NEW sample \in OdometrySamples, OnOdometry(sample)
      PROVE  UNCHANGED healthVars \/ MaybeAdvanceHealth
  BY <1>1, <1>2 DEF OnOdometry, OdometryInvalid, OdometryOutOfOrder, OdometryClockMismatch,
    OdometryJumps, OdometryWarmsUp, OdometryUntimely, OdometryTransformFails, OdometryAccepted
<1>3. ASSUME NEW message \in StatusMessages, OnVisualSlamStatus(message)
      PROVE  UNCHANGED healthVars \/ MaybeAdvanceHealth
  BY <1>1, <1>3 DEF OnVisualSlamStatus, StatusInvalid, StatusOutOfOrder, StatusClockMismatch,
    TrackingLost, TrackingAccepted
<1>4. ASSUME NEW message \in DiagnosticMessages, NEW endpoints \in DiagnosticEndpoints,
             OnUpstreamDiagnostics(message, endpoints)
      PROVE  UNCHANGED healthVars \/ MaybeAdvanceHealth
  BY <1>1, <1>4 DEF OnUpstreamDiagnostics, DiagnosticsRepeatAName, DiagnosticsUnattributed,
    DiagnosticsUntimed, DiagnosticsOutOfOrder, DiagnosticsFlawed, DiagnosticsAccepted
<1>. QED  BY <1>2, <1>3, <1>4

(* While the gate starts, the timer that will see the timeout expired is   *)
(* due within a period of the timeout.                                     *)
LEMMA StartupStep == TypeOK /\ StartupChecked /\ [Next]_vars => StartupChecked'
<1>. SUFFICES ASSUME TypeOK, StartupChecked, [Next]_vars, health' = "starting"
              PROVE  /\ timerDue' <= StartupTimeout + DiagnosticPeriod
                     /\ last_health_observed_stamp' = NoStamp
  BY DEF StartupChecked
<1>0. /\ now \in Nat /\ timerDue \in Nat
      /\ DiagnosticPeriod \in Nat /\ StartupTimeout \in Nat
  BY HealthContract DEF TypeOK, ClockTypeOK
<1>1. CASE OnDiagnosticTimer /\ health = "starting"
  BY <1>0, <1>1, StartingTimer, TimerFrame DEF StartupChecked, TimerFires, StartupExpired
<1>2. CASE OnDiagnosticTimer /\ health # "starting"
  BY <1>2 DEF OnDiagnosticTimer, TimerLatches, TimerFindsHealthy, TimerWaits,
    TimerFindsFault, Latched, MarkLatched, Transient, MarkTransient, MaybeAdvanceHealth,
    ObserveHealthySample, healthVars, gateVars
<1>3. CASE UNCHANGED <<timerVars, healthVars>>
  BY <1>3 DEF timerVars, healthVars, gateVars, StartupChecked
<1>4. CASE \/ \E sample \in OdometrySamples : OnOdometry(sample)
           \/ \E message \in StatusMessages : OnVisualSlamStatus(message)
           \/ \E message \in DiagnosticMessages, endpoints \in DiagnosticEndpoints :
                OnUpstreamDiagnostics(message, endpoints)
  <2>1. UNCHANGED timerDue
    BY <1>4, OdometryFrame, StatusFrame, DiagnosticFrame DEF timerVars
  <2>2. UNCHANGED healthVars \/ MaybeAdvanceHealth
    BY <1>4, StartingMessages
  <2>3. health = "starting"
    BY <2>2, AdvanceNeverStarts DEF healthVars, gateVars
  <2>. QED  BY <2>1, <2>2, <2>3, StartingIsNotHealthy DEF StartupChecked, healthVars
<1>. QED  BY <1>1, <1>2, <1>3, <1>4, ClockFrame DEF Next, vars

(* StartupIsBounded: a gate still starting is at most a diagnostic period  *)
(* and the executor's lag past the startup timeout.                        *)
THEOREM StartupIsBounded == Spec => []StartupEnds
<1>1. Init => StartupChecked
  BY HealthContract DEF Init, GateInit, StartupChecked
<1>2. TypeOK /\ TimerOnTime /\ StartupChecked => StartupEnds
  BY HealthContract, EnvironmentAssumption, SMTT(30)
    DEF TypeOK, ClockTypeOK, TimerOnTime, StartupChecked, StartupEnds, CheckLag
<1>. QED  BY <1>1, <1>2, TimerInit, TimerStep, StartupStep, TypeCorrect, PTL DEF Spec
=============================================================================
