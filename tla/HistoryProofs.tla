--------------------------- MODULE HistoryProofs ---------------------------
(***************************************************************************)
(* Proofs about AdapterNode with what has happened to it: the frames a     *)
(* recovery has seen and the counters it reports.                          *)
(***************************************************************************)
EXTENDS RecoveryHistory, AdapterCounters, AdapterProofs

-----------------------------------------------------------------------------
(* How many fresh frames a recovery rests on, for every contract.          *)

(* A recovering gate has seen a fresh frame for each credit but the first, *)
(* and one more when the frame accepted last is not credited yet.          *)
FreshFramesCounted ==
  /\ fresh \in 0..RecoveryRequired
  /\ health = "starting" => fresh = RecoveryRequired
  /\ health = "healthy" => fresh >= RecoveryRequired - 1
  /\ health = "recovering" =>
       /\ fresh >= progress - 1
       /\ ~AlreadyCredited(stamp_guard) => fresh >= progress

(* With its history variable the adapter is still the adapter. *)
LEMMA HistoryIsSpec == HistorySpec => Spec
<1>1. HistoryInit => Init
  BY DEF HistoryInit
<1>2. [HistoryNext]_<<vars, fresh>> => [Next]_vars
  BY DEF HistoryNext
<1>. QED  BY <1>1, <1>2, PTL DEF HistorySpec, Spec

(* What a step that is told healthy and credits a frame does to the count. *)
LEMMA CreditedFrame ==
  ASSUME TypeOK, FreshFramesCounted, HistoryNext, ObserveHealthySample,
         ~AlreadyCredited(stamp_guard'), last_health_observed_stamp' = stamp_guard'
  PROVE  FreshFramesCounted'
<1>0. /\ RecoveryRequired \in Nat /\ RecoveryRequired >= 1
      /\ fresh \in 0..RecoveryRequired
      /\ health \in HealthStates /\ progress \in 0..(RecoveryRequired - 1)
      /\ progress # 0 => health = "recovering"
  BY RecoveryAssumption DEF TypeOK, GateTypeOK, FreshFramesCounted
<1>1. health' # "transient_fault" =>
        fresh' = IF stamp_guard' # stamp_guard THEN AtMost(fresh + 1, RecoveryRequired) ELSE fresh
  BY DEF HistoryNext
<1>2. fresh' \in 0..RecoveryRequired
  BY <1>0 DEF HistoryNext, AtMost
<1>3. health' # "transient_fault" => fresh' >= fresh
  BY <1>0, <1>1 DEF AtMost
<1>4. AlreadyCredited(stamp_guard)'
  BY DEF AlreadyCredited
<1>5. CASE health \in {"starting", "healthy"}
  <2>1. health' = "healthy"
    BY <1>5 DEF ObserveHealthySample, gateVars
  <2>. QED  BY <1>0, <1>2, <1>3, <1>5, <2>1 DEF FreshFramesCounted
<1>6. CASE health = "transient_fault"
  <2>1. progress = 0
    BY <1>0, <1>6
  <2>2. \/ health' = "healthy" /\ RecoveryRequired = 1
        \/ health' = "recovering" /\ progress' = 1
    BY <1>0, <1>6, <2>1 DEF ObserveHealthySample
  <2>. QED  BY <1>2, <1>4, <2>2 DEF FreshFramesCounted
<1>7. CASE health = "recovering"
  <2>1. fresh' >= progress
    <3>1. health' # "transient_fault"
      BY <1>7 DEF ObserveHealthySample
    <3>2. CASE stamp_guard' = stamp_guard
      BY <1>1, <1>7, <3>1, <3>2 DEF FreshFramesCounted, AlreadyCredited
    <3>3. CASE stamp_guard' # stamp_guard
      <4>1. fresh' = AtMost(fresh + 1, RecoveryRequired) /\ fresh >= progress - 1
        BY <1>1, <1>7, <3>1, <3>3 DEF FreshFramesCounted
      <4>. QED  BY <1>0, <4>1 DEF AtMost
    <3>. QED  BY <3>2, <3>3
  <2>2. \/ health' = "healthy" /\ progress = RecoveryRequired - 1
        \/ health' = "recovering" /\ progress' = progress + 1
    BY <1>0, <1>7 DEF ObserveHealthySample
  <2>. QED  BY <1>0, <1>2, <1>4, <2>1, <2>2 DEF FreshFramesCounted
<1>8. CASE health = "latched_fault"
  BY <1>2, <1>8 DEF ObserveHealthySample, gateVars, FreshFramesCounted
<1>. QED  BY <1>0, <1>5, <1>6, <1>7, <1>8 DEF HealthStates

(* Between two credits another frame has been accepted, so every step      *)
(* keeps the count.                                                        *)
LEMMA FreshFramesStep ==
  TypeOK /\ FreshFramesCounted /\ [HistoryNext]_<<vars, fresh>> => FreshFramesCounted'
<1>. SUFFICES ASSUME TypeOK, FreshFramesCounted, [HistoryNext]_<<vars, fresh>>
              PROVE  FreshFramesCounted'
  OBVIOUS
<1>0. /\ RecoveryRequired \in Nat /\ RecoveryRequired >= 1
      /\ fresh \in 0..RecoveryRequired /\ progress \in 0..(RecoveryRequired - 1)
  BY RecoveryAssumption DEF TypeOK, GateTypeOK, FreshFramesCounted
<1>1. CASE UNCHANGED <<vars, fresh>>
  BY <1>1 DEF vars, odometryVars, acceptedVars, healthVars, gateVars, FreshFramesCounted,
    AlreadyCredited
<1>2. CASE HistoryNext
  <2>1. fresh' \in 0..RecoveryRequired
    BY <1>0, <1>2 DEF HistoryNext, AtMost
  <2>2. CASE UNCHANGED healthVars
    <3>1. health' # "transient_fault" => fresh' >= fresh
      BY <1>0, <1>2 DEF HistoryNext, AtMost
    <3>2. ASSUME health' = "recovering", ~AlreadyCredited(stamp_guard')
          PROVE  fresh' >= progress
      <4>1. CASE stamp_guard' = stamp_guard
        BY <1>2, <2>2, <3>2, <4>1
          DEF HistoryNext, healthVars, gateVars, FreshFramesCounted, AlreadyCredited
      <4>2. CASE stamp_guard' # stamp_guard
        <5>1. fresh' = AtMost(fresh + 1, RecoveryRequired) /\ fresh >= progress - 1
          BY <1>2, <2>2, <3>2, <4>2 DEF HistoryNext, healthVars, gateVars, FreshFramesCounted
        <5>. QED  BY <1>0, <5>1 DEF AtMost
      <4>. QED  BY <4>1, <4>2
    <3>. QED  BY <1>0, <2>1, <2>2, <3>1, <3>2
          DEF healthVars, gateVars, FreshFramesCounted, AlreadyCredited
  <2>3. CASE health' \in {"transient_fault", "latched_fault"}
    BY <2>1, <2>3 DEF FreshFramesCounted
  <2>4. ASSUME health' = "starting", health = "starting"  PROVE FreshFramesCounted'
    BY <1>0, <1>2, <2>1, <2>4 DEF HistoryNext, AtMost, FreshFramesCounted
  <2>5. ASSUME NEW why, Transient(why) \/ Latched(why)
        PROVE  UNCHANGED healthVars \/ health' \in {"transient_fault", "latched_fault"}
    BY <2>5 DEF Transient, Latched, MarkTransient, MarkLatched, healthVars
  <2>6. CASE MaybeAdvanceHealth
    <3>1. ASSUME MarkTransient(InputsReason'), UNCHANGED last_health_observed_stamp
          PROVE  UNCHANGED healthVars \/ health' \in {"transient_fault", "latched_fault"}
      BY <2>5, <3>1 DEF Transient
    <3>. QED  BY <1>2, <2>2, <2>3, <2>6, <3>1, CreditedFrame DEF MaybeAdvanceHealth, healthVars
  <2>7. CASE TimerWaits
    BY <2>3, <2>4, <2>7 DEF TimerWaits, MarkStarting, MarkTransient
  <2>. QED  BY <1>2, <2>2, <2>3, <2>5, <2>6, <2>7, GateMoves DEF HistoryNext
<1>. QED  BY <1>1, <1>2

(* RecoveriesNeedFreshFrames: a gate trusted again has accepted at least   *)
(* RecoveryRequired - 1 frames since it last fell.                         *)
THEOREM RecoveriesNeedFreshFrames == HistorySpec => []RecoveryNeedsFreshFramesButOne
<1>1. HistoryInit => FreshFramesCounted
  BY RecoveryAssumption DEF HistoryInit, Init, GateInit, FreshFramesCounted
<1>2. FreshFramesCounted => RecoveryNeedsFreshFramesButOne
  BY DEF FreshFramesCounted, RecoveryNeedsFreshFramesButOne
<1>. QED  BY <1>1, <1>2, FreshFramesStep, HistoryIsSpec, TypeCorrect, PTL DEF HistorySpec

-----------------------------------------------------------------------------
(* Every frame and all evidence is accounted for, whatever arrives and in  *)
(* whatever order.                                                         *)

(* The counters of frames. *)
FrameCounters == {"received", "accepted", "rejected", "shadow_pose_computed"}

FrameCountsOK == \A c \in FrameCounters : count[c] \in Int

(* A frame is accepted with a full window only, which stays full. *)
WindowFilled ==
  last_input_pose # NoPose => Len(recent_odometry_stamps) = RateWindow

FramesBooked == FrameCountsOK /\ WindowFilled /\ FramesAccountedFor

(* Counting is one more of whatever is named, and never changes the rest. *)
LEMMA CountedFrame ==
  ASSUME FrameCountsOK, NEW names, CountOnce(names)
  PROVE  \A c \in FrameCounters : count'[c] = count[c] + (IF c \in names THEN 1 ELSE 0)
<1>1. FrameCounters \subseteq Counters
  BY DEF FrameCounters, Counters
<1>. QED  BY <1>1 DEF FrameCountsOK, CountOnce, Count

(* What is not a frame is counted apart from the frames. *)
LEMMA CountedElsewhere ==
  ASSUME FrameCountsOK, NEW n, NEW evidence, NEW others,
         (evidence \cup others) \cap FrameCounters = {},
         Count(n, evidence, others)
  PROVE  \A c \in FrameCounters : count'[c] = count[c]
<1>1. FrameCounters \subseteq Counters
  BY DEF FrameCounters, Counters
<1>. QED  BY <1>1 DEF FrameCountsOK, Count

(* With its counters the adapter is still the adapter. *)
LEMMA CountersIsSpec == CountersSpec => Spec
<1>1. CountersInit => Init
  BY DEF CountersInit
<1>2. ASSUME NEW sample, CountOdometry(sample)  PROVE OnOdometry(sample)
  BY <1>2 DEF CountOdometry, CountTransformFailure, OnOdometry
<1>3. ASSUME NEW message, CountStatus(message)  PROVE OnVisualSlamStatus(message)
  BY <1>3 DEF CountStatus, OnVisualSlamStatus
<1>4. ASSUME NEW message, NEW endpoints, CountDiagnostics(message, endpoints)
      PROVE  OnUpstreamDiagnostics(message, endpoints)
  BY <1>4 DEF CountDiagnostics, OnUpstreamDiagnostics
<1>5. [CountersNext]_<<vars, count>> => [Next]_vars
  BY <1>2, <1>3, <1>4 DEF CountersNext, DiagnosticsIgnored, Next
<1>. QED  BY <1>1, <1>5, PTL DEF CountersSpec, Spec

(* The window a frame leaves behind when its stamp is committed. *)
LEMMA CommittedWindow ==
  ASSUME TypeOK, NEW sample \in OdometrySamples, CommitSequence(sample)
  PROVE  LET new == Len(recent_odometry_stamps')
             old == Len(recent_odometry_stamps)
         IN  /\ old \in 0..RateWindow /\ new \in 0..RateWindow
             /\ old = RateWindow => new = RateWindow
             /\ old < RateWindow => new = old + 1
<1>1. sample.stamp \in Nat
  BY SampleType
<1>2. recent_odometry_stamps \in Seq(Nat) /\ Len(recent_odometry_stamps) <= RateWindow
  BY DEF TypeOK, OdometryTypeOK
<1>3. RateWindow \in Nat /\ RateWindow >= 2
  BY HealthContract
<1>4. Slide(recent_odometry_stamps, sample.stamp) \in Seq(Nat)
  BY <1>1, <1>2, SlideProperties
<1>5. CASE Len(recent_odometry_stamps) < RateWindow
  <2>1. recent_odometry_stamps' = Append(recent_odometry_stamps, sample.stamp)
    BY <1>5 DEF CommitSequence, Slide
  <2>. QED  BY <1>1, <1>2, <1>3, <1>5, <2>1
<1>6. CASE Len(recent_odometry_stamps) = RateWindow
  <2>1. recent_odometry_stamps' = Append(Tail(recent_odometry_stamps), sample.stamp)
    BY <1>3, <1>6 DEF CommitSequence, Slide
  <2>2. /\ Tail(recent_odometry_stamps) \in Seq(Nat)
        /\ Len(Tail(recent_odometry_stamps)) = RateWindow - 1
    BY <1>2, <1>3, <1>6, HeadTailProperties
  <2>. QED  BY <1>1, <1>2, <1>3, <1>6, <2>1, <2>2
<1>. QED  BY <1>2, <1>3, <1>5, <1>6

(* A frame is booked once, on every way out. *)
LEMMA FrameIsBooked ==
  ASSUME TypeOK, FramesBooked, NEW sample \in OdometrySamples, CountOdometry(sample)
  PROVE  FramesBooked'
<1>0. /\ \A c \in FrameCounters : count[c] \in Int
      /\ RateWindow \in Nat /\ RateWindow >= 2
  BY HealthContract DEF FramesBooked, FrameCountsOK
<1>1. ASSUME NEW names, CountOnce(names)
      PROVE  /\ count'["received"] = count["received"] + (IF "received" \in names THEN 1 ELSE 0)
             /\ count'["accepted"] = count["accepted"] + (IF "accepted" \in names THEN 1 ELSE 0)
             /\ count'["rejected"] = count["rejected"] + (IF "rejected" \in names THEN 1 ELSE 0)
             /\ count'["shadow_pose_computed"] = count["shadow_pose_computed"]
                  + (IF "shadow_pose_computed" \in names THEN 1 ELSE 0)
             /\ FrameCountsOK'
  BY <1>0, <1>1, CountedFrame DEF FramesBooked, FrameCounters, FrameCountsOK
<1>2. /\ count["received"] \in Int /\ count["accepted"] \in Int
      /\ count["rejected"] \in Int /\ count["shadow_pose_computed"] \in Int
  BY <1>0 DEF FrameCounters
<1>3. /\ Gaps(sample) \cap FrameCounters = {} /\ RateCounter \cap FrameCounters = {}
      /\ \A order : OrderCounter(<<"duplicate", "nonmonotonic">>, order) \cap FrameCounters = {}
  BY DEF Gaps, RateCounter, OrderCounter, FrameCounters
<1>. DEFINE Booked(names) ==
       /\ count'["received"] = count["received"] + (IF "received" \in names THEN 1 ELSE 0)
       /\ count'["accepted"] = count["accepted"] + (IF "accepted" \in names THEN 1 ELSE 0)
       /\ count'["rejected"] = count["rejected"] + (IF "rejected" \in names THEN 1 ELSE 0)
       /\ count'["shadow_pose_computed"] = count["shadow_pose_computed"]
       /\ FrameCountsOK'
<1>booked. ASSUME NEW names, NEW others, CountOnce(names \cup others),
              others \cap FrameCounters = {}, "shadow_pose_computed" \notin names
       PROVE  Booked(names)
  <2>1. /\ "received" \notin others /\ "accepted" \notin others /\ "rejected" \notin others
        /\ "shadow_pose_computed" \notin others
    BY <1>booked DEF FrameCounters
  <2>. QED  BY <1>1, <1>2, <1>booked, <2>1
<1>4. CASE DropOdometry /\ \E names : /\ CountOnce({"received", "rejected"} \cup names)
                                      /\ names \cap FrameCounters = {}
  <2>1. Booked({"received", "rejected"})
    BY <1>4, <1>booked
  <2>2. UNCHANGED <<recent_odometry_stamps, last_input_pose>>
    BY <1>4 DEF DropOdometry, sequenceVars, acceptedVars
  <2>3. WarmedUp' = WarmedUp /\ WarmedUp \in Int
    BY <1>0, <2>2, LenProperties DEF WarmedUp, TypeOK, OdometryTypeOK
  <2>4. WindowFilled'
    BY <2>2 DEF FramesBooked, WindowFilled
  <2>. QED  BY <1>2, <2>1, <2>3, <2>4 DEF FramesBooked, FramesAccountedFor, TransformsFailed
<1>5. CASE OdometryInvalid(sample) /\ CountOnce({"received", "rejected"})
  <2>1. {"received", "rejected"} = {"received", "rejected"} \cup {}
    OBVIOUS
  <2>. QED  BY <1>4, <1>5, <2>1 DEF OdometryInvalid
<1>6. CASE /\ OdometryOutOfOrder(sample)
           /\ CountOnce({"received", "rejected"} \cup
                OrderCounter(<<"duplicate", "nonmonotonic">>,
                             Classify(odometry_sequence_guard, sample.stamp)))
  BY <1>3, <1>4, <1>6 DEF OdometryOutOfOrder
<1>7. CASE /\ OdometryClockMismatch(sample)
           /\ CountOnce({"received", "rejected", "clock_domain_mismatch"})
  <2>1. /\ {"received", "rejected", "clock_domain_mismatch"}
             = {"received", "rejected"} \cup {"clock_domain_mismatch"}
        /\ {"clock_domain_mismatch"} \cap FrameCounters = {}
    BY DEF FrameCounters
  <2>. QED  BY <1>4, <1>7, <2>1 DEF OdometryClockMismatch
<1>8. CASE /\ OdometryJumps(sample)
           /\ CountOnce({"received", "rejected", "pose_jump_violation"} \cup Gaps(sample))
  <2>1. /\ CommitSequence(sample) /\ last_input_pose # NoPose
        /\ UNCHANGED last_input_pose
    BY <1>8 DEF OdometryJumps, PoseJumps, acceptedVars
  <2>2. /\ Len(recent_odometry_stamps) = RateWindow
        /\ Len(recent_odometry_stamps') = RateWindow
    BY <2>1, CommittedWindow DEF FramesBooked, WindowFilled
  <2>3. /\ {"received", "rejected", "pose_jump_violation"} \cup Gaps(sample)
             = {"received", "rejected"} \cup ({"pose_jump_violation"} \cup Gaps(sample))
        /\ ({"pose_jump_violation"} \cup Gaps(sample)) \cap FrameCounters = {}
    BY <1>3 DEF FrameCounters
  <2>4. Booked({"received", "rejected"})
    BY <1>8, <1>booked, <2>3
  <2>5. WarmedUp' = WarmedUp /\ WarmedUp \in Int
    BY <1>0, <2>2 DEF WarmedUp
  <2>6. WindowFilled'
    BY <2>2 DEF WindowFilled
  <2>. QED  BY <1>2, <2>4, <2>5, <2>6 DEF FramesBooked, FramesAccountedFor, TransformsFailed
<1>9. CASE OdometryWarmsUp(sample) /\ CountOnce({"received"} \cup Gaps(sample))
  <2>1. /\ CommitSequence(sample) /\ UNCHANGED last_input_pose
        /\ Len(recent_odometry_stamps') # RateWindow
    BY <1>9 DEF OdometryWarmsUp, RateKnown, acceptedVars
  <2>2. /\ Len(recent_odometry_stamps) \in Nat
        /\ Len(recent_odometry_stamps') = Len(recent_odometry_stamps) + 1
        /\ Len(recent_odometry_stamps') < RateWindow
    BY <1>0, <2>1, CommittedWindow
  <2>3. last_input_pose = NoPose
    BY <1>0, <2>2 DEF FramesBooked, WindowFilled
  <2>4. /\ WarmedUp = Len(recent_odometry_stamps)
        /\ WarmedUp' = Len(recent_odometry_stamps) + 1
    BY <1>0, <2>2 DEF WarmedUp
  <2>5. Booked({"received"})
    BY <1>3, <1>9, <1>booked
  <2>6. WindowFilled'
    BY <2>1, <2>3 DEF WindowFilled
  <2>7. WarmedUp \in Int /\ WarmedUp' = WarmedUp + 1
    BY <2>2, <2>4
  <2>. QED  BY <1>2, <2>5, <2>6, <2>7 DEF FramesBooked, FramesAccountedFor, TransformsFailed
<1>10. ASSUME CommitSequence(sample), RateKnown(recent_odometry_stamps')
       PROVE  WarmedUp' = WarmedUp /\ WarmedUp \in Int /\ WindowFilled'
  <2>1. /\ Len(recent_odometry_stamps') = RateWindow
        /\ Len(recent_odometry_stamps) \in {RateWindow - 1, RateWindow}
    BY <1>0, <1>10, CommittedWindow DEF RateKnown
  <2>. QED  BY <1>0, <2>1 DEF WarmedUp, WindowFilled
<1>11. CASE /\ OdometryUntimely(sample)
            /\ CountOnce({"received", "rejected"} \cup Gaps(sample) \cup RateCounter)
  <2>1. WarmedUp' = WarmedUp /\ WarmedUp \in Int /\ WindowFilled'
    BY <1>10, <1>11 DEF OdometryUntimely
  <2>2. (Gaps(sample) \cup RateCounter) \cap FrameCounters = {}
    BY <1>3
  <2>3. Booked({"received", "rejected"})
    <3>1. {"received", "rejected"} \cup Gaps(sample) \cup RateCounter
            = {"received", "rejected"} \cup (Gaps(sample) \cup RateCounter)
      OBVIOUS
    <3>. QED  BY <1>11, <1>booked, <2>2, <3>1
  <2>. QED  BY <1>2, <2>1, <2>3 DEF FramesBooked, FramesAccountedFor, TransformsFailed
<1>12. CASE CountTransformFailure(sample)
  <2>1. WarmedUp' = WarmedUp /\ WarmedUp \in Int /\ WindowFilled' /\ "extrinsic" \in Approvals
    BY <1>10, <1>12 DEF CountTransformFailure, OdometryTransformFails, AcceptOdometry
  <2>2. CountOnce({"received", "accepted", "shadow_processed", "rejected"})
    BY <1>12 DEF CountTransformFailure
  <2>. QED  BY <1>1, <1>2, <2>1, <2>2 DEF FramesBooked, FramesAccountedFor, TransformsFailed
<1>13. CASE /\ OdometryAccepted(sample)
            /\ CountOnce({"received", "accepted", "shadow_processed"} \cup
                 (IF "extrinsic" \in Approvals THEN {"shadow_pose_computed"} ELSE {}))
  <2>1. WarmedUp' = WarmedUp /\ WarmedUp \in Int /\ WindowFilled'
    BY <1>10, <1>13 DEF OdometryAccepted, AcceptOdometry
  <2>. QED  BY <1>1, <1>2, <1>13, <2>1 DEF FramesBooked, FramesAccountedFor, TransformsFailed
<1>. QED  BY <1>5, <1>6, <1>7, <1>8, <1>9, <1>11, <1>12, <1>13 DEF CountOdometry

(* Statuses and diagnostics touch neither the window nor the frames. *)
LEMMA OthersBookNoFrame ==
  ASSUME FramesBooked, UNCHANGED odometryVars, \A c \in FrameCounters : count'[c] = count[c]
  PROVE  FramesBooked'
BY DEF FramesBooked, FrameCountsOK, WindowFilled, FramesAccountedFor, TransformsFailed,
  WarmedUp, FrameCounters, odometryVars, sequenceVars, acceptedVars

(* AllFramesAccountedFor: received frames are accepted, rejected or filled *)
(* the window; those whose transform failed are both.                      *)
THEOREM AllFramesAccountedFor == CountersSpec => []FramesAccountedFor
<1>1. CountersInit => FramesBooked
  <2>. SUFFICES ASSUME CountersInit PROVE FramesBooked
    OBVIOUS
  <2>1. \A c \in FrameCounters : count[c] = 0
    BY DEF CountersInit, FrameCounters, Counters
  <2>2. Len(recent_odometry_stamps) = 0 /\ last_input_pose = NoPose
    BY DEF CountersInit, Init
  <2>3. WarmedUp = 0
    BY <2>2, HealthContract DEF WarmedUp
  <2>. QED  BY <2>1, <2>2, <2>3 DEF FramesBooked, FrameCountsOK, WindowFilled,
        FramesAccountedFor, TransformsFailed, FrameCounters
<1>2. TypeOK /\ FramesBooked /\ [CountersNext]_<<vars, count>> => FramesBooked'
  <2>. SUFFICES ASSUME TypeOK, FramesBooked, [CountersNext]_<<vars, count>>
                PROVE  FramesBooked'
    OBVIOUS
  <2>0. FrameCountsOK
    BY DEF FramesBooked
  <2>1. ASSUME NEW message \in StatusMessages, CountStatus(message)  PROVE FramesBooked'
    <3>1. UNCHANGED odometryVars
      BY <2>1, StatusFrame DEF CountStatus, OnVisualSlamStatus
    <3>2. \A order : OrderCounter(<<"status_duplicate", "status_nonmonotonic">>, order)
                       \cap FrameCounters = {}
      BY DEF OrderCounter, FrameCounters
    <3>3. \E names : CountOnce(names) /\ names \cap FrameCounters = {}
      BY <2>1, <3>2 DEF CountStatus, FrameCounters
    <3>4. \A c \in FrameCounters : count'[c] = count[c]
      BY <2>0, <3>3, CountedElsewhere DEF CountOnce
    <3>. QED  BY <3>1, <3>4, OthersBookNoFrame
  <2>2. ASSUME NEW message \in DiagnosticMessages, NEW endpoints \in DiagnosticEndpoints,
               CountDiagnostics(message, endpoints)
        PROVE  FramesBooked'
    <3>1. UNCHANGED odometryVars
      BY <2>2, DiagnosticFrame DEF CountDiagnostics, OnUpstreamDiagnostics
    <3>2. \A order : OrderCounter(<<"diagnostic_duplicate", "diagnostic_nonmonotonic">>, order)
                       \cap FrameCounters = {}
      BY DEF OrderCounter, FrameCounters
    <3>3. \E n, evidence, others : /\ Count(n, evidence, others)
                                   /\ (evidence \cup others) \cap FrameCounters = {}
      BY <2>2, <3>2 DEF CountDiagnostics, RejectEvidence, EvidenceCounters, FrameCounters
    <3>4. \A c \in FrameCounters : count'[c] = count[c]
      BY <2>0, <3>3, CountedElsewhere
    <3>. QED  BY <3>1, <3>4, OthersBookNoFrame
  <2>3. CASE (OnDiagnosticTimer \/ Tick \/ ClockStep) /\ UNCHANGED count
    BY <2>3, OthersBookNoFrame, TimerFrame, ClockFrame
  <2>4. CASE UNCHANGED <<vars, count>>
    BY <2>4, OthersBookNoFrame DEF vars
  <2>. QED  BY <2>1, <2>2, <2>3, <2>4, FrameIsBooked DEF CountersNext, DiagnosticsIgnored
<1>3. FramesBooked => FramesAccountedFor
  BY DEF FramesBooked
<1>. QED  BY <1>1, <1>2, <1>3, CountersIsSpec, TypeCorrect, PTL DEF CountersSpec

-----------------------------------------------------------------------------
(* Upstream evidence.  The counters move by as many as a message holds     *)
(* candidates, what stands by as many names, so the proof counts sets.     *)
Standing == {i \in Required : diagnostic_received_at[i] # Never}

EvidenceBooked ==
  /\ \A c \in EvidenceCounters : count[c] \in Int
  /\ EvidenceAccountedFor

(* What is counted is finite, and no more names than candidates. *)
LEMMA StandingFinite == IsFiniteSet(Required) /\ \A S : S \subseteq Required => IsFiniteSet(S)
<1>1. IsFiniteSet(Required)
  BY FS_Interval, RequiredContract DEF Required
<1>. QED  BY <1>1, FS_Subset

LEMMA CandidatesFinite ==
  ASSUME TypeOK, NEW message \in DiagnosticMessages
  PROVE  /\ Candidates(message) \subseteq Nat /\ IsFiniteSet(Candidates(message))
         /\ Cardinality(Candidates(message)) \in Nat
<1>1. Candidates(message) \subseteq 1..Len(message.status) /\ Len(message.status) \in Nat
  BY DiagnosticMessageType DEF Candidates
<1>2. IsFiniteSet(Candidates(message))
  <2>1. 1 \in Int /\ Len(message.status) \in Int
    BY <1>1
  <2>2. IsFiniteSet(1..Len(message.status))
    BY <2>1, FS_Interval, Zenon
  <2>. QED  BY <1>1, <2>2, FS_Subset, Zenon
<1>. QED  BY <1>1, <1>2, FS_CardinalityType

LEMMA NoMoreNames ==
  ASSUME TypeOK, NEW message \in DiagnosticMessages
  PROVE  /\ CandidateNames(message) \subseteq Required
         /\ IsFiniteSet(CandidateNames(message))
         /\ Cardinality(CandidateNames(message)) \in Nat
         /\ Cardinality(CandidateNames(message)) <= Cardinality(Candidates(message))
<1>. DEFINE name == [k \in Candidates(message) |-> message.status[k].name]
<1>1. name \in Surjection(Candidates(message), CandidateNames(message))
  <2>1. name \in [Candidates(message) -> CandidateNames(message)]
    BY DEF CandidateNames
  <2>2. \A i \in CandidateNames(message) : \E k \in Candidates(message) : name[k] = i
    BY DEF CandidateNames
  <2>. QED  BY <2>1, <2>2, Zenon DEF Surjection
<1>2. CandidateNames(message) \subseteq Required
  BY DEF CandidateNames, Candidates
<1>. QED  BY <1>1, <1>2, CandidatesFinite, FS_Surjection, FS_CardinalityType

(* What a way out of the handler does to the two counters. *)
LEMMA EvidenceCounted ==
  ASSUME EvidenceBooked, NEW n \in Nat, NEW evidence, NEW others, Count(n, evidence, others)
  PROVE  /\ \A c \in EvidenceCounters : count[c] \in Int /\ count'[c] \in Int
         /\ \A c \in EvidenceCounters :
              count'[c] = count[c] + (IF c \in evidence THEN n ELSE 0)
                            + (IF c \in others THEN 1 ELSE 0)
<1>1. EvidenceCounters \subseteq Counters
  BY DEF EvidenceCounters, Counters
<1>. QED  BY <1>1 DEF EvidenceBooked, Count

(* Losing what stands costs nothing, as long as no more is rejected than   *)
(* received with it.                                                       *)
LEMMA StandingLost ==
  ASSUME EvidenceBooked, Standing' \subseteq Standing,
         NEW gained \in Nat, NEW refused \in Nat, refused <= gained,
         count'["diagnostic_evidence_received"] = count["diagnostic_evidence_received"] + gained,
         count'["diagnostic_evidence_rejected"] = count["diagnostic_evidence_rejected"] + refused
  PROVE  EvidenceBooked'
<1>1. Standing \subseteq Required
  BY DEF Standing
<1>2. /\ Cardinality(Standing') <= Cardinality(Standing)
      /\ Cardinality(Standing') \in Nat /\ Cardinality(Standing) \in Nat
  BY <1>1, StandingFinite, FS_Subset, FS_CardinalityType
<1>3. /\ count["diagnostic_evidence_received"] \in Int
      /\ count["diagnostic_evidence_rejected"] \in Int
  BY DEF EvidenceBooked, EvidenceCounters
<1>4. Cardinality(Standing)
        <= count["diagnostic_evidence_received"] - count["diagnostic_evidence_rejected"]
  BY DEF EvidenceBooked, EvidenceAccountedFor, Standing
<1>5. Cardinality(Standing')
        <= count'["diagnostic_evidence_received"] - count'["diagnostic_evidence_rejected"]
  BY <1>2, <1>3, <1>4
<1>6. \A c \in EvidenceCounters : count'[c] \in Int
  BY <1>3 DEF EvidenceCounters
<1>. QED  BY <1>5, <1>6 DEF EvidenceBooked, EvidenceAccountedFor, Standing

(* A diagnostics message is booked once, on every way out. *)
LEMMA EvidenceIsBooked ==
  ASSUME TypeOK, EvidenceBooked, NEW message \in DiagnosticMessages, NEW endpoints,
         CountDiagnostics(message, endpoints)
  PROVE  EvidenceBooked'
<1>. DEFINE all == Cardinality(Candidates(message))
            taken == "diagnostic_evidence_received"
            refused == "diagnostic_evidence_rejected"
<1>1. all \in Nat
  BY CandidatesFinite
<1>2. ASSUME NEW names, Erase(names)  PROVE Standing' \subseteq Standing
  BY <1>2 DEF Erase, Standing
<1>3. CASE /\ DiagnosticsRepeatAName(message)
           /\ Count(Cardinality({k \in Candidates(message) :
                                   k <= Min(RepeatedCandidates(message))}),
                    {"diagnostic_evidence_received"}, {"diagnostic_evidence_rejected"})
  <2>. DEFINE least == Min(RepeatedCandidates(message))
              upto == {k \in Candidates(message) : k <= least}
  <2>1. least \in Candidates(message) /\ least \in Nat
    <3>1. RepeatedCandidates(message) \in SUBSET Nat /\ RepeatedCandidates(message) # {}
      BY <1>3, CandidatesFinite DEF DiagnosticsRepeatAName, RepeatedCandidates
    <3>2. least \in RepeatedCandidates(message)
      BY <3>1, LeastNatural
    <3>. QED  BY <3>1, <3>2 DEF RepeatedCandidates
  <2>2. upto # {} /\ IsFiniteSet(upto)
    BY <2>1, CandidatesFinite, FS_Subset
  <2>3. Cardinality(upto) \in Nat /\ Cardinality(upto) >= 1
    <3>. HIDE DEF upto
    <3>1. Cardinality(upto) \in Nat /\ Cardinality(upto) # 0
      BY <2>2, FS_EmptySet, FS_CardinalityType
    <3>. QED  BY <3>1
  <2>4. /\ count'[taken] = count[taken] + Cardinality(upto)
        /\ count'[refused] = count[refused] + 1
    <3>1. Count(Cardinality(upto), {taken}, {refused})
      BY <1>3
    <3>. HIDE DEF upto
    <3>. QED  BY <2>3, <3>1, EvidenceCounted DEF EvidenceCounters
  <2>5. Standing' \subseteq Standing
    BY <1>2, <1>3 DEF DiagnosticsRepeatAName
  <2>. HIDE DEF upto
  <2>. QED  BY <2>3, <2>4, <2>5, StandingLost
<1>4. CASE RejectDiagnostics(message) /\ \E causes : /\ RejectEvidence(message, causes)
                                                    /\ causes \cap EvidenceCounters = {}
  <2>1. PICK causes : Count(all, EvidenceCounters, causes) /\ causes \cap EvidenceCounters = {}
    BY <1>4 DEF RejectEvidence
  <2>2. count'[taken] = count[taken] + all /\ count'[refused] = count[refused] + all
    BY <1>1, <2>1, EvidenceCounted DEF EvidenceCounters
  <2>3. Standing' \subseteq Standing
    BY <1>2, <1>4 DEF RejectDiagnostics
  <2>. QED  BY <1>1, <2>2, <2>3, StandingLost
<1>5. CASE DiagnosticsUnattributed(message, endpoints) /\ RejectEvidence(message, {})
  <2>1. {} \cap EvidenceCounters = {}
    OBVIOUS
  <2>. QED  BY <1>4, <1>5, <2>1 DEF DiagnosticsUnattributed
<1>6. CASE /\ DiagnosticsUntimed(message, endpoints)
           /\ RejectEvidence(message, IF message.stamp <= 0 THEN {} ELSE {"clock_domain_mismatch"})
  <2>1. (IF message.stamp <= 0 THEN {} ELSE {"clock_domain_mismatch"}) \cap EvidenceCounters = {}
    BY DEF EvidenceCounters
  <2>. QED  BY <1>4, <1>6, <2>1 DEF DiagnosticsUntimed
<1>7. CASE /\ DiagnosticsOutOfOrder(message, endpoints)
           /\ RejectEvidence(message,
                OrderCounter(<<"diagnostic_duplicate", "diagnostic_nonmonotonic">>,
                             DiagnosticOrder(message, Min(LateCandidates(message)))))
  <2>1. \A order : OrderCounter(<<"diagnostic_duplicate", "diagnostic_nonmonotonic">>, order)
                     \cap EvidenceCounters = {}
    BY DEF OrderCounter, EvidenceCounters
  <2>. QED  BY <1>4, <1>7, <2>1 DEF DiagnosticsOutOfOrder
<1>8. CASE DiagnosticsFlawed(message, endpoints) /\ RejectEvidence(message, {})
  <2>1. Standing' \subseteq Standing
    BY <1>2, <1>8 DEF DiagnosticsFlawed
  <2>2. count'[taken] = count[taken] + all /\ count'[refused] = count[refused] + all
    BY <1>1, <1>8, EvidenceCounted DEF RejectEvidence, EvidenceCounters
  <2>. QED  BY <1>1, <2>1, <2>2, StandingLost
<1>9. CASE /\ DiagnosticsAccepted(message, endpoints)
           /\ Count(all, {"diagnostic_evidence_received"}, {})
  <2>. DEFINE names == CandidateNames(message)
  <2>1. /\ names \subseteq Required /\ IsFiniteSet(names)
        /\ Cardinality(names) \in Nat /\ Cardinality(names) <= all
    BY NoMoreNames
  <2>2. Standing' \subseteq Standing \cup names
    BY <1>9 DEF DiagnosticsAccepted, Standing
  <2>3. count'[taken] = count[taken] + all /\ count'[refused] = count[refused]
    BY <1>1, <1>9, EvidenceCounted DEF EvidenceCounters
  <2>4. Standing \subseteq Required /\ Standing' \subseteq Required
    BY DEF Standing
  <2>. HIDE DEF all, names
  <2>5. /\ IsFiniteSet(Standing) /\ IsFiniteSet(Standing \cup names)
        /\ Cardinality(Standing) \in Nat /\ Cardinality(Standing') \in Nat
        /\ Cardinality(Standing \cap names) \in Nat
        /\ Cardinality(Standing \cup names)
             = Cardinality(Standing) + Cardinality(names) - Cardinality(Standing \cap names)
        /\ Cardinality(Standing') <= Cardinality(Standing \cup names)
    BY <2>1, <2>2, <2>4, StandingFinite, FS_Union, FS_Subset, FS_Intersection, FS_CardinalityType
  <2>6. Cardinality(Standing') <= Cardinality(Standing) + all
    BY <1>1, <2>1, <2>5
  <2>7. count[taken] \in Int /\ count[refused] \in Int
    BY DEF EvidenceBooked, EvidenceCounters
  <2>8. Cardinality(Standing) <= count[taken] - count[refused]
    BY DEF EvidenceBooked, EvidenceAccountedFor, Standing
  <2>9. Cardinality(Standing') <= count'[taken] - count'[refused]
    BY <1>1, <2>3, <2>5, <2>6, <2>7, <2>8
  <2>10. \A c \in EvidenceCounters : count'[c] \in Int
    BY <1>1, <2>3, <2>7 DEF EvidenceCounters
  <2>. QED  BY <2>9, <2>10 DEF EvidenceBooked, EvidenceAccountedFor, Standing
<1>. QED  BY <1>3, <1>5, <1>6, <1>7, <1>8, <1>9 DEF CountDiagnostics

(* Frames, statuses, the timer and the clocks touch no evidence. *)
LEMMA OthersBookNoEvidence ==
  ASSUME EvidenceBooked, UNCHANGED diagnostic_received_at,
         \A c \in EvidenceCounters : count'[c] = count[c]
  PROVE  EvidenceBooked'
BY DEF EvidenceBooked, EvidenceAccountedFor, EvidenceCounters

(* A name that is no counter of evidence adds nothing to it. *)
LEMMA CountedOnceElsewhere ==
  ASSUME EvidenceBooked, NEW names, names \cap EvidenceCounters = {}, CountOnce(names)
  PROVE  \A c \in EvidenceCounters : count'[c] = count[c]
<1>1. \A c \in EvidenceCounters : count[c] \in Int /\ c \in Counters /\ c \notin names
  BY DEF EvidenceBooked, EvidenceCounters, Counters
<1>. QED  BY <1>1 DEF CountOnce, Count

(* AllEvidenceAccountedFor: what stands was received and not rejected.     *)
THEOREM AllEvidenceAccountedFor == CountersSpec => []EvidenceAccountedFor
<1>1. CountersInit => EvidenceBooked
  <2>. SUFFICES ASSUME CountersInit PROVE EvidenceBooked
    OBVIOUS
  <2>1. count["diagnostic_evidence_received"] = 0 /\ count["diagnostic_evidence_rejected"] = 0
    BY DEF CountersInit, Counters
  <2>2. {i \in Required : diagnostic_received_at[i] # Never} = {}
    BY DEF CountersInit, Init
  <2>3. Cardinality({i \in Required : diagnostic_received_at[i] # Never}) = 0
    BY <2>2, FS_EmptySet
  <2>. QED  BY <2>1, <2>3 DEF EvidenceBooked, EvidenceAccountedFor, EvidenceCounters
<1>2. TypeOK /\ EvidenceBooked /\ [CountersNext]_<<vars, count>> => EvidenceBooked'
  <2>. SUFFICES ASSUME TypeOK, EvidenceBooked, [CountersNext]_<<vars, count>>
                PROVE  EvidenceBooked'
    OBVIOUS
  <2>1. ASSUME NEW sample \in OdometrySamples, CountOdometry(sample)  PROVE EvidenceBooked'
    <3>1. UNCHANGED diagnostic_received_at
      BY <2>1, OdometryFrame DEF CountOdometry, CountTransformFailure, OnOdometry,
        diagnosticVars, observationVars
    <3>2. /\ Gaps(sample) \cap EvidenceCounters = {} /\ RateCounter \cap EvidenceCounters = {}
          /\ \A order : OrderCounter(<<"duplicate", "nonmonotonic">>, order)
                         \cap EvidenceCounters = {}
      BY DEF Gaps, RateCounter, OrderCounter, EvidenceCounters
    <3>3. \E names : CountOnce(names) /\ names \cap EvidenceCounters = {}
      BY <2>1, <3>2 DEF CountOdometry, CountTransformFailure, EvidenceCounters
    <3>. QED  BY <3>1, <3>3, CountedOnceElsewhere, OthersBookNoEvidence
  <2>2. ASSUME NEW message \in StatusMessages, CountStatus(message)  PROVE EvidenceBooked'
    <3>1. UNCHANGED diagnostic_received_at
      BY <2>2, StatusFrame DEF CountStatus, OnVisualSlamStatus, diagnosticVars, observationVars
    <3>2. \A order : OrderCounter(<<"status_duplicate", "status_nonmonotonic">>, order)
                       \cap EvidenceCounters = {}
      BY DEF OrderCounter, EvidenceCounters
    <3>3. \E names : CountOnce(names) /\ names \cap EvidenceCounters = {}
      BY <2>2, <3>2 DEF CountStatus, EvidenceCounters
    <3>. QED  BY <3>1, <3>3, CountedOnceElsewhere, OthersBookNoEvidence
  <2>3. CASE (OnDiagnosticTimer \/ Tick \/ ClockStep) /\ UNCHANGED count
    BY <2>3, OthersBookNoEvidence, TimerFrame, ClockFrame DEF diagnosticVars, observationVars
  <2>4. CASE UNCHANGED <<vars, count>>
    BY <2>4, OthersBookNoEvidence DEF vars, diagnosticVars, observationVars
  <2>. QED  BY <2>1, <2>2, <2>3, <2>4, EvidenceIsBooked DEF CountersNext, DiagnosticsIgnored
<1>3. EvidenceBooked => EvidenceAccountedFor
  BY DEF EvidenceBooked
<1>. QED  BY <1>1, <1>2, <1>3, CountersIsSpec, TypeCorrect, PTL DEF CountersSpec
=============================================================================
