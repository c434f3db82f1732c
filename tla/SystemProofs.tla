---------------------------- MODULE SystemProofs ----------------------------
(***************************************************************************)
(* That a process started again owes nothing to the one before it, and     *)
(* that transport alone never latches it, for every depth of the histories *)
(* and every loss.                                                         *)
(***************************************************************************)
EXTENDS AdapterSystem, AdapterProofs, FiniteSetTheorems

(* The frames a source sends from some time on. *)
FramesSince(t) ==
  {[stamp |-> n, pose |-> 0, defects |-> {}] : n \in {n \in Nat : n >= t}}

(* A frame of that time or later is one of them, and has such a stamp. *)
LEMMA FramesSinceStamps ==
  ASSUME NEW t \in Nat
  PROVE  /\ \A n \in Nat : n >= t => [stamp |-> n, pose |-> 0, defects |-> {}] \in FramesSince(t)
         /\ \A frame \in FramesSince(t) : frame.stamp \in {n \in Nat : n >= t}
<1>1. ASSUME NEW n \in Nat, n >= t
      PROVE  [stamp |-> n, pose |-> 0, defects |-> {}] \in FramesSince(t)
  BY <1>1 DEF FramesSince
<1>2. ASSUME NEW frame \in FramesSince(t)
      PROVE  frame.stamp \in {n \in Nat : n >= t}
  <2>1. PICK n \in {n \in Nat : n >= t} : frame = [stamp |-> n, pose |-> 0, defects |-> {}]
    BY Zenon DEF FramesSince
  <2>. QED  BY <2>1
<1>. QED  BY <1>1, <1>2

(* All that waits, and all that was accepted, was sent to this process. *)
SentToThisProcess ==
  /\ ros \in Nat /\ started \in Nat /\ started <= ros
  /\ odometry_queue \in Seq(FramesSince(started))
  /\ stamp_guard \in {NoStamp} \cup {n \in Nat : n >= started}
  /\ TrustIsEarnedAnew

(* A history takes a frame in and keeps the others, or drops the oldest.   *)
LEMMA EnqueueKeeps ==
  ASSUME NEW S, NEW queue \in Seq(S), NEW message \in S
  PROVE  Enqueue(queue, message) \in Seq(S)
<1>1. QueueDepth \in Nat /\ QueueDepth > 0
  BY QueueAssumption
<1>2. CASE Len(queue) = QueueDepth
  <2>1. queue # <<>>
    BY <1>1, <1>2
  <2>2. Tail(queue) \in Seq(S)
    BY <2>1
  <2>. QED  BY <1>2, <2>2 DEF Enqueue
<1>3. CASE Len(queue) # QueueDepth
  BY <1>3 DEF Enqueue
<1>. QED  BY <1>2, <1>3

(* What a callback does to the gate, whatever it is handed. *)
LEMMA CallbackMoves ==
  ASSUME \/ \E sample : OnOdometry(sample)
         \/ \E message : OnVisualSlamStatus(message)
         \/ \E message, endpoints : OnUpstreamDiagnostics(message, endpoints)
         \/ OnDiagnosticTimer
  PROVE  \/ UNCHANGED healthVars
         \/ \E why : Transient(why) \/ Latched(why)
         \/ MaybeAdvanceHealth
         \/ TimerWaits
<1>1. CASE \E sample : OnOdometry(sample)
  BY <1>1 DEF OnOdometry, OdometryInvalid, OdometryOutOfOrder, OdometryClockMismatch,
    OdometryJumps, OdometryWarmsUp, OdometryUntimely, OdometryTransformFails,
    OdometryAccepted
<1>2. CASE \E message : OnVisualSlamStatus(message)
  BY <1>2 DEF OnVisualSlamStatus, StatusInvalid, StatusOutOfOrder, StatusClockMismatch,
    TrackingLost, TrackingAccepted
<1>3. CASE \E message, endpoints : OnUpstreamDiagnostics(message, endpoints)
  BY <1>3 DEF OnUpstreamDiagnostics, DiagnosticsRepeatAName, DiagnosticsUnattributed,
    DiagnosticsUntimed, DiagnosticsOutOfOrder, DiagnosticsFlawed, DiagnosticsAccepted
<1>4. CASE OnDiagnosticTimer
  BY <1>4 DEF OnDiagnosticTimer, TimerLatches, TimerFindsHealthy, TimerFindsFault
<1>. QED  BY <1>1, <1>2, <1>3, <1>4

(* A verdict becomes healthy with the credit of the frame accepted last.   *)
LEMMA HealthyIsCredited ==
  ASSUME \/ UNCHANGED healthVars
         \/ \E why : Transient(why) \/ Latched(why)
         \/ MaybeAdvanceHealth
         \/ TimerWaits,
         health' = "healthy"
  PROVE  \/ UNCHANGED healthVars
         \/ last_health_observed_stamp' = stamp_guard' /\ stamp_guard' # NoStamp
<1>1. ASSUME NEW why, Transient(why) \/ Latched(why)  PROVE UNCHANGED healthVars
  BY <1>1 DEF Transient, Latched, MarkTransient, MarkLatched, healthVars
<1>2. CASE MaybeAdvanceHealth
  <2>1. (InputsReason = "INPUT_HEALTHY" => stamp_guard # NoStamp)'
    BY FreshInputs, PTL
  <2>. QED  BY <1>2, <2>1 DEF MaybeAdvanceHealth, MarkTransient, healthVars
<1>3. ~TimerWaits
  BY DEF TimerWaits, MarkStarting, MarkTransient
<1>. QED  BY <1>1, <1>2, <1>3

(* A callback that accepts nothing but what was sent to this process keeps *)
(* it so.                                                                  *)
LEMMA CallbackKeeps ==
  ASSUME SentToThisProcess, UNCHANGED <<ros, started>>,
         odometry_queue' \in Seq(FramesSince(started)),
         stamp_guard' \in {stamp_guard} \cup {n \in Nat : n >= started},
         \/ UNCHANGED healthVars
         \/ \E why : Transient(why) \/ Latched(why)
         \/ MaybeAdvanceHealth
         \/ TimerWaits
  PROVE  SentToThisProcess'
<1>1. stamp_guard' \in {NoStamp} \cup {n \in Nat : n >= started}
  BY DEF SentToThisProcess
<1>2. health' = "healthy" => last_health_observed_stamp' >= started
  BY <1>1, HealthyIsCredited DEF SentToThisProcess, TrustIsEarnedAnew, healthVars, gateVars
<1>. QED  BY <1>1, <1>2 DEF SentToThisProcess, TrustIsEarnedAnew

(* Every step of the system keeps the earlier life out. *)
LEMMA SentStep == SentToThisProcess /\ [SystemNext]_systemVars => SentToThisProcess'
<1>. SUFFICES ASSUME SentToThisProcess, [SystemNext]_systemVars PROVE SentToThisProcess'
  OBVIOUS
<1>0. /\ ros \in Nat /\ started \in Nat /\ started <= ros
      /\ odometry_queue \in Seq(FramesSince(started))
  BY DEF SentToThisProcess
<1>1. CASE UNCHANGED <<vars, odometry_queue, started>>
  BY <1>1 DEF vars, clockVars, odometryVars, acceptedVars, healthVars, gateVars,
    SentToThisProcess, TrustIsEarnedAnew
<1>2. CASE TakeOdometry
  <2>. DEFINE frame == Head(odometry_queue)
  <2>1. frame \in FramesSince(started) /\ odometry_queue' \in Seq(FramesSince(started))
    BY <1>0, <1>2 DEF TakeOdometry
  <2>2. frame.stamp \in {n \in Nat : n >= started}
    BY <1>0, <2>1, FramesSinceStamps
  <2>3. OnOdometry(frame) /\ UNCHANGED <<ros, started>>
    BY <1>2, OdometryFrame DEF TakeOdometry, clockVars
  <2>. HIDE DEF frame
  <2>4. stamp_guard' \in {stamp_guard, frame.stamp}
    BY <2>3 DEF OnOdometry, OdometryInvalid, OdometryOutOfOrder, OdometryClockMismatch,
      OdometryJumps, OdometryWarmsUp, OdometryUntimely, OdometryTransformFails,
      OdometryAccepted, DropOdometry, AcceptOdometry, acceptedVars
  <2>. QED  BY <2>1, <2>2, <2>3, <2>4, CallbackMoves, CallbackKeeps
<1>3. CASE TakeStatus \/ TakeDiagnostics \/ TakeTimer
  <2>1. UNCHANGED <<ros, started, odometry_queue, stamp_guard>>
    BY <1>3, StatusFrame, DiagnosticFrame, TimerFrame DEF TakeStatus, TakeDiagnostics,
      TakeTimer, queueVars, clockVars, odometryVars, acceptedVars
  <2>2. \/ UNCHANGED healthVars
        \/ \E why : Transient(why) \/ Latched(why)
        \/ MaybeAdvanceHealth
        \/ TimerWaits
    BY <1>3, CallbackMoves DEF TakeStatus, TakeDiagnostics, TakeTimer
  <2>. QED  BY <1>0, <2>1, <2>2, CallbackKeeps
<1>4. CASE TimePasses
  <2>1. /\ ros' = ros + 1
        /\ UNCHANGED <<stamp_guard, health, last_health_observed_stamp, started>>
    BY <1>4 DEF TimePasses, Tick, odometryVars, acceptedVars, healthVars, gateVars
  <2>2. Frame \in FramesSince(started)
    <3>1. ros' \in Nat /\ ros' >= started
      BY <1>0, <2>1
    <3>. QED  BY <1>0, <3>1, FramesSinceStamps DEF Frame
  <2>3. odometry_queue' \in {odometry_queue, Enqueue(odometry_queue, Frame)}
    BY <1>4 DEF TimePasses
  <2>4. odometry_queue' \in Seq(FramesSince(started))
    BY <1>0, <2>2, <2>3, EnqueueKeeps
  <2>. QED  BY <1>0, <2>1, <2>4 DEF SentToThisProcess, TrustIsEarnedAnew
<1>5. CASE Restart
  <2>1. <<>> \in Seq(FramesSince(started'))
    OBVIOUS
  <2>. QED  BY <1>0, <1>5, <2>1 DEF Restart, ConstructNode, SentToThisProcess, TrustIsEarnedAnew
<1>6. CASE \E w \in Writers : DiagnosticsArrive(w)
  BY <1>1, <1>6 DEF DiagnosticsArrive
<1>7. CASE ClockIsSet
  <2>1. /\ ros' \in Nat /\ ros' >= ros
        /\ UNCHANGED <<stamp_guard, health, last_health_observed_stamp, started, odometry_queue>>
    BY <1>0, <1>7, QueueAssumption DEF ClockIsSet, ClockStep, queueVars, odometryVars,
      acceptedVars, healthVars, gateVars
  <2>. QED  BY <1>0, <2>1 DEF SentToThisProcess, TrustIsEarnedAnew
<1>. QED  BY <1>1, <1>2, <1>3, <1>4, <1>5, <1>6, <1>7 DEF SystemNext, systemVars, queueVars

(* TrustAlwaysEarnedAnew: a healthy verdict credits a frame sent after the *)
(* process was started.                                                    *)
THEOREM TrustAlwaysEarnedAnew == SystemSpec => []TrustIsEarnedAnew
<1>1. SystemInit => SentToThisProcess
  <2>1. <<>> \in Seq(FramesSince(ros))
    OBVIOUS
  <2>. QED  BY <2>1, EnvironmentAssumption DEF SystemInit, Init, GateInit, SentToThisProcess,
        TrustIsEarnedAnew
<1>2. SentToThisProcess => TrustIsEarnedAnew
  BY DEF SentToThisProcess
<1>. QED  BY <1>1, <1>2, SentStep, PTL DEF SystemSpec

-----------------------------------------------------------------------------
(***************************************************************************)
(* Transport never latches.  A handler latches on a stamp older than its   *)
(* guard, so that the invariant follows every stream from its source to    *)
(* its guard: what waits is in the order it was sent, younger than the     *)
(* guard and no younger than the clock.                                    *)
(***************************************************************************)
Frames == [stamp : Nat, pose : {0}, defects : {{}}]
Trackings == [stamp : Nat, kind : {"lost", "tracking"}]
Reports ==
  {message \in [stamp : Nat, gid : Writers, status : {Statuses(w) : w \in Writers}] :
     message.status = Statuses(message.gid)}

Ascends(queue, after, upto) ==
  \A k \in 1..Len(queue) :
    /\ after < queue[k].stamp /\ queue[k].stamp <= upto
    /\ \A j \in 1..Len(queue) : j < k => queue[j].stamp < queue[k].stamp

OdometryInOrder ==
  /\ odometry_queue \in Seq(Frames)
  /\ odometry_sequence_guard \in Nat /\ odometry_sequence_guard <= ros
  /\ Ascends(odometry_queue, odometry_sequence_guard, ros)

StatusInOrder ==
  /\ status_queue \in Seq(Trackings)
  /\ status_sequence_guard \in Nat /\ status_sequence_guard <= ros
  /\ Ascends(status_queue, status_sequence_guard, ros)

(* Of every writer: what is in flight, behind what waits, behind the guard *)
(* of each diagnostic it is to report.                                     *)
FlightsInOrder ==
  /\ in_flight \in [Writers -> Seq(Reports)]
  /\ \A w \in Writers :
       /\ Ascends(in_flight[w], 0, ros)
       /\ \A k \in 1..Len(in_flight[w]) : in_flight[w][k].gid = w

ArrivalsInOrder ==
  /\ diagnostics_queue \in Seq(Reports)
  /\ \A k \in 1..Len(diagnostics_queue) :
       /\ diagnostics_queue[k].stamp <= ros
       /\ \A j \in 1..Len(diagnostics_queue) :
            j < k /\ diagnostics_queue[j].gid = diagnostics_queue[k].gid
              => diagnostics_queue[j].stamp < diagnostics_queue[k].stamp
       /\ \A w \in Writers : diagnostics_queue[k].gid = w =>
            \A j \in 1..Len(in_flight[w]) : diagnostics_queue[k].stamp < in_flight[w][j].stamp

GuardsBehind ==
  /\ diagnostic_sequence_guards \in [Required -> Nat]
  /\ \A i \in Required :
       /\ diagnostic_sequence_guards[i] <= ros
       /\ \A k \in 1..Len(diagnostics_queue) :
            diagnostics_queue[k].gid = ExpectedPublisher[i]
              => diagnostic_sequence_guards[i] < diagnostics_queue[k].stamp
       /\ \A k \in 1..Len(in_flight[ExpectedPublisher[i]]) :
            diagnostic_sequence_guards[i] < in_flight[ExpectedPublisher[i]][k].stamp

InOrder ==
  /\ ros \in Nat
  /\ last_input_pose \in {NoPose, << 0 >>}
  /\ OdometryInOrder /\ StatusInOrder
  /\ FlightsInOrder /\ ArrivalsInOrder /\ GuardsBehind
  /\ NoTransportLatches

(* What a queue holds after it took a message in: the message last, and    *)
(* before it what it held, all or without the oldest.                      *)
TookIn(e, queue, message) ==
  /\ Len(e) > 0 /\ e[Len(e)] = message
  /\ \E shift \in {0, 1} : \A k \in 1..(Len(e) - 1) :
       k + shift \in 1..Len(queue) /\ e[k] = queue[k + shift]

LEMMA AppendElements ==
  ASSUME NEW S, NEW queue \in Seq(S), NEW message \in S
  PROVE  Append(queue, message) \in Seq(S) /\ TookIn(Append(queue, message), queue, message)
<1>. DEFINE e == Append(queue, message)
<1>1. /\ e \in Seq(S) /\ Len(e) = Len(queue) + 1 /\ e[Len(queue) + 1] = message
      /\ \A k \in 1..Len(queue) : e[k] = queue[k]
  BY AppendProperties
<1>. QED  BY <1>1 DEF TookIn

(* A history does so, full or not. *)
LEMMA EnqueueElements ==
  ASSUME NEW S, NEW queue \in Seq(S), NEW message \in S
  PROVE  /\ Enqueue(queue, message) \in Seq(S)
         /\ TookIn(Enqueue(queue, message), queue, message)
<1>. DEFINE e == Enqueue(queue, message)
<1>1. QueueDepth \in Nat /\ QueueDepth > 0
  BY QueueAssumption
<1>2. CASE Len(queue) = QueueDepth
  <2>1. e = Append(Tail(queue), message) /\ queue # <<>>
    BY <1>1, <1>2 DEF Enqueue
  <2>2. /\ Tail(queue) \in Seq(S) /\ Len(Tail(queue)) = Len(queue) - 1
        /\ \A k \in 1..(Len(queue) - 1) : Tail(queue)[k] = queue[k + 1]
    BY <2>1, HeadTailProperties
  <2>3. /\ e \in Seq(S) /\ Len(e) = Len(queue) /\ e[Len(queue)] = message
        /\ \A k \in 1..(Len(queue) - 1) : e[k] = Tail(queue)[k]
    BY <1>1, <1>2, <2>1, <2>2, AppendProperties
  <2>. QED  BY <1>1, <1>2, <2>2, <2>3 DEF TookIn
<1>3. CASE Len(queue) # QueueDepth
  <2>1. e = Append(queue, message)
    BY <1>3 DEF Enqueue
  <2>. QED  BY <2>1, AppendElements
<1>. QED  BY <1>2, <1>3

(* A queue stays in order when it takes in a message younger than all it *)
(* holds, and when its oldest one is taken out and committed or not.       *)
LEMMA TookInAscends ==
  ASSUME NEW S, NEW queue \in Seq(S), NEW message \in S,
         NEW e \in Seq(S), TookIn(e, queue, message),
         \A m \in S : m.stamp \in Nat,
         NEW after \in Nat, NEW upto \in Nat, NEW later \in Nat,
         after <= upto, upto < message.stamp, message.stamp <= later,
         Ascends(queue, after, upto)
  PROVE  Ascends(e, after, later)
<1>1. Len(e) > 0 /\ e[Len(e)] = message
  BY DEF TookIn
<1>2. PICK shift \in {0, 1} : \A k \in 1..(Len(e) - 1) :
           k + shift \in 1..Len(queue) /\ e[k] = queue[k + shift]
  BY DEF TookIn
<1>3. \A k \in 1..Len(queue) : queue[k].stamp \in Nat
  OBVIOUS
<1>4. \A k \in 1..(Len(e) - 1) : after < e[k].stamp /\ e[k].stamp <= upto /\ e[k].stamp \in Nat
  BY <1>2, <1>3 DEF Ascends
<1>5. ASSUME NEW k \in 1..(Len(e) - 1), NEW j \in 1..(Len(e) - 1), j < k
      PROVE  e[j].stamp < e[k].stamp
  <2>1. /\ e[k] = queue[k + shift] /\ e[j] = queue[j + shift]
        /\ k + shift \in 1..Len(queue) /\ j + shift \in 1..Len(queue)
    BY <1>2
  <2>2. j + shift < k + shift
    BY <1>5
  <2>. QED  BY <2>1, <2>2 DEF Ascends
<1>6. ASSUME NEW k \in 1..Len(e)
      PROVE  /\ after < e[k].stamp /\ e[k].stamp <= later
             /\ \A j \in 1..Len(e) : j < k => e[j].stamp < e[k].stamp
  <2>0. message.stamp \in Nat /\ Len(e) \in Nat
    OBVIOUS
  <2>1. CASE k = Len(e)
    <3>1. \A j \in 1..Len(e) : j < k => j \in 1..(Len(e) - 1)
      BY <2>0, <2>1
    <3>. QED  BY <1>1, <1>4, <2>0, <2>1, <3>1
  <2>2. CASE k # Len(e)
    <3>1. k \in 1..(Len(e) - 1) /\ \A j \in 1..Len(e) : j < k => j \in 1..(Len(e) - 1)
      BY <2>0, <2>2
    <3>. QED  BY <1>4, <1>5, <2>0, <3>1
  <2>. QED  BY <2>1, <2>2
<1>. QED  BY <1>6 DEF Ascends

LEMMA TakeAscends ==
  ASSUME NEW S, NEW queue \in Seq(S), queue # <<>>,
         NEW after, NEW upto, Ascends(queue, after, upto)
  PROVE  /\ Head(queue) \in S /\ Tail(queue) \in Seq(S)
         /\ after < Head(queue).stamp /\ Head(queue).stamp <= upto
         /\ Ascends(Tail(queue), after, upto)
         /\ Ascends(Tail(queue), Head(queue).stamp, upto)
<1>1. /\ Head(queue) = queue[1] /\ Len(queue) \in Nat /\ Len(queue) > 0
      /\ Tail(queue) \in Seq(S) /\ Len(Tail(queue)) = Len(queue) - 1
      /\ \A k \in 1..(Len(queue) - 1) : Tail(queue)[k] = queue[k + 1]
  BY HeadTailProperties
<1>2. \A k \in 1..Len(Tail(queue)) :
        Tail(queue)[k] = queue[k + 1] /\ k + 1 \in 1..Len(queue) /\ 1 < k + 1
  BY <1>1
<1>3. 1 \in 1..Len(queue) /\ Head(queue) \in S
  BY <1>1
<1>4. ASSUME NEW k \in 1..Len(Tail(queue)), NEW j \in 1..Len(Tail(queue)), j < k
      PROVE  Tail(queue)[j].stamp < Tail(queue)[k].stamp
  <2>1. j + 1 < k + 1
    BY <1>1, <1>4
  <2>. QED  BY <1>2, <2>1 DEF Ascends
<1>. QED  BY <1>1, <1>2, <1>3, <1>4 DEF Ascends

-----------------------------------------------------------------------------
(* What a callback may do to the gate without latching it. *)
Forgiving ==
  \/ UNCHANGED healthVars
  \/ \E why : Transient(why)
  \/ MaybeAdvanceHealth
  \/ TimerWaits

LEMMA ForgivingStaysUnlatched ==
  ASSUME NoTransportLatches, Forgiving
  PROVE  NoTransportLatches'
BY DEF NoTransportLatches, Forgiving, Transient, MaybeAdvanceHealth, TimerWaits, MarkTransient,
  MarkStarting, ObserveHealthySample, healthVars, gateVars

(* A frame of the source, younger than the guard, is never latched on.     *)
LEMMA FrameForgiven ==
  ASSUME NEW sample \in Frames, OnOdometry(sample),
         odometry_sequence_guard \in Nat, odometry_sequence_guard < sample.stamp,
         last_input_pose \in {NoPose, << 0 >>}
  PROVE  /\ Forgiving
         /\ last_input_pose' \in {NoPose, << 0 >>}
         /\ odometry_sequence_guard' \in {odometry_sequence_guard, sample.stamp}
<1>1. sample.stamp \in Nat /\ sample.stamp > 0 /\ sample.pose = 0 /\ sample.defects = {}
  BY DEF Frames
<1>2. ValidateOdometrySample(sample) = {}
  BY <1>1 DEF ValidateOdometrySample
<1>3. Classify(odometry_sequence_guard, sample.stamp) = "accept"
  BY <1>1 DEF Classify
<1>4. ~PoseJumps(sample.pose)
  <2>1. last_input_pose # NoPose => last_input_pose[1] = 0
    OBVIOUS
  <2>2. StampDistance(0, 0) = 0
    BY DEF StampDistance
  <2>. QED  BY <1>1, <2>1, <2>2, HealthContract DEF PoseJumps
<1>5. ~OdometryInvalid(sample) /\ ~OdometryOutOfOrder(sample)
  BY <1>2, <1>3 DEF OdometryInvalid, OdometryOutOfOrder
<1>6. ~OdometryJumps(sample) /\ ~OdometryTransformFails(sample)
  BY <1>1, <1>4, SourcesAssumption DEF OdometryJumps, OdometryTransformFails
<1>7. CASE OdometryClockMismatch(sample)
  BY <1>7 DEF OdometryClockMismatch, DropOdometry, sequenceVars, acceptedVars, Forgiving
<1>8. CASE OdometryWarmsUp(sample) \/ OdometryUntimely(sample)
  BY <1>8 DEF OdometryWarmsUp, OdometryUntimely, CommitSequence, acceptedVars, Forgiving
<1>9. CASE OdometryAccepted(sample)
  BY <1>1, <1>9 DEF OdometryAccepted, AcceptOdometry, CommitSequence, Forgiving
<1>. QED  BY <1>5, <1>6, <1>7, <1>8, <1>9 DEF OnOdometry

(* Nor is a tracking status. *)
LEMMA TrackingForgiven ==
  ASSUME NEW message \in Trackings, OnVisualSlamStatus(message),
         status_sequence_guard \in Nat, status_sequence_guard < message.stamp
  PROVE  Forgiving /\ status_sequence_guard' \in {status_sequence_guard, message.stamp}
<1>1. message.stamp \in Nat /\ message.stamp > 0
  BY DEF Trackings
<1>2. Classify(status_sequence_guard, message.stamp) = "accept"
  BY <1>1 DEF Classify
<1>3. ~StatusOutOfOrder(message)
  BY <1>2 DEF StatusOutOfOrder
<1>. QED  BY <1>3 DEF OnVisualSlamStatus, StatusInvalid, StatusClockMismatch, TrackingLost,
       TrackingAccepted, DropStatus, CommitStatus, Forgiving

(* What a report carries: its writer's required diagnostics, each once.    *)
LEMMA ReportCarries ==
  ASSUME NEW message \in Reports
  PROVE  /\ message.stamp \in Nat /\ message.gid \in Writers
         /\ Candidates(message) = {i \in Required : ExpectedPublisher[i] = message.gid}
         /\ \A i \in Candidates(message) :
              /\ message.status[i].name = i
              /\ message.status[i].level = 0 /\ message.status[i].flaws = {}
         /\ CandidateNames(message) = Candidates(message)
<1>1. /\ message.stamp \in Nat /\ message.gid \in Writers
      /\ message.status = Statuses(message.gid)
  BY DEF Reports
<1>2. 0 \notin Required
  BY DEF Required
<1>3. \A i \in Required : message.status[i].name =
        IF ExpectedPublisher[i] = message.gid THEN i ELSE 0
  BY <1>1 DEF Statuses
<1>4. DOMAIN message.status = Required
  BY <1>1 DEF Statuses
<1>5. Candidates(message) = {i \in Required : ExpectedPublisher[i] = message.gid}
  BY <1>2, <1>3, <1>4 DEF Candidates
<1>6. \A i \in Candidates(message) : message.status[i].name = i
  BY <1>3, <1>5
<1>7. CandidateNames(message) = Candidates(message)
  BY <1>6 DEF CandidateNames
<1>8. \A i \in Required : message.status[i].level = 0 /\ message.status[i].flaws = {}
  BY <1>1 DEF Statuses
<1>. QED  BY <1>1, <1>5, <1>6, <1>7, <1>8

(* A writer that is in the ROS graph at all is there alone. *)
LEMMA ReportAttributed ==
  ASSUME NEW message \in Reports, NEW endpoints \in DiagnosticEndpoints
  PROVE  SourceEndpoints(message, endpoints) = {} \/ Attributed(message, endpoints)
<1>. SUFFICES ASSUME NEW e \in SourceEndpoints(message, endpoints)
              PROVE  Attributed(message, endpoints)
  OBVIOUS
<1>1. /\ message.gid \in Range(ExpectedPublisher)
      /\ \A i \in CandidateNames(message) : ExpectedPublisher[i] = message.gid
  BY ReportCarries DEF Writers
<1>2. e \in DOMAIN endpoints /\ endpoints[e].gid = message.gid
  BY DEF SourceEndpoints
<1>3. /\ endpoints[e].node = message.gid
      /\ \A f \in DOMAIN endpoints :
           endpoints[f].gid = message.gid \/ endpoints[f].node = message.gid => f = e
  BY <1>1, <1>2, SourcesAssumption
<1>4. SourceEndpoints(message, endpoints) = {e}
  BY <1>2, <1>3 DEF SourceEndpoints
<1>5. Min({e}) = e
  BY DEF Min
<1>6. SourceNode(message, endpoints) = message.gid
  BY <1>3, <1>4, <1>5 DEF SourceNode
<1>7. SameNamePublishers(message, endpoints) = {e}
  BY <1>2, <1>3, <1>6 DEF SameNamePublishers
<1>. QED  BY <1>1, <1>4, <1>6, <1>7, FS_Singleton DEF Attributed

(* Nor is a report: it moves the guards of its writer, or none. *)
LEMMA ReportForgiven ==
  ASSUME NEW message \in Reports, NEW endpoints \in DiagnosticEndpoints,
         OnUpstreamDiagnostics(message, endpoints),
         diagnostic_sequence_guards \in [Required -> Nat],
         \A i \in Required : ExpectedPublisher[i] = message.gid
           => diagnostic_sequence_guards[i] < message.stamp
  PROVE  /\ Forgiving
         /\ diagnostic_sequence_guards' \in
              {diagnostic_sequence_guards,
               [i \in Required |-> IF ExpectedPublisher[i] = message.gid THEN message.stamp
                                   ELSE diagnostic_sequence_guards[i]]}
<1>1. /\ message.stamp \in Nat
      /\ Candidates(message) = {i \in Required : ExpectedPublisher[i] = message.gid}
      /\ CandidateNames(message) = Candidates(message)
  BY ReportCarries
<1>2. \A k \in Candidates(message) :
        message.status[k].name = k /\ message.status[k].level = 0 /\ message.status[k].flaws = {}
  BY ReportCarries
<1>3. ~DiagnosticsRepeatAName(message)
  <2>1. \A k, j \in Candidates(message) : j < k => message.status[j].name # message.status[k].name
    BY <1>1, <1>2 DEF Required
  <2>. QED  BY <2>1 DEF DiagnosticsRepeatAName, RepeatedCandidates
<1>4. ~DiagnosticsOutOfOrder(message, endpoints)
  <2>1. \A k \in Candidates(message) : DiagnosticOrder(message, k) = "accept"
    BY <1>1, <1>2 DEF DiagnosticOrder, Classify
  <2>. QED  BY <2>1 DEF DiagnosticsOutOfOrder, LateCandidates
<1>5. ~DiagnosticsFlawed(message, endpoints)
  <2>1. \A k \in Candidates(message) : EvidenceError(message.status[k]) = "NONE"
    BY <1>1, <1>2, RequiredContract DEF EvidenceError
  <2>. QED  BY <2>1 DEF DiagnosticsFlawed, FlawedCandidates
<1>6. CASE DiagnosticsUnattributed(message, endpoints)
  <2>1. SourceEndpoints(message, endpoints) = {}
    BY <1>6, ReportAttributed DEF DiagnosticsUnattributed
  <2>2. Cardinality(SourceEndpoints(message, endpoints)) = 0
    BY <2>1, FS_EmptySet
  <2>. QED  BY <1>6, <2>2 DEF DiagnosticsUnattributed, Forgiving
<1>7. CASE DiagnosticsUntimed(message, endpoints)
  BY <1>7 DEF DiagnosticsUntimed, Forgiving
<1>8. CASE DiagnosticsAccepted(message, endpoints)
  <2>1. diagnostic_sequence_guards' =
          [i \in Required |-> IF i \in CandidateNames(message) THEN message.stamp
                             ELSE diagnostic_sequence_guards[i]]
    BY <1>8 DEF DiagnosticsAccepted, CommitDiagnostics
  <2>. QED  BY <1>1, <1>8, <2>1 DEF DiagnosticsAccepted, Forgiving
<1>. QED  BY <1>3, <1>4, <1>5, <1>6, <1>7, <1>8 DEF OnUpstreamDiagnostics

(* Nor does the timer latch on the publishers it may see. *)
LEMMA TimerForgives ==
  ASSUME OnDiagnosticTimer
  PROVE  Forgiving
<1>1. PICK o \in PublisherLists, s \in PublisherLists :
        /\ odometry_publishers' = PublisherEvidence(o, ExpectedOdometryPublisher)
        /\ status_publishers' = PublisherEvidence(s, ExpectedStatusPublisher)
  BY TimerFrame DEF TimerFires
<1>2. ASSUME NEW list \in PublisherLists,
             NEW expected \in {ExpectedOdometryPublisher, ExpectedStatusPublisher}
      PROVE  /\ PublisherEvidence(list, expected).count \in {0, 1}
             /\ PublisherEvidence(list, expected).count = 1
                  => PublisherEvidence(list, expected).valid
  <2>1. list = <<>> \/ list = <<expected>>
    BY SourcesAssumption
  <2>2. PublisherEvidence(list, expected).count = Len(list)
    BY DEF PublisherEvidence
  <2>3. PublisherEvidence(list, expected).valid <=> list = <<expected>>
    BY Zenon DEF PublisherEvidence
  <2>4. Len(<<>>) = 0 /\ Len(<<expected>>) = 1
    OBVIOUS
  <2>5. CASE list = <<>>
    <3>1. PublisherEvidence(list, expected).count = 0
      BY <2>2, <2>4, <2>5
    <3>. QED  BY <3>1
  <2>6. CASE list = <<expected>>
    <3>1. PublisherEvidence(list, expected).count = 1
      BY <2>2, <2>4, <2>6
    <3>. QED  BY <2>3, <2>6, <3>1, Zenon
  <2>. QED  BY <2>1, <2>5, <2>6
<1>3. /\ odometry_publishers'.count \in {0, 1}
      /\ odometry_publishers'.count = 1 => odometry_publishers'.valid
      /\ status_publishers'.count \in {0, 1}
      /\ status_publishers'.count = 1 => status_publishers'.valid
  BY <1>1, <1>2
<1>4. PublisherFault' = "NONE"
  BY <1>3 DEF PublisherFault
<1>5. ~TimerLatches
  BY <1>4 DEF TimerLatches
<1>. QED  BY <1>5 DEF OnDiagnosticTimer, TimerFindsHealthy, TimerFindsFault, Forgiving

-----------------------------------------------------------------------------
(* Every message carries a natural stamp. *)
LEMMA StampsAreNatural ==
  /\ \A message \in Frames : message.stamp \in Nat
  /\ \A message \in Trackings : message.stamp \in Nat
  /\ \A message \in Reports : message.stamp \in Nat
BY DEF Frames, Trackings, Reports

(* What waits in order goes on waiting in order as the clock advances.     *)
LEMMA AscendsLater ==
  ASSUME NEW S, NEW queue \in Seq(S), \A m \in S : m.stamp \in Nat,
         NEW after, NEW upto \in Nat, NEW later \in Nat, upto <= later,
         Ascends(queue, after, upto)
  PROVE  Ascends(queue, after, later)
<1>1. \A k \in 1..Len(queue) : queue[k].stamp \in Nat
  OBVIOUS
<1>. QED  BY <1>1 DEF Ascends

LEMMA OdometryWaits ==
  ASSUME ros \in Nat, ros' \in Nat, ros <= ros', OdometryInOrder,
         UNCHANGED <<odometry_queue, odometry_sequence_guard>>
  PROVE  OdometryInOrder'
<1>1. Ascends(odometry_queue, odometry_sequence_guard, ros')
  BY AscendsLater, StampsAreNatural DEF OdometryInOrder
<1>. QED  BY <1>1 DEF OdometryInOrder

LEMMA StatusWaits ==
  ASSUME ros \in Nat, ros' \in Nat, ros <= ros', StatusInOrder,
         UNCHANGED <<status_queue, status_sequence_guard>>
  PROVE  StatusInOrder'
<1>1. Ascends(status_queue, status_sequence_guard, ros')
  BY AscendsLater, StampsAreNatural DEF StatusInOrder
<1>. QED  BY <1>1 DEF StatusInOrder

LEMMA DiagnosticsWait ==
  ASSUME ros \in Nat, ros' \in Nat, ros <= ros',
         FlightsInOrder, ArrivalsInOrder, GuardsBehind,
         UNCHANGED <<in_flight, diagnostics_queue, diagnostic_sequence_guards>>
  PROVE  FlightsInOrder' /\ ArrivalsInOrder' /\ GuardsBehind'
<1>1. ASSUME NEW w \in Writers
      PROVE  Ascends(in_flight[w], 0, ros')
  <2>1. in_flight[w] \in Seq(Reports) /\ Ascends(in_flight[w], 0, ros)
    BY DEF FlightsInOrder
  <2>. QED  BY <2>1, AscendsLater, StampsAreNatural
<1>2. FlightsInOrder'
  BY <1>1 DEF FlightsInOrder
<1>3. ArrivalsInOrder'
  <2>1. \A k \in 1..Len(diagnostics_queue) :
          diagnostics_queue[k].stamp \in Nat /\ diagnostics_queue[k].stamp <= ros
    BY StampsAreNatural DEF ArrivalsInOrder
  <2>2. \A k \in 1..Len(diagnostics_queue) : diagnostics_queue[k].stamp <= ros'
    BY <2>1
  <2>. QED  BY <2>2 DEF ArrivalsInOrder
<1>4. GuardsBehind'
  BY DEF GuardsBehind
<1>. QED  BY <1>2, <1>3, <1>4

(* Each of the four queues and the gate, when a callback takes a message.  *)
LEMMA TakeOdometryKeeps ==
  ASSUME InOrder, TakeOdometry
  PROVE  InOrder'
<1>. DEFINE frame == Head(odometry_queue)
<1>1. /\ OnOdometry(frame) /\ odometry_queue # <<>> /\ odometry_queue' = Tail(odometry_queue)
      /\ UNCHANGED <<status_queue, diagnostics_queue, in_flight>>
      /\ UNCHANGED <<clockVars, statusVars, diagnosticVars, timerVars>>
  BY OdometryFrame DEF TakeOdometry
<1>2. UNCHANGED <<ros, status_sequence_guard, diagnostic_sequence_guards>>
  BY <1>1 DEF clockVars, statusVars, diagnosticVars
<1>3. /\ odometry_queue \in Seq(Frames) /\ odometry_sequence_guard \in Nat
      /\ odometry_sequence_guard <= ros /\ ros \in Nat
      /\ Ascends(odometry_queue, odometry_sequence_guard, ros)
  BY DEF InOrder, OdometryInOrder
<1>4. /\ frame \in Frames /\ Tail(odometry_queue) \in Seq(Frames)
      /\ odometry_sequence_guard < frame.stamp /\ frame.stamp <= ros
      /\ Ascends(Tail(odometry_queue), odometry_sequence_guard, ros)
      /\ Ascends(Tail(odometry_queue), frame.stamp, ros)
  BY <1>1, <1>3, TakeAscends
<1>. HIDE DEF frame
<1>5. /\ Forgiving
      /\ last_input_pose' \in {NoPose, << 0 >>}
      /\ odometry_sequence_guard' \in {odometry_sequence_guard, frame.stamp}
  BY <1>1, <1>3, <1>4, FrameForgiven DEF InOrder
<1>6. OdometryInOrder'
  BY <1>1, <1>2, <1>3, <1>4, <1>5, StampsAreNatural DEF OdometryInOrder
<1>7. StatusInOrder' /\ FlightsInOrder' /\ ArrivalsInOrder' /\ GuardsBehind'
  BY <1>1, <1>2, <1>3, StatusWaits, DiagnosticsWait DEF InOrder
<1>. QED  BY <1>2, <1>5, <1>6, <1>7, ForgivingStaysUnlatched DEF InOrder

LEMMA TakeStatusKeeps ==
  ASSUME InOrder, TakeStatus
  PROVE  InOrder'
<1>. DEFINE message == Head(status_queue)
<1>1. /\ OnVisualSlamStatus(message) /\ status_queue # <<>> /\ status_queue' = Tail(status_queue)
      /\ UNCHANGED <<odometry_queue, diagnostics_queue, in_flight>>
      /\ UNCHANGED <<clockVars, odometryVars, diagnosticVars, timerVars>>
  BY StatusFrame DEF TakeStatus
<1>2. UNCHANGED <<ros, odometry_sequence_guard, last_input_pose, diagnostic_sequence_guards>>
  BY <1>1 DEF clockVars, odometryVars, sequenceVars, acceptedVars, diagnosticVars
<1>3. /\ status_queue \in Seq(Trackings) /\ status_sequence_guard \in Nat
      /\ status_sequence_guard <= ros /\ ros \in Nat
      /\ Ascends(status_queue, status_sequence_guard, ros)
  BY DEF InOrder, StatusInOrder
<1>4. /\ message \in Trackings /\ Tail(status_queue) \in Seq(Trackings)
      /\ status_sequence_guard < message.stamp /\ message.stamp <= ros
      /\ Ascends(Tail(status_queue), status_sequence_guard, ros)
      /\ Ascends(Tail(status_queue), message.stamp, ros)
  BY <1>1, <1>3, TakeAscends
<1>. HIDE DEF message
<1>5. Forgiving /\ status_sequence_guard' \in {status_sequence_guard, message.stamp}
  BY <1>1, <1>3, <1>4, TrackingForgiven
<1>6. StatusInOrder'
  BY <1>1, <1>2, <1>3, <1>4, <1>5, StampsAreNatural DEF StatusInOrder
<1>7. OdometryInOrder' /\ FlightsInOrder' /\ ArrivalsInOrder' /\ GuardsBehind'
  BY <1>1, <1>2, <1>3, OdometryWaits, DiagnosticsWait DEF InOrder
<1>. QED  BY <1>2, <1>5, <1>6, <1>7, ForgivingStaysUnlatched DEF InOrder

LEMMA TakeDiagnosticsKeeps ==
  ASSUME InOrder, TakeDiagnostics
  PROVE  InOrder'
<1>. DEFINE message == Head(diagnostics_queue)
<1>1. PICK endpoints \in DiagnosticEndpoints : OnUpstreamDiagnostics(message, endpoints)
  BY DEF TakeDiagnostics
<1>2. /\ diagnostics_queue # <<>> /\ diagnostics_queue' = Tail(diagnostics_queue)
      /\ UNCHANGED <<odometry_queue, status_queue, in_flight>>
      /\ UNCHANGED <<clockVars, odometryVars, statusVars, timerVars>>
  BY <1>1, DiagnosticFrame DEF TakeDiagnostics
<1>3. UNCHANGED <<ros, odometry_sequence_guard, last_input_pose, status_sequence_guard>>
  BY <1>2 DEF clockVars, odometryVars, sequenceVars, acceptedVars, statusVars
<1>4. /\ diagnostics_queue \in Seq(Reports) /\ ros \in Nat
      /\ diagnostic_sequence_guards \in [Required -> Nat]
  BY DEF InOrder, ArrivalsInOrder, GuardsBehind
<1>5. /\ message = diagnostics_queue[1] /\ 1 \in 1..Len(diagnostics_queue)
      /\ message \in Reports /\ message.stamp \in Nat /\ message.gid \in Writers
      /\ diagnostics_queue' \in Seq(Reports)
      /\ \A k \in 1..Len(diagnostics_queue') :
           /\ k + 1 \in 1..Len(diagnostics_queue) /\ 1 < k + 1
           /\ diagnostics_queue'[k] = diagnostics_queue[k + 1]
  <2>1. /\ message = diagnostics_queue[1] /\ Len(diagnostics_queue) > 0
        /\ diagnostics_queue' \in Seq(Reports)
        /\ Len(diagnostics_queue') = Len(diagnostics_queue) - 1
        /\ \A k \in 1..(Len(diagnostics_queue) - 1) : diagnostics_queue'[k] = diagnostics_queue[k + 1]
    BY <1>2, <1>4, HeadTailProperties
  <2>2. message \in Reports
    BY <1>4, <2>1
  <2>3. message.stamp \in Nat /\ message.gid \in Writers
    BY <2>2, ReportCarries
  <2>4. Len(diagnostics_queue) \in Nat
    BY <1>4
  <2>5. \A k \in 1..Len(diagnostics_queue') :
          /\ k + 1 \in 1..Len(diagnostics_queue) /\ 1 < k + 1
          /\ diagnostics_queue'[k] = diagnostics_queue[k + 1]
    BY <2>1, <2>4
  <2>. QED  BY <2>1, <2>2, <2>3, <2>4, <2>5
<1>. HIDE DEF message
<1>6. \A i \in Required : ExpectedPublisher[i] = message.gid
        => diagnostic_sequence_guards[i] < message.stamp
  BY <1>5 DEF InOrder, GuardsBehind
<1>7. /\ Forgiving
      /\ diagnostic_sequence_guards' \in
           {diagnostic_sequence_guards,
            [i \in Required |-> IF ExpectedPublisher[i] = message.gid THEN message.stamp
                                ELSE diagnostic_sequence_guards[i]]}
  BY <1>1, <1>4, <1>5, <1>6, ReportForgiven
<1>8. message.stamp <= ros
  BY <1>5 DEF InOrder, ArrivalsInOrder
<1>9. FlightsInOrder'
  BY <1>2, <1>3 DEF InOrder, FlightsInOrder
<1>10. ArrivalsInOrder'
  <2>1. ASSUME NEW k \in 1..Len(diagnostics_queue')
        PROVE  /\ diagnostics_queue'[k].stamp <= ros
               /\ \A w \in Writers : diagnostics_queue'[k].gid = w =>
                    \A j \in 1..Len(in_flight[w]) : diagnostics_queue'[k].stamp < in_flight[w][j].stamp
    BY <1>5 DEF InOrder, ArrivalsInOrder
  <2>2. ASSUME NEW k \in 1..Len(diagnostics_queue'), NEW j \in 1..Len(diagnostics_queue'),
               j < k, diagnostics_queue'[j].gid = diagnostics_queue'[k].gid
        PROVE  diagnostics_queue'[j].stamp < diagnostics_queue'[k].stamp
    <3>1. j + 1 < k + 1
      BY <1>5, <2>2
    <3>. QED  BY <1>5, <2>2, <3>1 DEF InOrder, ArrivalsInOrder
  <2>. QED  BY <1>2, <1>3, <1>5, <2>1, <2>2 DEF ArrivalsInOrder
<1>11. GuardsBehind'
  <2>1. diagnostic_sequence_guards' \in [Required -> Nat]
    BY <1>4, <1>5, <1>7
  <2>2. ASSUME NEW i \in Required
        PROVE  \/ diagnostic_sequence_guards'[i] = diagnostic_sequence_guards[i]
               \/ /\ diagnostic_sequence_guards'[i] = message.stamp
                  /\ ExpectedPublisher[i] = message.gid
    BY <1>7
  <2>3. ASSUME NEW i \in Required
        PROVE  /\ diagnostic_sequence_guards'[i] <= ros
               /\ \A k \in 1..Len(diagnostics_queue') :
                    diagnostics_queue'[k].gid = ExpectedPublisher[i]
                      => diagnostic_sequence_guards'[i] < diagnostics_queue'[k].stamp
               /\ \A k \in 1..Len(in_flight[ExpectedPublisher[i]]) :
                    diagnostic_sequence_guards'[i] < in_flight[ExpectedPublisher[i]][k].stamp
    <3>1. CASE diagnostic_sequence_guards'[i] = diagnostic_sequence_guards[i]
      BY <1>5, <3>1 DEF InOrder, GuardsBehind
    <3>2. CASE /\ diagnostic_sequence_guards'[i] = message.stamp
               /\ ExpectedPublisher[i] = message.gid
      BY <1>5, <1>8, <3>2 DEF InOrder, ArrivalsInOrder
    <3>. QED  BY <2>2, <3>1, <3>2
  <2>. QED  BY <1>2, <1>3, <2>1, <2>3 DEF GuardsBehind
<1>12. OdometryInOrder' /\ StatusInOrder'
  BY <1>2, <1>3, <1>4, OdometryWaits, StatusWaits DEF InOrder
<1>. QED  BY <1>3, <1>4, <1>7, <1>9, <1>10, <1>11, <1>12, ForgivingStaysUnlatched DEF InOrder

(* What leaves the network enters the history behind what its writer sent  *)
(* before it.                                                              *)
LEMMA ArrivalKeeps ==
  ASSUME InOrder, NEW w \in Writers, DiagnosticsArrive(w)
  PROVE  InOrder'
<1>. DEFINE message == Head(in_flight[w])
<1>1. /\ in_flight[w] # <<>> /\ diagnostics_queue' = Enqueue(diagnostics_queue, message)
      /\ in_flight' = [in_flight EXCEPT ![w] = Tail(@)]
      /\ UNCHANGED <<vars, odometry_queue, status_queue>>
  BY DEF DiagnosticsArrive
<1>2. UNCHANGED <<ros, odometry_sequence_guard, last_input_pose, status_sequence_guard,
                  diagnostic_sequence_guards, health>>
  BY <1>1 DEF vars, clockVars, odometryVars, sequenceVars, acceptedVars, statusVars,
    diagnosticVars, healthVars, gateVars
<1>3. /\ in_flight \in [Writers -> Seq(Reports)] /\ in_flight[w] \in Seq(Reports)
      /\ diagnostics_queue \in Seq(Reports) /\ ros \in Nat
      /\ diagnostic_sequence_guards \in [Required -> Nat]
      /\ Ascends(in_flight[w], 0, ros)
  BY DEF InOrder, FlightsInOrder, ArrivalsInOrder, GuardsBehind
<1>4. /\ message = in_flight[w][1] /\ 1 \in 1..Len(in_flight[w])
      /\ Tail(in_flight[w]) \in Seq(Reports)
      /\ \A k \in 1..Len(Tail(in_flight[w])) :
           /\ k + 1 \in 1..Len(in_flight[w]) /\ 1 < k + 1
           /\ Tail(in_flight[w])[k] = in_flight[w][k + 1]
  <2>1. /\ message = in_flight[w][1] /\ Len(in_flight[w]) > 0
        /\ Tail(in_flight[w]) \in Seq(Reports)
        /\ Len(Tail(in_flight[w])) = Len(in_flight[w]) - 1
        /\ \A k \in 1..(Len(in_flight[w]) - 1) : Tail(in_flight[w])[k] = in_flight[w][k + 1]
    BY <1>1, <1>3, HeadTailProperties
  <2>2. Len(in_flight[w]) \in Nat
    BY <1>3
  <2>. QED  BY <2>1, <2>2
<1>5. /\ message \in Reports /\ message.stamp \in Nat /\ message.gid = w /\ message.stamp <= ros
      /\ Ascends(Tail(in_flight[w]), 0, ros)
  <2>1. message \in Reports /\ message.stamp <= ros /\ Ascends(Tail(in_flight[w]), 0, ros)
    BY <1>1, <1>3, TakeAscends
  <2>2. message.gid = w
    BY <1>4 DEF InOrder, FlightsInOrder
  <2>. QED  BY <2>1, <2>2, StampsAreNatural
<1>6. diagnostics_queue' \in Seq(Reports) /\ TookIn(diagnostics_queue', diagnostics_queue, message)
  BY <1>1, <1>3, <1>5, EnqueueElements
<1>7. /\ in_flight' \in [Writers -> Seq(Reports)]
      /\ in_flight'[w] = Tail(in_flight[w])
      /\ \A v \in Writers \ {w} : in_flight'[v] = in_flight[v]
  BY <1>1, <1>3, <1>4
<1>. HIDE DEF message
<1>8. FlightsInOrder'
  <2>1. ASSUME NEW v \in Writers
        PROVE  /\ Ascends(in_flight'[v], 0, ros)
               /\ \A k \in 1..Len(in_flight'[v]) : in_flight'[v][k].gid = v
    <3>1. CASE v = w
      <4>1. \A k \in 1..Len(in_flight[w]) : in_flight[w][k].gid = w
        BY DEF InOrder, FlightsInOrder
      <4>2. \A k \in 1..Len(Tail(in_flight[w])) : Tail(in_flight[w])[k].gid = w
        BY <1>4, <4>1
      <4>. QED  BY <1>5, <1>7, <3>1, <4>2
    <3>2. CASE v # w
      BY <1>7, <3>2 DEF InOrder, FlightsInOrder
    <3>. QED  BY <3>1, <3>2
  <2>. QED  BY <1>2, <1>7, <2>1 DEF FlightsInOrder, Ascends
<1>9. Len(diagnostics_queue') > 0 /\ diagnostics_queue'[Len(diagnostics_queue')] = message
  BY <1>6 DEF TookIn
<1>10. PICK shift \in {0, 1} : \A k \in 1..(Len(diagnostics_queue') - 1) :
         /\ k + shift \in 1..Len(diagnostics_queue)
         /\ diagnostics_queue'[k] = diagnostics_queue[k + shift]
  BY <1>6 DEF TookIn
<1>11. \A k \in 1..Len(diagnostics_queue') :
         k = Len(diagnostics_queue') \/ k \in 1..(Len(diagnostics_queue') - 1)
  BY <1>6
<1>12. \A v \in Writers : \A k \in 1..Len(in_flight'[v]) :
         \E n \in 1..Len(in_flight[v]) : in_flight'[v][k] = in_flight[v][n] /\ (v = w => 1 < n)
  BY <1>4, <1>7
<1>13. \A k \in 2..Len(in_flight[w]) : message.stamp < in_flight[w][k].stamp
  BY <1>3, <1>4 DEF Ascends
<1>14. ArrivalsInOrder'
  <2>1. ASSUME NEW k \in 1..Len(diagnostics_queue')
        PROVE  diagnostics_queue'[k].stamp <= ros
    BY <1>5, <1>9, <1>10, <1>11 DEF InOrder, ArrivalsInOrder
  <2>2. ASSUME NEW k \in 1..Len(diagnostics_queue'), NEW v \in Writers,
               diagnostics_queue'[k].gid = v, NEW j \in 1..Len(in_flight'[v])
        PROVE  diagnostics_queue'[k].stamp < in_flight'[v][j].stamp
    <3>0. PICK n \in 1..Len(in_flight[v]) :
            in_flight'[v][j] = in_flight[v][n] /\ (v = w => 1 < n)
      BY <1>12
    <3>1. CASE k = Len(diagnostics_queue')
      <4>1. v = w
        BY <1>5, <1>9, <2>2, <3>1
      <4>2. Len(in_flight[w]) \in Nat
        BY <1>3
      <4>3. n \in 2..Len(in_flight[w])
        BY <3>0, <4>1, <4>2
      <4>. QED  BY <1>9, <1>13, <3>0, <3>1, <4>1, <4>3
    <3>2. CASE k \in 1..(Len(diagnostics_queue') - 1)
      <4>1. /\ k + shift \in 1..Len(diagnostics_queue)
            /\ diagnostics_queue[k + shift] = diagnostics_queue'[k]
        BY <1>10, <3>2
      <4>. QED  BY <2>2, <3>0, <4>1 DEF InOrder, ArrivalsInOrder
    <3>. QED  BY <1>11, <3>1, <3>2
  <2>3. ASSUME NEW k \in 1..Len(diagnostics_queue'), NEW j \in 1..Len(diagnostics_queue'),
               j < k, diagnostics_queue'[j].gid = diagnostics_queue'[k].gid
        PROVE  diagnostics_queue'[j].stamp < diagnostics_queue'[k].stamp
    <3>1. j \in 1..(Len(diagnostics_queue') - 1)
      BY <1>6, <2>3
    <3>2. j + shift \in 1..Len(diagnostics_queue) /\ diagnostics_queue'[j] = diagnostics_queue[j + shift]
      BY <1>10, <3>1
    <3>3. CASE k = Len(diagnostics_queue')
      BY <1>4, <1>5, <1>9, <2>3, <3>2, <3>3 DEF InOrder, ArrivalsInOrder
    <3>4. CASE k \in 1..(Len(diagnostics_queue') - 1)
      <4>1. /\ k + shift \in 1..Len(diagnostics_queue) /\ j + shift < k + shift
            /\ diagnostics_queue'[k] = diagnostics_queue[k + shift]
        BY <1>10, <2>3, <3>4
      <4>. QED  BY <2>3, <3>2, <4>1 DEF InOrder, ArrivalsInOrder
    <3>. QED  BY <1>11, <3>3, <3>4
  <2>. QED  BY <1>2, <1>6, <2>1, <2>2, <2>3 DEF ArrivalsInOrder
<1>15. GuardsBehind'
  <2>1. ASSUME NEW i \in Required
        PROVE  /\ \A k \in 1..Len(diagnostics_queue') :
                    diagnostics_queue'[k].gid = ExpectedPublisher[i]
                      => diagnostic_sequence_guards[i] < diagnostics_queue'[k].stamp
               /\ \A k \in 1..Len(in_flight'[ExpectedPublisher[i]]) :
                    diagnostic_sequence_guards[i] < in_flight'[ExpectedPublisher[i]][k].stamp
    <3>1. ExpectedPublisher[i] \in Writers
      BY RequiredContract DEF Writers, Range
    <3>2. ASSUME NEW k \in 1..Len(diagnostics_queue'),
                 diagnostics_queue'[k].gid = ExpectedPublisher[i]
          PROVE  diagnostic_sequence_guards[i] < diagnostics_queue'[k].stamp
      <4>1. CASE k = Len(diagnostics_queue')
        BY <1>4, <1>5, <1>9, <3>2, <4>1 DEF InOrder, GuardsBehind
      <4>2. CASE k \in 1..(Len(diagnostics_queue') - 1)
        BY <1>10, <3>2, <4>2 DEF InOrder, GuardsBehind
      <4>. QED  BY <1>11, <4>1, <4>2
    <3>. QED  BY <1>12, <3>1, <3>2 DEF InOrder, GuardsBehind
  <2>. QED  BY <1>2, <2>1 DEF InOrder, GuardsBehind
<1>16. OdometryInOrder' /\ StatusInOrder'
  BY <1>1, <1>2, <1>3, OdometryWaits, StatusWaits DEF InOrder
<1>. QED  BY <1>2, <1>8, <1>14, <1>15, <1>16 DEF InOrder, NoTransportLatches

(* What the sources send with a tick is younger than all they sent before. *)
LEMMA TimePassesKeeps ==
  ASSUME InOrder, TimePasses
  PROVE  InOrder'
<1>1. /\ ros \in Nat /\ ros' = ros + 1
      /\ UNCHANGED <<odometry_sequence_guard, last_input_pose, status_sequence_guard,
                     diagnostic_sequence_guards, health, diagnostics_queue>>
  BY DEF TimePasses, Tick, InOrder, odometryVars, sequenceVars, acceptedVars, statusVars,
    diagnosticVars, healthVars, gateVars
<1>2. OdometryInOrder'
  <2>1. Frame \in Frames /\ Frame.stamp = ros'
    BY <1>1 DEF Frame, Frames
  <2>2. odometry_queue \in Seq(Frames) /\ odometry_sequence_guard \in Nat
        /\ odometry_sequence_guard <= ros /\ Ascends(odometry_queue, odometry_sequence_guard, ros)
    BY DEF InOrder, OdometryInOrder
  <2>3. CASE odometry_queue' = odometry_queue
    BY <1>1, <2>3, OdometryWaits DEF InOrder
  <2>4. CASE odometry_queue' = Enqueue(odometry_queue, Frame)
    <3>. DEFINE frame == Frame
    <3>1. frame \in Frames /\ frame.stamp = ros' /\ odometry_queue' = Enqueue(odometry_queue, frame)
      BY <2>1, <2>4
    <3>. HIDE DEF frame
    <3>2. odometry_queue' \in Seq(Frames) /\ TookIn(odometry_queue', odometry_queue, frame)
      BY <2>2, <3>1, EnqueueElements
    <3>3. Ascends(odometry_queue', odometry_sequence_guard, ros')
      BY <1>1, <2>2, <3>1, <3>2, TookInAscends, StampsAreNatural
    <3>. QED  BY <1>1, <2>2, <3>2, <3>3 DEF OdometryInOrder
  <2>. QED  BY <2>3, <2>4 DEF TimePasses
<1>3. StatusInOrder'
  <2>1. status_queue \in Seq(Trackings) /\ status_sequence_guard \in Nat
        /\ status_sequence_guard <= ros /\ Ascends(status_queue, status_sequence_guard, ros)
    BY DEF InOrder, StatusInOrder
  <2>2. CASE status_queue' = status_queue
    BY <1>1, <2>2, StatusWaits DEF InOrder
  <2>3. ASSUME NEW lost, status_queue' = Enqueue(status_queue, Tracking(lost))
        PROVE  StatusInOrder'
    <3>. DEFINE message == Tracking(lost)
    <3>1. /\ message \in Trackings /\ message.stamp = ros'
          /\ status_queue' = Enqueue(status_queue, message)
      BY <1>1, <2>3 DEF Tracking, Trackings
    <3>. HIDE DEF message
    <3>2. status_queue' \in Seq(Trackings) /\ TookIn(status_queue', status_queue, message)
      BY <2>1, <3>1, EnqueueElements
    <3>3. Ascends(status_queue', status_sequence_guard, ros')
      BY <1>1, <2>1, <3>1, <3>2, TookInAscends, StampsAreNatural
    <3>. QED  BY <1>1, <2>1, <3>2, <3>3 DEF StatusInOrder
  <2>. QED  BY <2>2, <2>3 DEF TimePasses
<1>4. ASSUME NEW w \in Writers
      PROVE  /\ Diagnostics(w) \in Reports
             /\ Diagnostics(w).stamp = ros' /\ Diagnostics(w).gid = w
  BY <1>1 DEF Diagnostics, Reports
<1>5. in_flight' = [w \in Writers |-> Append(in_flight[w], Diagnostics(w))]
  BY DEF TimePasses
<1>6. ASSUME NEW w \in Writers
      PROVE  /\ in_flight[w] \in Seq(Reports) /\ Ascends(in_flight[w], 0, ros)
             /\ in_flight'[w] \in Seq(Reports)
             /\ TookIn(in_flight'[w], in_flight[w], Diagnostics(w))
             /\ Ascends(in_flight'[w], 0, ros')
  <2>. DEFINE message == Diagnostics(w)
  <2>1. message \in Reports /\ message.stamp = ros' /\ in_flight'[w] = Append(in_flight[w], message)
    BY <1>4, <1>5
  <2>. HIDE DEF message
  <2>2. in_flight[w] \in Seq(Reports) /\ Ascends(in_flight[w], 0, ros)
    BY DEF InOrder, FlightsInOrder
  <2>3. in_flight'[w] \in Seq(Reports) /\ TookIn(in_flight'[w], in_flight[w], message)
    BY <2>1, <2>2, AppendElements
  <2>4. /\ 0 \in Nat /\ ros' \in Nat /\ 0 <= ros
        /\ ros < message.stamp /\ message.stamp <= ros'
    BY <1>1, <2>1
  <2>5. Ascends(in_flight'[w], 0, ros')
    BY <1>1, <2>1, <2>2, <2>3, <2>4, TookInAscends, StampsAreNatural, Zenon
  <2>. QED  BY <2>2, <2>3, <2>5 DEF message
<1>7. \A w \in Writers : \A k \in 1..Len(in_flight'[w]) :
        \/ in_flight'[w][k] = Diagnostics(w)
        \/ \E n \in 1..Len(in_flight[w]) : in_flight'[w][k] = in_flight[w][n]
  <2>. SUFFICES ASSUME NEW w \in Writers, NEW k \in 1..Len(in_flight'[w])
                PROVE  \/ in_flight'[w][k] = Diagnostics(w)
                       \/ \E n \in 1..Len(in_flight[w]) : in_flight'[w][k] = in_flight[w][n]
    OBVIOUS
  <2>1. /\ in_flight'[w] \in Seq(Reports)
        /\ in_flight'[w][Len(in_flight'[w])] = Diagnostics(w)
    BY <1>6 DEF TookIn
  <2>2. PICK shift \in {0, 1} : \A n \in 1..(Len(in_flight'[w]) - 1) :
          n + shift \in 1..Len(in_flight[w]) /\ in_flight'[w][n] = in_flight[w][n + shift]
    BY <1>6 DEF TookIn
  <2>3. k = Len(in_flight'[w]) \/ k \in 1..(Len(in_flight'[w]) - 1)
    BY <2>1
  <2>. QED  BY <2>1, <2>2, <2>3
<1>8. FlightsInOrder'
  <2>1. \A w \in Writers : \A k \in 1..Len(in_flight'[w]) : in_flight'[w][k].gid = w
    BY <1>4, <1>7, SMTT(30) DEF InOrder, FlightsInOrder
  <2>2. in_flight' \in [Writers -> Seq(Reports)]
    BY <1>5, <1>6
  <2>. QED  BY <1>6, <2>1, <2>2 DEF FlightsInOrder
<1>9. ArrivalsInOrder'
  <2>1. \A k \in 1..Len(diagnostics_queue) :
          /\ diagnostics_queue[k].stamp \in Nat
          /\ diagnostics_queue[k].stamp <= ros /\ diagnostics_queue[k].stamp < ros'
    BY <1>1, StampsAreNatural DEF InOrder, ArrivalsInOrder
  <2>2. ASSUME NEW k \in 1..Len(diagnostics_queue), NEW w \in Writers,
               diagnostics_queue[k].gid = w, NEW j \in 1..Len(in_flight'[w])
        PROVE  diagnostics_queue[k].stamp < in_flight'[w][j].stamp
    <3>1. CASE in_flight'[w][j] = Diagnostics(w)
      BY <1>4, <2>1, <3>1
    <3>2. CASE \E n \in 1..Len(in_flight[w]) : in_flight'[w][j] = in_flight[w][n]
      BY <2>2, <3>2 DEF InOrder, ArrivalsInOrder
    <3>. QED  BY <1>7, <3>1, <3>2
  <2>3. \A k \in 1..Len(diagnostics_queue) : diagnostics_queue[k].stamp <= ros'
    BY <1>1, <2>1
  <2>. QED  BY <1>1, <2>2, <2>3 DEF InOrder, ArrivalsInOrder
<1>10. GuardsBehind'
  <2>1. ASSUME NEW i \in Required
        PROVE  /\ diagnostic_sequence_guards[i] \in Nat /\ diagnostic_sequence_guards[i] <= ros
               /\ diagnostic_sequence_guards[i] < ros' /\ ExpectedPublisher[i] \in Writers
    BY <1>1, RequiredContract DEF InOrder, GuardsBehind, Writers, Range
  <2>2. ASSUME NEW i \in Required, NEW k \in 1..Len(in_flight'[ExpectedPublisher[i]])
        PROVE  diagnostic_sequence_guards[i] < in_flight'[ExpectedPublisher[i]][k].stamp
    <3>. DEFINE w == ExpectedPublisher[i]
    <3>1. CASE in_flight'[w][k] = Diagnostics(w)
      BY <1>4, <2>1, <3>1
    <3>2. CASE \E n \in 1..Len(in_flight[w]) : in_flight'[w][k] = in_flight[w][n]
      BY <3>2 DEF InOrder, GuardsBehind
    <3>. QED  BY <1>7, <2>1, <3>1, <3>2
  <2>3. \A i \in Required : diagnostic_sequence_guards[i] <= ros'
    BY <1>1, <2>1
  <2>. QED  BY <1>1, <2>2, <2>3 DEF InOrder, GuardsBehind
<1>. QED  BY <1>1, <1>2, <1>3, <1>8, <1>9, <1>10 DEF InOrder, NoTransportLatches

(* Every step of the system keeps every stream in order and latches not.   *)
LEMMA InOrderStep == InOrder /\ [SystemNext]_systemVars => InOrder'
<1>. SUFFICES ASSUME InOrder, [SystemNext]_systemVars PROVE InOrder'
  OBVIOUS
<1>0. /\ ros \in Nat /\ OdometryInOrder /\ StatusInOrder
      /\ FlightsInOrder /\ ArrivalsInOrder /\ GuardsBehind
  BY DEF InOrder
<1>1. ASSUME ros' \in Nat, ros <= ros',
             UNCHANGED <<odometryVars, statusVars, diagnosticVars, queueVars, in_flight>>,
             NoTransportLatches'
      PROVE  InOrder'
  <2>1. UNCHANGED <<odometry_sequence_guard, last_input_pose, status_sequence_guard,
                    diagnostic_sequence_guards, odometry_queue, status_queue,
                    diagnostics_queue>>
    BY <1>1 DEF odometryVars, sequenceVars, acceptedVars, statusVars, diagnosticVars, queueVars
  <2>. QED  BY <1>0, <1>1, <2>1, OdometryWaits, StatusWaits, DiagnosticsWait DEF InOrder
<1>2. CASE UNCHANGED systemVars
  <2>1. UNCHANGED <<ros, health, odometryVars, statusVars, diagnosticVars, queueVars, in_flight>>
    BY <1>2 DEF systemVars, vars, clockVars, healthVars, gateVars
  <2>. QED  BY <1>0, <1>1, <2>1 DEF InOrder, NoTransportLatches
<1>3. CASE TakeTimer
  <2>1. UNCHANGED <<ros, odometryVars, statusVars, diagnosticVars, queueVars, in_flight>>
    BY <1>3, TimerFrame DEF TakeTimer, clockVars
  <2>2. NoTransportLatches'
    BY <1>3, TimerForgives, ForgivingStaysUnlatched DEF TakeTimer, InOrder
  <2>. QED  BY <1>0, <1>1, <2>1, <2>2
<1>4. CASE ClockIsSet
  <2>1. /\ ros' \in Nat /\ ros <= ros'
        /\ UNCHANGED <<health, odometryVars, statusVars, diagnosticVars, queueVars, in_flight>>
    BY <1>0, <1>4, QueueAssumption DEF ClockIsSet, ClockStep, healthVars, gateVars
  <2>. QED  BY <1>1, <2>1 DEF InOrder, NoTransportLatches
<1>5. CASE Restart
  <2>1. /\ ros' = ros /\ last_input_pose' = NoPose /\ health' = "starting"
        /\ odometry_queue' = <<>> /\ status_queue' = <<>> /\ diagnostics_queue' = <<>>
        /\ in_flight' = [w \in Writers |-> <<>>]
        /\ odometry_sequence_guard' = 0 /\ status_sequence_guard' = 0
        /\ diagnostic_sequence_guards' = [i \in Required |-> 0]
    BY <1>5 DEF Restart, ConstructNode, NoStamp
  <2>. QED  BY <1>0, <2>1, RequiredContract DEF InOrder, OdometryInOrder, StatusInOrder,
         FlightsInOrder, ArrivalsInOrder, GuardsBehind, Ascends, NoTransportLatches, Writers, Range
<1>. QED  BY <1>2, <1>3, <1>4, <1>5, TakeOdometryKeeps, TakeStatusKeeps, TakeDiagnosticsKeeps,
       ArrivalKeeps, TimePassesKeeps DEF SystemNext

(* TransportNeverLatches: as long as the sources behave, what the          *)
(* transport, the clock and restarts do never latches the adapter.         *)
THEOREM TransportNeverLatches == SystemSpec => []NoTransportLatches
<1>1. SystemInit => InOrder
  BY RequiredContract, EnvironmentAssumption DEF SystemInit, Init, GateInit, NoStamp, InOrder,
    OdometryInOrder, StatusInOrder, FlightsInOrder, ArrivalsInOrder, GuardsBehind, Ascends,
    NoTransportLatches, Writers, Range
<1>2. InOrder => NoTransportLatches
  BY DEF InOrder
<1>. QED  BY <1>1, <1>2, InOrderStep, PTL DEF SystemSpec
=============================================================================
