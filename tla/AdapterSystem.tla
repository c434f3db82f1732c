---------------------------- MODULE AdapterSystem ----------------------------
(***************************************************************************)
(* The adapter in its ROS graph: sources that stamp and send one message   *)
(* per tick, which may be lost, the keep-last history of each              *)
(* subscription (adapter_node.cpp:168-190), an executor that takes one     *)
(* waiting message or the due timer at a time and may stall, and a process *)
(* that dies and is started again, into an empty node.  A message is no    *)
(* longer handed to the node with any age, as in AdapterNode: its age is   *)
(* the time it really waited.                                              *)
(***************************************************************************)
EXTENDS AdapterProperties, Functions

CONSTANTS
  QueueDepth,            \* keep_last(10)
  Losses                 \* what may go missing together in a tick

ASSUME QueueAssumption ==
  /\ QueueDepth \in Nat \ {0} /\ Losses \subseteq SUBSET {"odometry", "status", "tracking"}
  /\ ClockSteps \subseteq Nat

(* The sources are the ones the contract names, each publisher once in the *)
(* ROS graph wherever it is seen there (its name serves as its gid), and   *)
(* what they send can be placed.                                           *)
ASSUME SourcesAssumption ==
  /\ \A list \in PublisherLists : list # <<>> =>
       list = <<ExpectedOdometryPublisher>> /\ list = <<ExpectedStatusPublisher>>
  /\ \A endpoints \in DiagnosticEndpoints : \A e, f \in DOMAIN endpoints :
       endpoints[e].gid \in Range(ExpectedPublisher) =>
         /\ endpoints[e].node = endpoints[e].gid
         /\ endpoints[f].gid = endpoints[e].gid \/ endpoints[f].node = endpoints[e].node => f = e
  /\ 0 \notin Untransformable

VARIABLES
  odometry_queue, status_queue, diagnostics_queue,
  in_flight,             \* per diagnostics writer, what has not arrived yet
  started                \* ROS time when the process was started

queueVars == <<odometry_queue, status_queue, diagnostics_queue>>
systemVars == <<vars, queueVars, in_flight, started>>

Writers == Range(ExpectedPublisher)

SystemInit ==
  /\ Init
  /\ odometry_queue = <<>> /\ status_queue = <<>> /\ diagnostics_queue = <<>>
  /\ in_flight = [w \in Writers |-> <<>>]
  /\ started = ros

(* A full history drops its oldest message. *)
Enqueue(queue, message) ==
  Append(IF Len(queue) = QueueDepth THEN Tail(queue) ELSE queue, message)

-----------------------------------------------------------------------------
(* The sources: with every tick each of them sends one message, which the  *)
(* best-effort subscriptions may miss; the camera may lose its track.      *)
Frame == [stamp |-> ros', pose |-> 0, defects |-> {}]

Tracking(lost) ==
  [stamp |-> ros', kind |-> IF "tracking" \in lost THEN "lost" ELSE "tracking"]

(* A writer reports its required diagnostics, among others (name 0).       *)
Statuses(w) ==
  [i \in Required |->
     [name |-> IF ExpectedPublisher[i] = w THEN i ELSE 0, level |-> 0, flaws |-> {}]]

Diagnostics(w) == [stamp |-> ros', gid |-> w, status |-> Statuses(w)]

TimePasses ==
  /\ ros < MaxRos
  /\ Tick
  /\ \E lost \in Losses :
       /\ odometry_queue' =
            IF "odometry" \in lost THEN odometry_queue
            ELSE Enqueue(odometry_queue, Frame)
       /\ status_queue' =
            IF "status" \in lost THEN status_queue ELSE Enqueue(status_queue, Tracking(lost))
       /\ in_flight' = [w \in Writers |-> Append(in_flight[w], Diagnostics(w))]
  /\ UNCHANGED <<diagnostics_queue, started>>

(* The ROS clock is set forward. *)
ClockIsSet ==
  /\ ClockStep
  /\ UNCHANGED <<queueVars, in_flight, started>>

(* A writer's own messages keep their order, as DDS delivers them; those   *)
(* of two writers do not.                                                  *)
DiagnosticsArrive(w) ==
  /\ in_flight[w] # <<>>
  /\ diagnostics_queue' = Enqueue(diagnostics_queue, Head(in_flight[w]))
  /\ in_flight' = [in_flight EXCEPT ![w] = Tail(@)]
  /\ UNCHANGED <<vars, odometry_queue, status_queue, started>>

-----------------------------------------------------------------------------
(* The executor. *)
TakeOdometry ==
  /\ odometry_queue # <<>>
  /\ OnOdometry(Head(odometry_queue))
  /\ odometry_queue' = Tail(odometry_queue)
  /\ UNCHANGED <<status_queue, diagnostics_queue, in_flight, started>>

TakeStatus ==
  /\ status_queue # <<>>
  /\ OnVisualSlamStatus(Head(status_queue))
  /\ status_queue' = Tail(status_queue)
  /\ UNCHANGED <<odometry_queue, diagnostics_queue, in_flight, started>>

TakeDiagnostics ==
  /\ diagnostics_queue # <<>>
  /\ \E endpoints \in DiagnosticEndpoints :
       OnUpstreamDiagnostics(Head(diagnostics_queue), endpoints)
  /\ diagnostics_queue' = Tail(diagnostics_queue)
  /\ UNCHANGED <<odometry_queue, status_queue, in_flight, started>>

TakeTimer ==
  /\ OnDiagnosticTimer
  /\ UNCHANGED <<queueVars, in_flight, started>>

(* A new process: the clock now counts from its started_at_. *)
ConstructNode ==
  /\ now' = 0 /\ timerDue' = DiagnosticPeriod
  /\ odometry_sequence_guard' = NoStamp /\ stamp_guard' = NoStamp
  /\ recent_odometry_stamps' = <<>>
  /\ last_odometry_observed_at' = Never /\ last_odometry_received_at' = Never
  /\ last_odometry_valid' = FALSE /\ received' = FALSE
  /\ last_input_pose' = NoPose /\ last_shadow_pose' = NoPose
  /\ status_sequence_guard' = NoStamp /\ status_stamp_guard' = NoStamp
  /\ last_status_received_at' = Never /\ last_status_valid' = FALSE
  /\ diagnostic_sequence_guards' = [i \in Required |-> NoStamp]
  /\ diagnostic_level' = [i \in Required |-> 0]
  /\ diagnostic_stamp' = [i \in Required |-> NoStamp]
  /\ diagnostic_received_at' = [i \in Required |-> Never]
  /\ health' = "starting" /\ reason' = "WAITING_FOR_INPUT" /\ progress' = 0
  /\ last_health_observed_stamp' = NoStamp
  /\ report' = NoReport
  /\ UNCHANGED ros
  /\ started' = ros

(* It has seen no publisher either, until its first timer. *)
ForgetPublishers ==
  /\ odometry_publishers' = [count |-> 0, valid |-> FALSE]
  /\ status_publishers' = [count |-> 0, valid |-> FALSE]

(* Slip: started again in place, around the subscriptions of the dead one. *)
RestartInPlace ==
  /\ ConstructNode
  /\ UNCHANGED <<odometry_publishers, status_publishers, queueVars, in_flight>>

(* The subscriptions are volatile: a new process gets nothing sent before. *)
Restart ==
  /\ ConstructNode /\ ForgetPublishers
  /\ odometry_queue' = <<>> /\ status_queue' = <<>> /\ diagnostics_queue' = <<>>
  /\ in_flight' = [w \in Writers |-> <<>>]

SystemNext ==
  \/ \E w \in Writers : DiagnosticsArrive(w)
  \/ TakeOdometry \/ TakeStatus \/ TakeDiagnostics \/ TakeTimer
  \/ TimePasses \/ ClockIsSet \/ Restart

SystemSpec == SystemInit /\ [][SystemNext]_systemVars

-----------------------------------------------------------------------------
(***************************************************************************)
(* TrustIsEarnedAnew: nothing of an earlier life counts: the frame a       *)
(* healthy verdict credits was sent after the process was started, also    *)
(* when a full history waited for it.                                      *)
(***************************************************************************)
TrustIsEarnedAnew == health = "healthy" => last_health_observed_stamp >= started

(***************************************************************************)
(* NoTransportLatches: the sources never misbehave here, so that losses, a *)
(* full history, a stall and its burst, writers that overtake each other,  *)
(* tracking lost for a while, a ROS clock set forward and a restart may    *)
(* cost trust for a while, but never latch the adapter into needing an     *)
(* operator (README section 10, item 4).                                   *)
(***************************************************************************)
NoTransportLatches == health # "latched_fault"
=============================================================================
