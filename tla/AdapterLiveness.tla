--------------------------- MODULE AdapterLiveness ---------------------------
(***************************************************************************)
(* What the adapter must eventually do.  Its sources are at first up to    *)
(* anything a run offers them; at some moment, if ever, they settle: from  *)
(* then on each live stream brings one good message per tick, in any order *)
(* and around any timer callback, and each of the others nothing.          *)
(*                                                                         *)
(* Time has no end here.  Every decision of the node compares ages, so     *)
(* once the clock has reached MaxTime, Age moves the past back a tick      *)
(* instead of the clock forward.                                           *)
(***************************************************************************)
EXTENDS AdapterProperties

CONSTANTS
  SteadyPose,     \* where a settled camera stands
  SettleBy        \* bound: unsettled sources are silent from this tick on

Streams == {"odometry", "status", "diagnostics"}

(* Nothing the node still tells apart is older than the clock's range.     *)
ASSUME HorizonAssumption ==
  /\ \A bound \in {OdometryStaleAfter, TrackingStaleAfter, DiagnosticStaleAfter,
                   StartupTimeout, MaxReceiveGap, DiagnosticPeriod} : bound < MaxTime
  /\ \A bound \in {MaxStampGap, MaxSkew, MaxClockResidual} : bound + 1 < RosStart + MaxTime
  /\ RateWindow = 2 /\ ClockSteps = {}
  /\ SteadyPose \in Int \ Untransformable

VARIABLES
  settled,      \* the sources have come to rest
  live,         \* the streams that go on when they have
  delivered     \* the streams that brought a message in this tick

sourceVars == <<settled, live, delivered>>
livenessVars == <<vars, sourceVars>>

LivenessInit == Init /\ settled = FALSE /\ live = Streams /\ delivered = {}

Offered(good, any) == IF settled THEN {good} ELSE any

(* A stream brings at most one message per tick. *)
Deliver(stream) ==
  /\ settled \/ now < SettleBy
  /\ stream \in live \ delivered
  /\ delivered' = delivered \cup {stream}
  /\ UNCHANGED <<settled, live>>

DeliverOdometry ==
  /\ Deliver("odometry")
  /\ \E sample \in Offered([stamp |-> ros, pose |-> SteadyPose, defects |-> {}],
                           OdometrySamples) :
       OnOdometry(sample)

DeliverStatus ==
  /\ Deliver("status")
  /\ \E message \in Offered([stamp |-> ros, kind |-> "tracking"], StatusMessages) :
       OnVisualSlamStatus(message)

(* A status without flaws for every required name, from its publisher. *)
GoodDiagnostics ==
  [stamp |-> ros, gid |-> 1,
   status |-> [i \in Required |-> [name |-> i, level |-> 0, flaws |-> {}]]]

GoodEndpoints == <<[gid |-> 1, node |-> ExpectedPublisher[1]]>>

DeliverDiagnostics ==
  /\ Deliver("diagnostics")
  /\ \E message \in Offered(GoodDiagnostics, DiagnosticMessages),
        endpoints \in Offered(GoodEndpoints, DiagnosticEndpoints) :
       OnUpstreamDiagnostics(message, endpoints)

(* A stream that is live has its publisher. *)
Timer ==
  /\ OnDiagnosticTimer
  /\ settled /\ "odometry" \in live => odometry_publishers'.valid
  /\ settled /\ "status" \in live => status_publishers'.valid
  /\ UNCHANGED sourceVars

Settle ==
  /\ ~settled /\ settled' = TRUE
  /\ delivered = {}
  /\ live' \in SUBSET Streams
  /\ UNCHANGED <<vars, delivered>>

-----------------------------------------------------------------------------
OlderTime(time) == IF time \in {Never, 0} THEN time ELSE time - 1
OlderStamp(stamp) == IF stamp \in {NoStamp, 1} THEN stamp ELSE stamp - 1

Age ==
  /\ now = MaxTime
  /\ now < timerDue + TimerSlack
  /\ timerDue' = timerDue - 1
  /\ odometry_sequence_guard' = OlderStamp(odometry_sequence_guard)
  /\ stamp_guard' = OlderStamp(stamp_guard)
  /\ recent_odometry_stamps' =
       [k \in DOMAIN recent_odometry_stamps |-> OlderStamp(recent_odometry_stamps[k])]
  /\ last_odometry_observed_at' = OlderTime(last_odometry_observed_at)
  /\ last_odometry_received_at' = OlderTime(last_odometry_received_at)
  /\ status_sequence_guard' = OlderStamp(status_sequence_guard)
  /\ status_stamp_guard' = OlderStamp(status_stamp_guard)
  /\ last_status_received_at' = OlderTime(last_status_received_at)
  /\ diagnostic_sequence_guards' =
       [i \in Required |-> OlderStamp(diagnostic_sequence_guards[i])]
  /\ diagnostic_stamp' = [i \in Required |-> OlderStamp(diagnostic_stamp[i])]
  /\ diagnostic_received_at' = [i \in Required |-> OlderTime(diagnostic_received_at[i])]
  /\ last_health_observed_stamp' = OlderStamp(last_health_observed_stamp)
  /\ UNCHANGED <<clockVars, last_odometry_valid, received, last_input_pose,
                 last_shadow_pose, last_status_valid, diagnostic_level,
                 publisherVars, report, gateVars>>

(* A settled live stream has brought its message before the tick is over. *)
TimePasses ==
  /\ settled => live \subseteq delivered
  /\ Tick \/ Age
  /\ delivered' = {}
  /\ UNCHANGED <<settled, live>>

LivenessNext ==
  DeliverOdometry \/ DeliverStatus \/ DeliverDiagnostics \/ Timer \/ Settle \/ TimePasses

(* The executor serves a due timer and a waiting message in the end, and   *)
(* the clock goes on; nobody is obliged to settle.                         *)
Fairness ==
  /\ WF_livenessVars(Timer)
  /\ WF_livenessVars(TimePasses)
  /\ WF_livenessVars(settled /\ DeliverOdometry)
  /\ WF_livenessVars(settled /\ DeliverStatus)
  /\ WF_livenessVars(settled /\ DeliverDiagnostics)

LivenessSpec == LivenessInit /\ [][LivenessNext]_livenessVars /\ Fairness

-----------------------------------------------------------------------------
(***************************************************************************)
(* GoodInputsAreTrusted: once all inputs are good and stay so, the adapter *)
(* ends up healthy for good, whatever it has been through, unless it had   *)
(* latched: no bad frame, gap or loss leaves behind a guard, a window or a *)
(* flag that good inputs cannot clear (adapter_node.cpp:718-776).          *)
(***************************************************************************)
GoodInputsAreTrusted ==
  (settled /\ live = Streams) ~> [](health \in {"healthy", "latched_fault"})

(***************************************************************************)
(* SilenceIsFound: if a stream ends, however much the others go on, the    *)
(* verdict ends up a fault for good; without a message no handler runs,    *)
(* and the timer alone has to find it (adapter_node.cpp:808-840).          *)
(***************************************************************************)
SilenceIsFound ==
  (settled /\ live # Streams) ~> [](health \in {"transient_fault", "latched_fault"})

(***************************************************************************)
(* VerdictsAreReported: a verdict reached in a message handler, which      *)
(* publishes nothing, does not stay unreported: again and again, and also  *)
(* after the gate has latched, the last report and the gate agree.         *)
(***************************************************************************)
VerdictsAreReported == []<>(report.health = health)
=============================================================================
