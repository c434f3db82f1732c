--------------------------- MODULE AdapterCounters ---------------------------
(***************************************************************************)
(* AdapterNode with the counters it reports: what every way out of a       *)
(* message handler adds to them.  No decision of the node reads a counter. *)
(***************************************************************************)
EXTENDS AdapterProperties

CONSTANT MaxMessages     \* bound: messages that arrive

VARIABLE count           \* a counter by its name, without the underscore

Counters ==
  {"received", "rejected", "accepted", "shadow_processed", "shadow_pose_computed",
   "duplicate", "nonmonotonic", "clock_domain_mismatch",
   "odometry_receive_gap_violation", "odometry_stamp_gap_violation",
   "odometry_rate_violation", "pose_jump_violation",
   "status_received", "status_rejected", "status_duplicate", "status_nonmonotonic",
   "diagnostic_evidence_received", "diagnostic_evidence_rejected",
   "diagnostic_duplicate", "diagnostic_nonmonotonic"}

CountersInit == Init /\ count = [c \in Counters |-> 0]

(* n more in each of evidence, and one more in each of the others. *)
Count(n, evidence, others) ==
  count' = [c \in Counters |->
              count[c] + (IF c \in evidence THEN n ELSE 0) + (IF c \in others THEN 1 ELSE 0)]

CountOnce(names) == Count(0, {}, names)

(* The counter of a stream's duplicates or of its old stamps. *)
OrderCounter(counters, order) ==
  IF order = "duplicate" THEN {counters[1]} ELSE {counters[2]}

-----------------------------------------------------------------------------
Gaps(sample) ==
  (IF ReceiveGapExceeded THEN {"odometry_receive_gap_violation"} ELSE {})
    \cup (IF StampGapExceeded(sample.stamp) THEN {"odometry_stamp_gap_violation"} ELSE {})

RateCounter ==
  IF RateBelow(recent_odometry_stamps', MinRateSamples, MinRateTicks)
    THEN {"odometry_rate_violation"} ELSE {}

(* Slip: the failed transform is not counted among the rejected frames. *)
CountTransformFailureOnce(sample) ==
  OdometryTransformFails(sample) /\ CountOnce({"received", "accepted", "shadow_processed"})

(* The frame was counted as accepted before its transform threw. *)
CountTransformFailure(sample) ==
  /\ OdometryTransformFails(sample)
  /\ CountOnce({"received", "accepted", "shadow_processed", "rejected"})

CountOdometry(sample) ==
  \/ OdometryInvalid(sample) /\ CountOnce({"received", "rejected"})
  \/ /\ OdometryOutOfOrder(sample)
     /\ CountOnce({"received", "rejected"} \cup
          OrderCounter(<<"duplicate", "nonmonotonic">>,
                       Classify(odometry_sequence_guard, sample.stamp)))
  \/ /\ OdometryClockMismatch(sample)
     /\ CountOnce({"received", "rejected", "clock_domain_mismatch"})
  \/ /\ OdometryJumps(sample)
     /\ CountOnce({"received", "rejected", "pose_jump_violation"} \cup Gaps(sample))
  \/ /\ OdometryWarmsUp(sample)
     /\ CountOnce({"received"} \cup Gaps(sample))
  \/ /\ OdometryUntimely(sample)
     /\ CountOnce({"received", "rejected"} \cup Gaps(sample) \cup RateCounter)
  \/ CountTransformFailure(sample)
  \/ /\ OdometryAccepted(sample)
     /\ CountOnce({"received", "accepted", "shadow_processed"} \cup
          (IF "extrinsic" \in Approvals THEN {"shadow_pose_computed"} ELSE {}))

CountStatus(message) ==
  \/ StatusInvalid(message) /\ CountOnce({"status_received", "status_rejected"})
  \/ /\ StatusOutOfOrder(message)
     /\ CountOnce({"status_received", "status_rejected"} \cup
          OrderCounter(<<"status_duplicate", "status_nonmonotonic">>,
                       Classify(status_sequence_guard, message.stamp)))
  \/ /\ StatusClockMismatch(message)
     /\ CountOnce({"status_received", "status_rejected", "clock_domain_mismatch"})
  \/ (TrackingLost(message) \/ TrackingAccepted(message)) /\ CountOnce({"status_received"})

-----------------------------------------------------------------------------
EvidenceCounters == {"diagnostic_evidence_received", "diagnostic_evidence_rejected"}

(* Slip: the evidence of a message is counted once, whatever it holds. *)
RejectEvidencePerMessage(message, causes) ==
  Count(Cardinality(Candidates(message)), {"diagnostic_evidence_rejected"},
        {"diagnostic_evidence_received"} \cup causes)

RejectEvidence(message, causes) ==
  Count(Cardinality(Candidates(message)), EvidenceCounters, causes)

CountDiagnostics(message, endpoints) ==
  \/ /\ DiagnosticsRepeatAName(message)
     /\ Count(Cardinality({k \in Candidates(message) :
                             k <= Min(RepeatedCandidates(message))}),
              {"diagnostic_evidence_received"}, {"diagnostic_evidence_rejected"})
  \/ DiagnosticsUnattributed(message, endpoints) /\ RejectEvidence(message, {})
  \/ /\ DiagnosticsUntimed(message, endpoints)
     /\ RejectEvidence(message,
          IF message.stamp <= 0 THEN {} ELSE {"clock_domain_mismatch"})
  \/ /\ DiagnosticsOutOfOrder(message, endpoints)
     /\ RejectEvidence(message,
          OrderCounter(<<"diagnostic_duplicate", "diagnostic_nonmonotonic">>,
                       DiagnosticOrder(message, Min(LateCandidates(message)))))
  \/ DiagnosticsFlawed(message, endpoints) /\ RejectEvidence(message, {})
  \/ /\ DiagnosticsAccepted(message, endpoints)
     /\ Count(Cardinality(Candidates(message)), {"diagnostic_evidence_received"}, {})

(* The early return for a message without a required name counts nothing. *)
DiagnosticsIgnored(message) ==
  Candidates(message) = {} /\ UNCHANGED <<vars, count>>

Messages ==
  count["received"] + count["status_received"] + count["diagnostic_evidence_received"]

CountersNext ==
  \/ /\ Messages < MaxMessages
     /\ \/ \E sample \in OdometrySamples : CountOdometry(sample)
        \/ \E message \in StatusMessages : CountStatus(message)
        \/ \E message \in DiagnosticMessages, endpoints \in DiagnosticEndpoints :
             CountDiagnostics(message, endpoints)
  \/ \E message \in DiagnosticMessages : DiagnosticsIgnored(message)
  \/ (OnDiagnosticTimer \/ Tick \/ ClockStep) /\ UNCHANGED count

CountersSpec == CountersInit /\ [][CountersNext]_<<vars, count>>

-----------------------------------------------------------------------------
(***************************************************************************)
(* FramesAccountedFor: every frame received is accounted for as accepted   *)
(* or rejected, but for those that filled the rate window, and those whose *)
(* transform failed (adapter_node.cpp:390) are accounted for as both.      *)
(***************************************************************************)
TransformsFailed ==
  IF "extrinsic" \in Approvals THEN count["accepted"] - count["shadow_pose_computed"] ELSE 0

WarmedUp ==
  IF Len(recent_odometry_stamps) < RateWindow THEN Len(recent_odometry_stamps)
  ELSE RateWindow - 1

FramesAccountedFor ==
  count["received"] + TransformsFailed
    = count["accepted"] + count["rejected"] + WarmedUp

(***************************************************************************)
(* EvidenceAccountedFor: no more evidence is rejected than was received,   *)
(* and what stands was received and not rejected, although a message       *)
(* rejected as a whole counts each of its statuses and one that repeats a  *)
(* name counts only the repetition (adapter_node.cpp:490-497).             *)
(***************************************************************************)
EvidenceAccountedFor ==
  Cardinality({i \in Required : diagnostic_received_at[i] # Never})
    <= count["diagnostic_evidence_received"] - count["diagnostic_evidence_rejected"]
=============================================================================
