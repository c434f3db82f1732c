----------------------------- MODULE Validation -----------------------------
(***************************************************************************)
(* The stateless helpers of localization_contracts/src/validation.cpp.     *)
(* Stamps are positive integers in ticks; NoStamp stands for a disengaged  *)
(* std::optional<std::int64_t>.                                            *)
(***************************************************************************)
EXTENDS Integers, Sequences, FiniteSetsExt

NoStamp == 0

(* Slips: an equal stamp accepted, an equal stamp taken for an old one. *)
ClassifyNotStrict(last, stamp) ==
  IF last = NoStamp \/ stamp >= last THEN "accept" ELSE "nonmonotonic"

(* StrictStampGuard::Classify against the last committed stamp. *)
Classify(last, stamp) ==
  IF last = NoStamp \/ stamp > last THEN "accept"
  ELSE IF stamp = last THEN "duplicate" ELSE "nonmonotonic"

(* AbsoluteStampDifferenceSeconds. *)
StampDistance(a, b) == IF a > b THEN a - b ELSE b - a

(* ComputeStampWindowMetrics: the two metrics are only ever compared with  *)
(* a threshold.  samples / ticks is minimum_odometry_rate_hz as a ratio.   *)
GapExceeds(window, bound) ==
  \E i \in 2..Len(window) : window[i] - window[i-1] > bound

RateBelow(window, samples, ticks) ==
  (Len(window) - 1) * ticks < samples * (window[Len(window)] - window[1])

(* ValidateOdometrySample: the codes it can report, in the order it does,  *)
(* and those it marks latched.  A sample carries the set of its defects;   *)
(* a stamp that StampToNanoseconds refused arrives as zero.                *)
IssueOrder ==
  <<"PARENT_FRAME_MISMATCH", "CHILD_FRAME_MISMATCH", "INVALID_TIMESTAMP",
    "NONFINITE_MEASUREMENT", "INVALID_QUATERNION", "INVALID_POSE_COVARIANCE",
    "INVALID_TWIST_COVARIANCE">>

LatchedIssues == {"PARENT_FRAME_MISMATCH", "CHILD_FRAME_MISMATCH"}

ValidateOdometrySample(sample) ==
  sample.defects \cup (IF sample.stamp <= 0 THEN {"INVALID_TIMESTAMP"} ELSE {})

FirstIssue(issues) ==
  IssueOrder[Min({i \in DOMAIN IssueOrder : IssueOrder[i] \in issues})]
=============================================================================
