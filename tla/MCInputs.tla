------------------------------ MODULE MCInputs ------------------------------
(***************************************************************************)
(* The finite inputs of the runs: what the publishers of the four topics   *)
(* send, and what the ROS graph shows.                                     *)
(***************************************************************************)
EXTENDS Integers, Sequences

CONSTANTS vslam, relay, monitor, stranger   \* node names

(* Contract. *)
OneLevel == <<0>>
TwoLevels == <<0, 0>>
OnePublisher == <<relay>>
SharedPublisher == <<relay, relay>>
NoApprovals == {}
ExtrinsicApproved == {"extrinsic"}

(* Odometry: defect sets and lags. *)
NoDefects == {{}}
LatchingDefect == {{}, {"NONFINITE_MEASUREMENT", "PARENT_FRAME_MISMATCH"}}
SomeDefects == {{}, {"NONFINITE_MEASUREMENT"}, {"NONFINITE_MEASUREMENT", "PARENT_FRAME_MISMATCH"}}
AnyDefect ==
  {{}, {"NONFINITE_MEASUREMENT"}, {"INVALID_QUATERNION", "INVALID_TWIST_COVARIANCE"},
   {"INVALID_POSE_COVARIANCE", "CHILD_FRAME_MISMATCH"}, {"PARENT_FRAME_MISMATCH"}}
OnTime == {0}
Delayed == {1, 3}
EarlyOrLate == {-2, 0, 1, 2}
NoSteps == {}
ForwardSteps == {2}

(* Publisher lists of an input topic. *)
SomeGraphs == {<<vslam>>, <<stranger>>}
OneGraph == {<<vslam>>}
GoodGraphs == {<<>>, <<vslam>>}

(* Diagnostics.  Name 0 is any status the contract does not require. *)
Status(name, level, flaws) == [name |-> name, level |-> level, flaws |-> flaws]

NoStatus == {}
GoodStatus == {<<Status(1, 0, {})>>}
OneName == {<<Status(1, 0, {})>>, <<Status(1, 1, {})>>}
Batches ==
  {<<Status(1, 0, {})>>, <<Status(2, 0, {})>>,
   <<Status(1, 0, {}), Status(0, 0, {}), Status(2, 0, {})>>,
   <<Status(1, 0, {}), Status(2, 0, {"value"})>>,
   <<Status(1, 0, {"duplicate_key"}), Status(2, 0, {})>>,
   <<Status(1, 0, {"hardware_id"})>>,
   <<Status(1, 0, {}), Status(2, 1, {})>>,
   <<Status(2, 0, {}), Status(1, 0, {}), Status(1, 0, {})>>}

Endpoint(gid, node) == [gid |-> gid, node |-> node]

Discovered == {<<Endpoint(1, relay)>>}
AnyEndpoints ==
  {<<>>, <<Endpoint(1, relay), Endpoint(2, monitor)>>,
   <<Endpoint(1, relay), Endpoint(1, monitor)>>,
   <<Endpoint(1, relay), Endpoint(2, relay)>>}
=============================================================================
