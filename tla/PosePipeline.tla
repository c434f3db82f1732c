---------------------------- MODULE PosePipeline ----------------------------
(***************************************************************************)
(* What OnOdometry (adapter_node.cpp:217) does with the numbers of a       *)
(* frame: validation, construction of the pose, the step from the last     *)
(* accepted pose, and the shadow pose of the base.  Everything that stamps *)
(* and clocks decide is a choice here, OutOfTurn before a pose is made and *)
(* Untimely after, and is detailed in AdapterNode, for which a frame's     *)
(* defects and steps are inputs.                                           *)
(***************************************************************************)
EXTENDS SampleValidation, Placement

CONSTANTS
  Samples,            \* the frames that may arrive
  Mount,              \* the approved extrinsic: [translation, orientation, place]
  MaxPositionStep,    \* maximum_position_step_m
  MaxRotationStep     \* maximum_rotation_step_deg

ASSUME StepAssumption == MaxPositionStep \in Nat \ {0} /\ MaxRotationStep \in 1..180

(* ParseExtrinsic has built the mount with Create. *)
ASSUME MountAssumption ==
  /\ CreateRefused("base_link", "camera_link", Mount.translation, Mount.orientation)
       = NotRefused
  /\ Locates(Mount.translation, Mount.orientation, Mount.place)

(* ValidateFrameId passes the names of the contract. *)
ASSUME FramesAssumption ==
  {"odom", "camera_link", "base_link"} \cap MalformedFrames = {}

(* A frame with a quaternion of norm one says where the camera is.         *)
ASSUME SamplesAssumption ==
  \A s \in Samples :
    /\ s.covariance \in [1..2 -> [1..2 -> Int]]
    /\ ~QuaternionRefused(s.orientation) => Locates(s.position, s.orientation, s.place)

Checks == INSTANCE Validation

(* sample and outcome are the last frame and what became of it; place is   *)
(* where the camera of the last accepted pose is, by the reference.        *)
VARIABLES last_input_pose, last_shadow_pose, outcome, sample, place

poseVars == <<last_input_pose, last_shadow_pose, outcome, sample, place>>

NoPose == <<>>

base_from_camera ==
  Create("base_link", "camera_link", Mount.translation, Mount.orientation)

PoseInit ==
  /\ last_input_pose = NoPose /\ last_shadow_pose = NoPose
  /\ outcome = "NONE" /\ sample \in Samples /\ place = Still

Pose(s) == Create(s.parent, s.child, s.position, s.orientation)

StepExceeds(previous, pose) ==
  LET step == MeasurePoseStep(previous, pose)
  IN  \/ step.translation > MaxPositionStep * MaxPositionStep
      \/ step.rotation > MaxRotationStep

(* Why the handler ends without a pose to keep.  No try guards the call of *)
(* MeasurePoseStep: its exception ends main.                               *)
PoseError(s) ==
  LET issues == Issues(s, "odom", "camera_link")
      latched == issues \cap Checks!LatchedIssues
  IN  IF issues # {} THEN Checks!FirstIssue(IF latched # {} THEN latched ELSE issues)
      ELSE IF CreateRefused(s.parent, s.child, s.position, s.orientation) # NotRefused
        THEN "INPUT_POSE_CONSTRUCTION_FAILED"
      ELSE IF last_input_pose = NoPose THEN "NONE"
      ELSE IF MeasurePoseStepRefused(last_input_pose[1], Pose(s)) # NotRefused
        THEN "TERMINATED"
      ELSE IF StepExceeds(last_input_pose[1], Pose(s))
        THEN "LOCALIZATION_EPOCH_JUMP_DETECTED"
      ELSE "NONE"

Rejected(s) ==
  /\ PoseError(s) # "NONE"
  /\ outcome' = PoseError(s)
  /\ UNCHANGED <<last_input_pose, last_shadow_pose, place>>

(* A stamp that repeats, goes back or is of another clock: nobody looks at *)
(* the frame's step.                                                       *)
OutOfTurn(s) ==
  /\ Issues(s, "odom", "camera_link") = {}
  /\ outcome' = "OUT_OF_TURN"
  /\ UNCHANGED <<last_input_pose, last_shadow_pose, place>>

(* A window that fills, or a timing fault. *)
Untimely(s) ==
  /\ PoseError(s) = "NONE"
  /\ outcome' = "UNTIMELY"
  /\ UNCHANGED <<last_input_pose, last_shadow_pose, place>>

Keep(s) ==
  /\ PoseError(s) = "NONE"
  /\ last_input_pose' = <<Pose(s)>>
  /\ place' = s.place

ShadowFails(s) ==
  /\ Keep(s)
  /\ CameraPoseToBasePoseRefused(Pose(s), base_from_camera) # NotRefused
  /\ outcome' = "SHADOW_POSE_TRANSFORM_FAILED"
  /\ UNCHANGED last_shadow_pose

Accepted(s) ==
  /\ Keep(s)
  /\ CameraPoseToBasePoseRefused(Pose(s), base_from_camera) = NotRefused
  /\ last_shadow_pose' = <<CameraPoseToBasePose(Pose(s), base_from_camera)>>
  /\ outcome' = "ACCEPTED"

OnOdometry(s) ==
  /\ outcome # "TERMINATED"
  /\ sample' = s
  /\ \/ Rejected(s)
     \/ OutOfTurn(s)
     \/ Untimely(s)
     \/ ShadowFails(s)
     \/ Accepted(s)

PoseNext == \E s \in Samples : OnOdometry(s)

PoseSpec == PoseInit /\ [][PoseNext]_poseVars

-----------------------------------------------------------------------------
(***************************************************************************)
(* ValidatedPosesConstruct: a sample that ValidateOdometrySample passes    *)
(* can be made a pose and compared with any pose accepted before, so the   *)
(* node never latches INPUT_POSE_CONSTRUCTION_FAILED and MeasurePoseStep,  *)
(* which no try guards (adapter_node.cpp:336), never ends the process.     *)
(***************************************************************************)
ValidatedPosesConstruct ==
  outcome \notin {"INPUT_POSE_CONSTRUCTION_FAILED", "TERMINATED"}

(***************************************************************************)
(* StepsBounded: a frame is kept only if the camera has moved and turned   *)
(* no more than the contract allows since the frame kept before it, and    *)
(* one that has is never latched for a jump: the sign of its quaternion,   *)
(* which carries no rotation, does not count (adapter_node.cpp:338).       *)
(***************************************************************************)
Within(from, to) ==
  /\ SquaredDistance(from.origin, to.origin) <= MaxPositionStep * MaxPositionStep
  /\ AngleOf(Then(Back(from), to).axes) <= MaxRotationStep

StepsBounded ==
  [][/\ (last_input_pose # NoPose /\ last_input_pose' # last_input_pose) =>
          Within(place, place')
     /\ (last_input_pose # NoPose /\ outcome' = "LOCALIZATION_EPOCH_JUMP_DETECTED") =>
          ~Within(place, sample'.place)]_poseVars

(***************************************************************************)
(* ShadowPlacesBase: the shadow pose is where the base is when the camera  *)
(* is at the last accepted pose and mounted as the extrinsic says; the     *)
(* transform fails only for a base out of range (adapter_node.cpp:386).    *)
(***************************************************************************)
Base == Then(place, Back(Mount.place))

ShadowPlacesBase ==
  /\ outcome = "ACCEPTED" =>
       LET shadow == last_shadow_pose[1]
       IN  /\ shadow.parent = "odom" /\ shadow.child = "base_link"
           /\ \A point \in {Zero} \cup {Unit(k) : k \in Axes} :
                ApplyPoint(shadow, point) = Placed(Base, point)
  /\ outcome = "SHADOW_POSE_TRANSFORM_FAILED" => ~Finite(Base.origin)

(***************************************************************************)
(* AcceptedSpreadIsReal: the covariance of a frame that passes validation  *)
(* is symmetric and gives no direction a negative variance                 *)
(* (validation.cpp:120).                                                   *)
(***************************************************************************)
AcceptedSpreadIsReal ==
  outcome \in {"ACCEPTED", "UNTIMELY", "OUT_OF_TURN"} =>
    /\ sample.covariance[1][2] = sample.covariance[2][1]
    /\ \A x, y \in -2..2 :
         LET m == sample.covariance
         IN  x * (m[1][1] * x + m[1][2] * y) + y * (m[2][1] * x + m[2][2] * y) >= 0
=============================================================================
