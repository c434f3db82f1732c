----------------------------- MODULE PoseProofs -----------------------------
(***************************************************************************)
(* What may be relied on of a validated frame and of the poses made of it, *)
(* for every frame that may arrive, mount, step and range.                 *)
(***************************************************************************)
EXTENDS PosePipeline, RotationProofs

(* The pose kept last is the camera's in the odometry frame. *)
KeptPoseFramed ==
  last_input_pose # NoPose =>
    last_input_pose[1].parent = "odom" /\ last_input_pose[1].child = "camera_link"

(* A sample without issues has the contract's frames, finite numbers and a *)
(* quaternion of norm one.                                                 *)
LEMMA NoIssues ==
  ASSUME NEW s, Issues(s, "odom", "camera_link") = {}
  PROVE  /\ s.parent = "odom" /\ s.child = "camera_link"
         /\ Finite(s.position) /\ ~QuaternionRefused(s.orientation)
BY DEF Issues

(* It can be made a pose. *)
LEMMA NoIssuesConstructs ==
  ASSUME NEW s, Issues(s, "odom", "camera_link") = {}
  PROVE  CreateRefused(s.parent, s.child, s.position, s.orientation) = NotRefused
BY NoIssues, FramesAssumption DEF CreateRefused

(* The least of some issues is one of them. *)
LEMMA FirstIssueIsOne ==
  ASSUME NEW issues, \E n \in DOMAIN Checks!IssueOrder : Checks!IssueOrder[n] \in issues
  PROVE  Checks!FirstIssue(issues) \in issues
<1>. DEFINE S == {i \in DOMAIN Checks!IssueOrder : Checks!IssueOrder[i] \in issues}
<1>1. DOMAIN Checks!IssueOrder = 1..7
  BY DEF Checks!IssueOrder
<1>2. S \subseteq 1..7 /\ S # {}
  BY <1>1
<1>. HIDE DEF S
<1>3. \E x \in S : \A y \in S : x <= y
  <2>. SUFFICES ASSUME \A x \in S : \E y \in S : y < x  PROVE FALSE
    BY <1>2
  <2>1. 1 \notin S
    BY <1>2
  <2>2. 2 \notin S
    BY <1>2, <2>1
  <2>3. 3 \notin S
    BY <1>2, <2>1, <2>2
  <2>4. 4 \notin S
    BY <1>2, <2>1, <2>2, <2>3
  <2>5. 5 \notin S
    BY <1>2, <2>1, <2>2, <2>3, <2>4
  <2>6. 6 \notin S
    BY <1>2, <2>1, <2>2, <2>3, <2>4, <2>5
  <2>7. 7 \notin S
    BY <1>2, <2>1, <2>2, <2>3, <2>4, <2>5, <2>6
  <2>8. PICK y \in S : TRUE
    BY <1>2
  <2>9. y \in Int /\ 1 <= y /\ y <= 7
    BY <1>2
  <2>10. y = 1 \/ y = 2 \/ y = 3 \/ y = 4 \/ y = 5 \/ y = 6 \/ y = 7
    BY <2>9
  <2>. QED  BY <2>1, <2>2, <2>3, <2>4, <2>5, <2>6, <2>7, <2>10
<1>4. Checks!Min(S) \in S
  BY <1>3 DEF Checks!Min
<1>. QED  BY <1>4 DEF Checks!FirstIssue, S

(* What becomes of a frame for another reason than an issue. *)
Outcomes ==
  {"INPUT_POSE_CONSTRUCTION_FAILED", "TERMINATED", "LOCALIZATION_EPOCH_JUMP_DETECTED",
   "NONE", "OUT_OF_TURN", "UNTIMELY", "ACCEPTED", "SHADOW_POSE_TRANSFORM_FAILED"}

(* The issues a sample can have are those ValidateOdometrySample knows. *)
LEMMA IssuesKnown ==
  ASSUME NEW s, NEW issue \in Issues(s, "odom", "camera_link")
  PROVE  /\ \E n \in DOMAIN Checks!IssueOrder : Checks!IssueOrder[n] = issue
         /\ issue \notin Outcomes
<1>1. issue \in {"PARENT_FRAME_MISMATCH", "CHILD_FRAME_MISMATCH", "NONFINITE_MEASUREMENT",
                "INVALID_QUATERNION", "INVALID_POSE_COVARIANCE"}
  BY DEF Issues
<1>2. /\ DOMAIN Checks!IssueOrder = 1..7
      /\ Checks!IssueOrder[1] = "PARENT_FRAME_MISMATCH"
      /\ Checks!IssueOrder[2] = "CHILD_FRAME_MISMATCH"
      /\ Checks!IssueOrder[4] = "NONFINITE_MEASUREMENT"
      /\ Checks!IssueOrder[5] = "INVALID_QUATERNION"
      /\ Checks!IssueOrder[6] = "INVALID_POSE_COVARIANCE"
  BY DEF Checks!IssueOrder
<1>. QED  BY <1>1, <1>2 DEF Outcomes

(* A frame with issues is rejected for one of them. *)
LEMMA RejectedForAnIssue ==
  ASSUME NEW s, Issues(s, "odom", "camera_link") # {}
  PROVE  PoseError(s) \notin Outcomes
<1>. DEFINE issues == Issues(s, "odom", "camera_link")
            latched == issues \cap Checks!LatchedIssues
            listed == IF latched # {} THEN latched ELSE issues
<1>1. PoseError(s) = Checks!FirstIssue(listed)
  BY DEF PoseError
<1>2. listed \subseteq issues /\ listed # {}
  OBVIOUS
<1>. HIDE DEF listed
<1>3. Checks!FirstIssue(listed) \in listed
  BY <1>2, IssuesKnown, FirstIssueIsOne
<1>. QED  BY <1>1, <1>2, <1>3, IssuesKnown

(* A frame without them is made a pose, and compared with the last.        *)
LEMMA ValidFrameSafe ==
  ASSUME NEW s, KeptPoseFramed, Issues(s, "odom", "camera_link") = {}
  PROVE  /\ PoseError(s) \in {"LOCALIZATION_EPOCH_JUMP_DETECTED", "NONE"}
         /\ Pose(s).parent = "odom" /\ Pose(s).child = "camera_link"
<1>1. Pose(s).parent = "odom" /\ Pose(s).child = "camera_link"
  BY NoIssues DEF Pose, Create
<1>2. last_input_pose # NoPose => MeasurePoseStepRefused(last_input_pose[1], Pose(s)) = NotRefused
  BY <1>1 DEF KeptPoseFramed, MeasurePoseStepRefused
<1>. QED  BY <1>1, <1>2, NoIssuesConstructs DEF PoseError

(* ValidatedAlwaysConstructs: no frame ends the process or is refused by   *)
(* the constructor of the pose after it has passed validation.             *)
THEOREM ValidatedAlwaysConstructs == PoseSpec => []ValidatedPosesConstruct
<1>. DEFINE Inv == KeptPoseFramed /\ ValidatedPosesConstruct
<1>1. PoseInit => Inv
  BY DEF PoseInit, KeptPoseFramed, ValidatedPosesConstruct
<1>2. Inv /\ [PoseNext]_poseVars => Inv'
  <2>. SUFFICES ASSUME KeptPoseFramed, ValidatedPosesConstruct, [PoseNext]_poseVars
                PROVE  Inv'
    OBVIOUS
  <2>1. CASE UNCHANGED poseVars
    BY <2>1 DEF poseVars, KeptPoseFramed, ValidatedPosesConstruct
  <2>2. ASSUME NEW s \in Samples, OnOdometry(s)
        PROVE  Inv'
    <3>1. PoseError(s) \notin {"INPUT_POSE_CONSTRUCTION_FAILED", "TERMINATED"}
      BY RejectedForAnIssue, ValidFrameSafe DEF Outcomes
    <3>2. CASE Rejected(s) \/ OutOfTurn(s) \/ Untimely(s)
      BY <3>1, <3>2 DEF Rejected, OutOfTurn, Untimely, KeptPoseFramed, ValidatedPosesConstruct
    <3>3. ASSUME Keep(s)  PROVE KeptPoseFramed'
      <4>1. Issues(s, "odom", "camera_link") = {}
        <5>. SUFFICES ASSUME Issues(s, "odom", "camera_link") # {}  PROVE FALSE
          OBVIOUS
        <5>. QED  BY <3>3, RejectedForAnIssue DEF Keep, Outcomes
      <4>. QED  BY <3>3, <4>1, ValidFrameSafe DEF Keep, KeptPoseFramed
    <3>4. CASE ShadowFails(s) \/ Accepted(s)
      BY <3>3, <3>4 DEF ShadowFails, Accepted, ValidatedPosesConstruct
    <3>. QED  BY <2>2, <3>2, <3>4 DEF OnOdometry
  <2>. QED  BY <2>1, <2>2 DEF PoseNext
<1>. QED  BY <1>1, <1>2, PTL DEF PoseSpec

-----------------------------------------------------------------------------
(* A covariance that passes is one: with entries a and d on the diagonal,  *)
(* a + d >= 0 and a * d >= b * b leave no direction (x, y) whose variance  *)
(* a * x * x + 2 * b * x * y + d * y * y is negative.                      *)
LEMMA NonnegativeForm ==
  ASSUME NEW a \in Int, NEW b \in Int, NEW d \in Int, NEW x \in Int, NEW y \in Int,
         a + d >= 0, a * d - b * b >= 0
  PROVE  a * (x * x) + 2 * (b * (x * y)) + d * (y * y) >= 0
<1>. DEFINE form == a * (x * x) + 2 * (b * (x * y)) + d * (y * y)
            trace == a + d
            r == a * x + b * y
            s == b * x + d * y
            det == a * d - b * b
<1>1. trace * form = r * r + s * s + det * (x * x + y * y)
  OBVIOUS
<1>2. r * r >= 0 /\ s * s >= 0 /\ x * x >= 0 /\ y * y >= 0
  OBVIOUS
<1>3. det * (x * x + y * y) >= 0
  BY <1>2
<1>4. trace * form >= 0
  BY <1>1, <1>2, <1>3
<1>. QED  BY <1>4

(* A frame without issues is not rejected for another. *)
LEMMA ValidFrameKept ==
  ASSUME NEW s, Issues(s, "odom", "camera_link") = {}
  PROVE  PoseError(s) \in {"TERMINATED", "LOCALIZATION_EPOCH_JUMP_DETECTED", "NONE"}
BY NoIssuesConstructs DEF PoseError

(* What validation has tested of a frame that it passes. *)
LEMMA SpreadValidated ==
  ASSUME NEW s \in Samples, Issues(s, "odom", "camera_link") = {}
  PROVE  CovarianceIsSymmetricPositiveSemidefinite(s.covariance)
BY DEF Issues

LEMMA SpreadReal ==
  ASSUME NEW s \in Samples, Issues(s, "odom", "camera_link") = {}
  PROVE  /\ s.covariance[1][2] = s.covariance[2][1]
         /\ \A x, y \in -2..2 :
              LET m == s.covariance
              IN  x * (m[1][1] * x + m[1][2] * y) + y * (m[2][1] * x + m[2][2] * y) >= 0
<1>. DEFINE a == s.covariance[1][1]
            b == s.covariance[1][2]
            d == s.covariance[2][2]
<1>1. a \in Int /\ b \in Int /\ d \in Int
  BY SamplesAssumption
<1>2. s.covariance[2][1] = b /\ a + d >= 0 /\ a * d - b * b >= 0
  BY SpreadValidated DEF CovarianceIsSymmetricPositiveSemidefinite
<1>. HIDE DEF a, b, d
<1>3. ASSUME NEW x \in -2..2, NEW y \in -2..2
      PROVE  x * (a * x + b * y) + y * (b * x + d * y) >= 0
  <2>1. a * (x * x) + 2 * (b * (x * y)) + d * (y * y) >= 0
    BY <1>1, <1>2, NonnegativeForm
  <2>2. x * (a * x + b * y) + y * (b * x + d * y)
          = a * (x * x) + 2 * (b * (x * y)) + d * (y * y)
    BY <1>1
  <2>. QED  BY <2>1, <2>2
<1>. QED  BY <1>2, <1>3 DEF a, b, d

(* AcceptedSpreadAlwaysReal: a frame that is accepted, or held back for    *)
(* its turn or its timing alone, has a covariance that is symmetric and nowhere        *)
(* negative, whatever numbers frames arrive with.                          *)
THEOREM AcceptedSpreadAlwaysReal == PoseSpec => []AcceptedSpreadIsReal
<1>1. PoseInit => AcceptedSpreadIsReal
  BY DEF PoseInit, AcceptedSpreadIsReal
<1>2. AcceptedSpreadIsReal /\ [PoseNext]_poseVars => AcceptedSpreadIsReal'
  <2>1. CASE UNCHANGED poseVars
    BY <2>1 DEF poseVars, AcceptedSpreadIsReal
  <2>2. ASSUME NEW s \in Samples, OnOdometry(s)  PROVE AcceptedSpreadIsReal'
    <3>1. CASE Rejected(s)
      <4>1. PoseError(s) \notin {"ACCEPTED", "UNTIMELY", "OUT_OF_TURN"}
        BY RejectedForAnIssue, ValidFrameKept DEF Outcomes
      <4>. QED  BY <3>1, <4>1 DEF Rejected, AcceptedSpreadIsReal
    <3>2. CASE Issues(s, "odom", "camera_link") = {}
      BY <2>2, <3>2, SpreadReal DEF OnOdometry, AcceptedSpreadIsReal
    <3>3. PoseError(s) = "NONE" => Issues(s, "odom", "camera_link") = {}
      BY RejectedForAnIssue DEF Outcomes
    <3>. QED  BY <2>2, <3>1, <3>2, <3>3 DEF OnOdometry, OutOfTurn, Untimely, ShadowFails, Accepted, Keep
  <2>. QED  BY <2>1, <2>2 DEF PoseNext
<1>. QED  BY <1>1, <1>2, PTL DEF PoseSpec

-----------------------------------------------------------------------------
(* The pose kept last is where the reference says the camera is. *)
KeptPosePlaced ==
  last_input_pose # NoPose => Means(last_input_pose[1], place)

(* What a frame's numbers say is what its pose means. *)
LEMMA PoseMeans ==
  ASSUME NEW s \in Samples, Issues(s, "odom", "camera_link") = {}
  PROVE  Means(Pose(s), s.place)
BY NoIssues, SamplesAssumption, LocatedMeans DEF Pose

LEMMA NoErrorNoIssues ==
  ASSUME NEW s, PoseError(s) \in Outcomes
  PROVE  Issues(s, "odom", "camera_link") = {}
BY RejectedForAnIssue

LEMMA KeptAlwaysPlaced == PoseSpec => []KeptPosePlaced
<1>1. PoseInit => KeptPosePlaced
  BY DEF PoseInit, KeptPosePlaced
<1>2. KeptPosePlaced /\ [PoseNext]_poseVars => KeptPosePlaced'
  <2>. SUFFICES ASSUME KeptPosePlaced, [PoseNext]_poseVars PROVE KeptPosePlaced'
    OBVIOUS
  <2>1. CASE UNCHANGED poseVars
    BY <2>1 DEF poseVars, KeptPosePlaced, Means
  <2>2. ASSUME NEW s \in Samples, OnOdometry(s)  PROVE KeptPosePlaced'
    <3>1. CASE Rejected(s) \/ OutOfTurn(s) \/ Untimely(s)
      BY <3>1 DEF Rejected, OutOfTurn, Untimely, KeptPosePlaced, Means
    <3>2. CASE Keep(s)
      <4>1. Means(Pose(s), s.place)
        BY <3>2, NoErrorNoIssues, PoseMeans DEF Keep, Outcomes
      <4>2. last_input_pose'[1] = Pose(s) /\ place' = s.place
        BY <3>2 DEF Keep
      <4>. QED  BY <4>1, <4>2 DEF KeptPosePlaced, Means
    <3>. QED  BY <2>2, <3>1, <3>2 DEF OnOdometry, ShadowFails, Accepted
  <2>. QED  BY <2>1, <2>2 DEF PoseNext
<1>. QED  BY <1>1, <1>2, PTL DEF PoseSpec

(* The mount means what the extrinsic says, and can be inverted. *)
LEMMA MountMeans ==
  /\ Means(base_from_camera, Mount.place)
  /\ base_from_camera.parent = "base_link" /\ base_from_camera.child = "camera_link"
  /\ InverseRefused(base_from_camera) = NotRefused
<1>1. /\ Means(base_from_camera, Mount.place)
      /\ base_from_camera.parent = "base_link" /\ base_from_camera.child = "camera_link"
  BY MountAssumption, LocatedMeans DEF base_from_camera, Create
<1>2. Finite(base_from_camera.translation)
  <2>1. Finite(Mount.translation)
    BY MountAssumption DEF CreateRefused, NotRefused
  <2>. QED  BY <2>1 DEF base_from_camera, Create
<1>. QED  BY <1>1, <1>2, InverseFinite

(* The base's pose means where the base is, and is refused only for that.  *)
LEMMA ShadowMeans ==
  ASSUME NEW s \in Samples, Issues(s, "odom", "camera_link") = {}
  PROVE  LET base == Then(s.place, Back(Mount.place))
             shadow == CameraPoseToBasePose(Pose(s), base_from_camera)
         IN  /\ shadow.parent = "odom" /\ shadow.child = "base_link"
             /\ Means(shadow, base)
             /\ CameraPoseToBasePoseRefused(Pose(s), base_from_camera) # NotRefused
                  => ~Finite(base.origin)
<1>. DEFINE pose == Pose(s)
            mount == base_from_camera
            back == Inverse(mount)
            shadow == CameraPoseToBasePose(pose, mount)
            base == Then(s.place, Back(Mount.place))
<1>1. pose.parent = "odom" /\ pose.child = "camera_link" /\ Means(pose, s.place)
  BY NoIssues, PoseMeans DEF Pose, Create
<1>2. /\ mount.parent = "base_link" /\ mount.child = "camera_link"
      /\ Means(mount, Mount.place) /\ InverseRefused(mount) = NotRefused
  BY MountMeans
<1>. HIDE DEF pose, mount
<1>3. /\ back.parent = "camera_link" /\ back.child = "base_link"
      /\ back.translation = InverseTranslation(mount)
      /\ back.rotation = Conjugate(mount.rotation)
  BY <1>2 DEF Inverse
<1>4. Means(back, Back(Mount.place))
  BY <1>2, <1>3, InversionMeans DEF Means
<1>. HIDE DEF back
<1>5. /\ shadow.parent = "odom" /\ shadow.child = "base_link"
      /\ shadow.translation = ComposedTranslation(pose, back)
      /\ shadow.rotation = Times(pose.rotation, back.rotation)
  BY <1>1, <1>3 DEF CameraPoseToBasePose, Compose, back
<1>6. Means(shadow, base) /\ base.origin = ComposedTranslation(pose, back)
  BY <1>1, <1>4, <1>5, CompositionMeans DEF Means
<1>7. CameraPoseToBasePoseRefused(pose, mount) = ComposeRefused(pose, back)
  BY <1>1, <1>2 DEF CameraPoseToBasePoseRefused, back
<1>8. ComposeRefused(pose, back) # NotRefused => ~Finite(ComposedTranslation(pose, back))
  BY <1>1, <1>3 DEF ComposeRefused
<1>. QED  BY <1>5, <1>6, <1>7, <1>8 DEF pose, mount

(***************************************************************************)
(* The shadow pose is where the base is, and the transform fails only for  *)
(* a base out of range, whatever the mount (adapter_node.cpp:386).         *)
(***************************************************************************)
THEOREM ShadowAlwaysPlacesBase == PoseSpec => []ShadowPlacesBase
<1>1. PoseInit => ShadowPlacesBase
  BY DEF PoseInit, ShadowPlacesBase
<1>2. ShadowPlacesBase /\ [PoseNext]_poseVars => ShadowPlacesBase'
  <2>. SUFFICES ASSUME ShadowPlacesBase, [PoseNext]_poseVars PROVE ShadowPlacesBase'
    OBVIOUS
  <2>1. CASE UNCHANGED poseVars
    BY <2>1 DEF poseVars, ShadowPlacesBase, Base
  <2>2. ASSUME NEW s \in Samples, OnOdometry(s)  PROVE ShadowPlacesBase'
    <3>1. CASE Rejected(s) \/ OutOfTurn(s) \/ Untimely(s)
      <4>1. outcome' \notin {"ACCEPTED", "SHADOW_POSE_TRANSFORM_FAILED"}
        <5>1. PoseError(s) \notin {"ACCEPTED", "SHADOW_POSE_TRANSFORM_FAILED"}
          BY RejectedForAnIssue, ValidFrameKept DEF Outcomes
        <5>. QED  BY <3>1, <5>1 DEF Rejected, OutOfTurn, Untimely
      <4>. QED  BY <4>1 DEF ShadowPlacesBase
    <3>2. CASE ShadowFails(s)
      <4>1. Issues(s, "odom", "camera_link") = {} /\ place' = s.place
        BY <3>2, NoErrorNoIssues DEF ShadowFails, Keep, Outcomes
      <4>2. ~Finite(Then(s.place, Back(Mount.place)).origin)
        BY <3>2, <4>1, ShadowMeans DEF ShadowFails
      <4>. QED  BY <3>2, <4>1, <4>2 DEF ShadowFails, ShadowPlacesBase, Base
    <3>3. CASE Accepted(s)
      <4>. DEFINE shadow == CameraPoseToBasePose(Pose(s), base_from_camera)
                  base == Then(s.place, Back(Mount.place))
      <4>1. Issues(s, "odom", "camera_link") = {} /\ place' = s.place
        BY <3>3, NoErrorNoIssues DEF Accepted, Keep, Outcomes
      <4>2. /\ shadow.parent = "odom" /\ shadow.child = "base_link"
            /\ Means(shadow, base)
        BY <4>1, ShadowMeans
      <4>3. last_shadow_pose'[1] = shadow /\ outcome' = "ACCEPTED"
        BY <3>3 DEF Accepted
      <4>. HIDE DEF shadow
      <4>4. \A point \in {Zero} \cup {Unit(k) : k \in Axes} :
              ApplyPoint(shadow, point) = Placed(base, point)
        BY <4>2, OneTurnsNothing, UnitType, PointsPlaced
      <4>5. Base' = base
        BY <4>1 DEF Base
      <4>. HIDE DEF base
      <4>. QED  BY <4>2, <4>3, <4>4, <4>5 DEF ShadowPlacesBase
    <3>. QED  BY <2>2, <3>1, <3>2, <3>3 DEF OnOdometry
  <2>. QED  BY <2>1, <2>2 DEF PoseNext
<1>. QED  BY <1>1, <1>2, PTL DEF PoseSpec

(* The step the node measures is the one the camera has made. *)
LEMMA StepMeasured ==
  ASSUME NEW previous, NEW pose, NEW from, NEW to, Means(previous, from), Means(pose, to)
  PROVE  StepExceeds(previous, pose) <=> ~Within(from, to)
<1>. DEFINE p == previous.translation
            q == pose.translation
            step == MeasurePoseStep(previous, pose)
            turn == Then(Back(from), to).axes
<1>1. /\ p \in Vectors /\ q \in Vectors /\ from.origin = p /\ to.origin = q
      /\ previous.rotation \in Quaternions /\ pose.rotation \in Quaternions
      /\ from.axes = AxesOf(previous.rotation) /\ to.axes = AxesOf(pose.rotation)
  BY DEF Means
<1>2. SquaredDistance(p, q) = SquaredDistance(q, p) /\ SquaredDistance(p, q) \in Int
  <2>1. /\ p[1] \in Int /\ p[2] \in Int /\ p[3] \in Int
        /\ q[1] \in Int /\ q[2] \in Int /\ q[3] \in Int
    BY <1>1, VectorType
  <2>. HIDE DEF p, q
  <2>2. /\ Minus(p, q)[1] = p[1] - q[1] /\ Minus(q, p)[1] = q[1] - p[1]
        /\ Minus(p, q)[2] = p[2] - q[2] /\ Minus(q, p)[2] = q[2] - p[2]
        /\ Minus(p, q)[3] = p[3] - q[3] /\ Minus(q, p)[3] = q[3] - p[3]
    BY DEF Minus, Axes
  <2>3. \A a, b \in Int : (a - b) * (a - b) = (b - a) * (b - a)
    OBVIOUS
  <2>4. /\ SquaredDistance(p, q)
             = (p[1]-q[1])*(p[1]-q[1]) + (p[2]-q[2])*(p[2]-q[2]) + (p[3]-q[3])*(p[3]-q[3])
        /\ SquaredDistance(q, p)
             = (q[1]-p[1])*(q[1]-p[1]) + (q[2]-p[2])*(q[2]-p[2]) + (q[3]-p[3])*(q[3]-p[3])
    BY <2>2 DEF SquaredDistance, Dot
  <2>. QED  BY <2>1, <2>3, <2>4
<1>3. \A k \in Axes :
        turn[k] = Turned(Transposed(AxesOf(previous.rotation)), AxesOf(pose.rotation)[k])
  BY <1>1 DEF Then, Back
<1>. HIDE DEF turn
<1>4. /\ AngleBetween(previous.rotation, pose.rotation) = AngleOf(turn)
      /\ AngleOf(turn) \in Nat
  BY <1>1, <1>3, AngleOfTurn
<1>5. /\ step.translation = SquaredDistance(q, p)
      /\ step.rotation = AngleOf(turn)
  BY <1>4 DEF MeasurePoseStep
<1>6. /\ MaxPositionStep * MaxPositionStep \in Int /\ MaxRotationStep \in Int
  BY StepAssumption
<1>7. Within(from, to) <=> /\ SquaredDistance(p, q) <= MaxPositionStep * MaxPositionStep
                           /\ AngleOf(turn) <= MaxRotationStep
  BY <1>1 DEF Within, turn
<1>. HIDE DEF step
<1>8. StepExceeds(previous, pose) <=> \/ step.translation > MaxPositionStep * MaxPositionStep
                                      \/ step.rotation > MaxRotationStep
  BY DEF StepExceeds, step
<1>. QED  BY <1>2, <1>4, <1>5, <1>6, <1>7, <1>8

(***************************************************************************)
(* A frame is kept only within the step bounds of the frame kept before    *)
(* it, and latched for a jump only beyond them (adapter_node.cpp:338).     *)
(***************************************************************************)
THEOREM StepsAlwaysBounded == PoseSpec => StepsBounded
<1>. DEFINE Step ==
       /\ (last_input_pose # NoPose /\ last_input_pose' # last_input_pose) =>
            Within(place, place')
       /\ (last_input_pose # NoPose /\ outcome' = "LOCALIZATION_EPOCH_JUMP_DETECTED") =>
            ~Within(place, sample'.place)
<1>1. KeptPosePlaced /\ [PoseNext]_poseVars => [Step]_poseVars
  <2>. SUFFICES ASSUME KeptPosePlaced, NEW s \in Samples, OnOdometry(s),
                       last_input_pose # NoPose
                PROVE  Step
    BY DEF PoseNext
  <2>1. Means(last_input_pose[1], place)
    BY DEF KeptPosePlaced
  <2>2. Issues(s, "odom", "camera_link") = {} =>
          (StepExceeds(last_input_pose[1], Pose(s)) <=> ~Within(place, s.place))
    BY <2>1, PoseMeans, StepMeasured
  <2>3. ASSUME last_input_pose' # last_input_pose
        PROVE  Within(place, place')
    <3>1. PoseError(s) = "NONE" /\ place' = s.place
      BY <2>3 DEF OnOdometry, Rejected, OutOfTurn, Untimely, ShadowFails, Accepted, Keep
    <3>2. Issues(s, "odom", "camera_link") = {}
      BY <3>1, NoErrorNoIssues DEF Outcomes
    <3>3. ~StepExceeds(last_input_pose[1], Pose(s))
      BY <3>1, <3>2 DEF PoseError
    <3>. QED  BY <2>2, <3>1, <3>2, <3>3
  <2>4. ASSUME outcome' = "LOCALIZATION_EPOCH_JUMP_DETECTED"
        PROVE  ~Within(place, sample'.place)
    <3>1. PoseError(s) = "LOCALIZATION_EPOCH_JUMP_DETECTED" /\ sample' = s
      BY <2>4 DEF OnOdometry, Rejected, OutOfTurn, Untimely, ShadowFails, Accepted
    <3>2. Issues(s, "odom", "camera_link") = {}
      BY <3>1, NoErrorNoIssues DEF Outcomes
    <3>3. StepExceeds(last_input_pose[1], Pose(s))
      BY <3>1, <3>2 DEF PoseError, NotRefused
    <3>. QED  BY <2>2, <3>1, <3>2, <3>3
  <2>. QED  BY <2>3, <2>4
<1>. QED  BY <1>1, KeptAlwaysPlaced, PTL DEF PoseSpec, StepsBounded
=============================================================================
