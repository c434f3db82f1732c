--------------------------- MODULE RigidTransform ---------------------------
(***************************************************************************)
(* The transforms of localization_contracts/src/rigid_transform.cpp, on    *)
(* the integer lattice: translations are integer vectors and rotations the *)
(* 48 unit quaternions that turn the axes onto each other, each written as *)
(* the shortest integer quaternion of its direction.  On the lattice the   *)
(* code's formulas are exact, so its tolerances of 1.0e-9 are equalities.  *)
(* A component beyond MaxFinite stands for one that is not finite.         *)
(* An operation F that may throw has a companion FRefused, the exception   *)
(* it throws or NotRefused.                                                *)
(***************************************************************************)
EXTENDS Integers, Sequences

Sets == INSTANCE FiniteSetsExt   \* its Inverse is another one than ours

CONSTANTS
  MaxFinite,        \* the largest component of a finite vector
  MalformedFrames   \* frame names that are empty, rooted, with spaces or //

ASSUME RangeAssumption == MaxFinite \in Nat

Axes == 1..3
Zero == <<0, 0, 0>>
NotRefused == "NONE"

Finite(v) == \A k \in DOMAIN v : v[k] \in -MaxFinite..MaxFinite

Plus(u, v) == [k \in Axes |-> u[k] + v[k]]
Minus(u, v) == [k \in Axes |-> u[k] - v[k]]
Dot(u, v) == u[1]*v[1] + u[2]*v[2] + u[3]*v[3]
Cross(u, v) ==
  <<u[2]*v[3] - u[3]*v[2], u[3]*v[1] - u[1]*v[3], u[1]*v[2] - u[2]*v[1]>>

-----------------------------------------------------------------------------
(***************************************************************************)
(* Quaternions: [w, v].  A quaternion of a ROS message is the direction of *)
(* its components, in the order x, y, z, w, and its norm in thousandths;   *)
(* NonfiniteNorm if a component is not finite.                             *)
(***************************************************************************)
NonfiniteNorm == -1
One == [w |-> 1, v |-> Zero]

QuaternionDot(p, q) == p.w * q.w + Dot(p.v, q.v)

Shortest(q) ==
  LET Divides(d) == q.w % d = 0 /\ \A k \in Axes : q.v[k] % d = 0
      g == Sets!Max({d \in 1..4 : Divides(d)})
  IN  [w |-> q.w \div g, v |-> [k \in Axes |-> q.v[k] \div g]]

(* Slip: the factors swapped. *)
TimesReversed(p, q) ==
  Shortest([w |-> p.w * q.w - Dot(p.v, q.v),
            v |-> [k \in Axes |-> q.w * p.v[k] + p.w * q.v[k] - Cross(p.v, q.v)[k]]])

Times(p, q) ==
  Shortest([w |-> p.w * q.w - Dot(p.v, q.v),
            v |-> [k \in Axes |-> q.w * p.v[k] + p.w * q.v[k] + Cross(p.v, q.v)[k]]])

Conjugate(q) == [w |-> q.w, v |-> [k \in Axes |-> -q.v[k]]]

Rotate(q, u) ==
  LET qu == Cross(q.v, u)
      turn == [k \in Axes |-> 2 * (q.w * qu[k] + Cross(q.v, qu)[k])]
  IN  [k \in Axes |-> u[k] + turn[k] \div QuaternionDot(q, q)]

(* Slip: the sign of the quaternion taken for a difference of rotation. *)
SignedAngleBetween(p, q) ==
  LET dot == QuaternionDot(p, q)
      half == (4 * dot * dot) \div (QuaternionDot(p, p) * QuaternionDot(q, q))
      angle == <<180, 120, 90, 90, 0>>[half + 1]
  IN  IF dot < 0 THEN 360 - angle ELSE angle

(* 2 acos |p . q| in degrees; four times the squared cosine is an integer. *)
AngleBetween(p, q) ==
  LET dot == QuaternionDot(p, q)
      half == (4 * dot * dot) \div (QuaternionDot(p, p) * QuaternionDot(q, q))
  IN  <<180, 120, 90, 90, 0>>[half + 1]

(* ValidatedNormalizedQuaternion: not finite, zero, off by over 1.0e-3. *)
QuaternionRefused(ros) == ros.norm \notin 999..1001

QuaternionFromRosXyzw(ros) ==
  [w |-> ros.xyzw[4], v |-> <<ros.xyzw[1], ros.xyzw[2], ros.xyzw[3]>>]

QuaternionToRosXyzw(q) == [xyzw |-> q.v \o <<q.w>>, norm |-> 1000]

-----------------------------------------------------------------------------
(***************************************************************************)
(* RigidTransform: T[parent,child].                                        *)
(***************************************************************************)

CreateRefused(parent, child, translation, ros) ==
  IF {parent, child} \cap MalformedFrames # {} \/ parent = child
    THEN "FrameContractViolation"
  ELSE IF ~Finite(translation) \/ QuaternionRefused(ros)
    THEN "NumericContractViolation"
  ELSE NotRefused

Create(parent, child, translation, ros) ==
  [parent |-> parent, child |-> child, translation |-> translation,
   rotation |-> QuaternionFromRosXyzw(ros)]

Identity(frame) ==
  [parent |-> frame, child |-> frame, translation |-> Zero, rotation |-> One]

ComposedTranslation(left, right) ==
  Plus(left.translation, Rotate(left.rotation, right.translation))

(* Slip: only the translation of a closed chain is looked at. *)
MovesAtAll(left, right) == ComposedTranslation(left, right) # Zero

(* A chain that returns to its first frame must be the identity. *)
MovesItsFrame(left, right) ==
  \/ ComposedTranslation(left, right) # Zero
  \/ AngleBetween(Times(left.rotation, right.rotation), One) # 0

ComposeRefused(left, right) ==
  IF left.child # right.parent THEN "FrameContractViolation"
  ELSE IF ~Finite(ComposedTranslation(left, right)) THEN "NumericContractViolation"
  ELSE IF left.parent = right.child /\ MovesItsFrame(left, right)
    THEN "FrameContractViolation"
  ELSE NotRefused

Compose(left, right) ==
  IF left.parent = right.child THEN Identity(left.parent)
  ELSE [parent |-> left.parent, child |-> right.child,
        translation |-> ComposedTranslation(left, right),
        rotation |-> Times(left.rotation, right.rotation)]

(* Slip: the translation negated but not turned. *)
InverseTranslationNotTurned(transform) == Minus(Zero, transform.translation)

InverseTranslation(transform) ==
  Minus(Zero, Rotate(Conjugate(transform.rotation), transform.translation))

InverseRefused(transform) ==
  IF Finite(InverseTranslation(transform)) THEN NotRefused
  ELSE "NumericContractViolation"

Inverse(transform) ==
  IF transform.parent = transform.child THEN Identity(transform.parent)
  ELSE [parent |-> transform.child, child |-> transform.parent,
        translation |-> InverseTranslation(transform),
        rotation |-> Conjugate(transform.rotation)]

ApplyPoint(transform, point) ==
  Plus(transform.translation, Rotate(transform.rotation, point))

ApplyPointRefused(transform, point) ==
  IF Finite(point) /\ Finite(ApplyPoint(transform, point)) THEN NotRefused
  ELSE "NumericContractViolation"

SquaredDistance(u, v) == Dot(Minus(u, v), Minus(u, v))

(* The angular tolerance is in degrees.  A tolerance that is not finite is *)
(* written as a negative one: both are refused.                            *)
IsEquivalentRefused(distance, angle) ==
  IF distance < 0 \/ angle < 0 THEN "NumericContractViolation" ELSE NotRefused

IsEquivalent(transform, other, distance, angle) ==
  /\ transform.parent = other.parent /\ transform.child = other.child
  /\ SquaredDistance(transform.translation, other.translation) <= distance * distance
  /\ AngleBetween(transform.rotation, other.rotation) <= angle

CameraPoseToBasePoseRefused(odom_from_camera, base_from_camera) ==
  IF \/ <<odom_from_camera.parent, odom_from_camera.child>> # <<"odom", "camera_link">>
     \/ <<base_from_camera.parent, base_from_camera.child>> # <<"base_link", "camera_link">>
    THEN "FrameContractViolation"
  ELSE IF InverseRefused(base_from_camera) # NotRefused
    THEN InverseRefused(base_from_camera)
  ELSE ComposeRefused(odom_from_camera, Inverse(base_from_camera))

(* Slip: the mount is not inverted. *)
CameraPoseWithMount(odom_from_camera, base_from_camera) ==
  Compose(odom_from_camera, base_from_camera)

CameraPoseToBasePose(odom_from_camera, base_from_camera) ==
  Compose(odom_from_camera, Inverse(base_from_camera))
=============================================================================
