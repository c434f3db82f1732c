------------------------------ MODULE Placement ------------------------------
(***************************************************************************)
(* A reference for RigidTransform, without quaternions: a placement is the *)
(* origin and the axes of a frame, seen from another one.                  *)
(***************************************************************************)
EXTENDS RigidTransform

Vectors == [Axes -> Int]
Matrices == [Axes -> Vectors]

(* The quaternions of the lattice. *)
Quaternions == {q \in [w : Int, v : Vectors] : QuaternionDot(q, q) \in {1, 2, 4}}

Scale(n, u) == [k \in Axes |-> n * u[k]]
Unit(axis) == [k \in Axes |-> IF k = axis THEN 1 ELSE 0]

(* Where a quarter turn about an axis takes the axes; sign 0 is no turn. *)
QuarterTurn(axis, sign) ==
  [k \in Axes |-> IF k = axis \/ sign = 0 THEN Unit(k)
                  ELSE Scale(sign, Cross(Unit(axis), Unit(k)))]

HalfTurn(axis) == [k \in Axes |-> IF k = axis THEN Unit(k) ELSE Scale(-1, Unit(k))]

Turned(axes, u) ==
  [k \in Axes |-> u[1] * axes[1][k] + u[2] * axes[2][k] + u[3] * axes[3][k]]

Transposed(axes) == [k \in Axes |-> [j \in Axes |-> axes[j][k]]]

Placed(place, point) == Plus(place.origin, Turned(place.axes, point))

Then(place, next) ==
  [origin |-> Placed(place, next.origin),
   axes |-> [k \in Axes |-> Turned(place.axes, next.axes[k])]]

Back(place) ==
  [origin |-> Scale(-1, Turned(Transposed(place.axes), place.origin)),
   axes |-> Transposed(place.axes)]

Still == [origin |-> Zero, axes |-> [k \in Axes |-> Unit(k)]]

(* One and the trace of a rotation are four times the squared cosine of    *)
(* half its angle.                                                         *)
Trace(axes) == axes[1][1] + axes[2][2] + axes[3][3]

AngleOf(axes) == <<180, 120, 90, 90, 0>>[Trace(axes) + 2]

(* Axes that a quaternion's rotation, in Rodrigues' form, makes. *)
TurnedBy(axes, q) ==
  \A j, k \in Axes :
    QuaternionDot(q, q) * axes[j][k]
      = (q.w * q.w - Dot(q.v, q.v)) * Unit(j)[k]
          + 2 * (q.v[j] * q.v[k]) + 2 * (q.w * Cross(q.v, Unit(j))[k])

(* A position and a quaternion of a message that say where a frame is.     *)
Locates(position, ros, place) ==
  LET q == QuaternionFromRosXyzw(ros)
  IN  /\ position \in Vectors /\ q \in Quaternions
      /\ place.origin = position
      /\ place.axes \in Matrices /\ TurnedBy(place.axes, q)
=============================================================================
