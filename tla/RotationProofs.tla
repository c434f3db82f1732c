--------------------------- MODULE RotationProofs ---------------------------
(***************************************************************************)
(* What RigidTransform computes with quaternions is what Placement says    *)
(* with axes.  A lattice quaternion of squared norm n turns the axes by an *)
(* integer matrix whose entries, n times, are quadratic forms of its       *)
(* components: the lemmas are identities of these forms.                   *)
(***************************************************************************)
EXTENDS Placement, TLAPS

AxesOf(q) == [k \in Axes |-> Rotate(q, Unit(k))]

-----------------------------------------------------------------------------
(* Scalars.  Squared(w, x, y, z) is the squared norm, Turn the first       *)
(* component of n times the turn of <<r, s, t>>; the others are the same   *)
(* with the axes renamed in a circle.                                      *)
Squared(w, x, y, z) == w*w + x*x + y*y + z*z

Turn(w, x, y, z, r, s, t) == 2 * (w * (y*t - z*s) + (y * (x*s - y*r) - z * (z*r - x*t)))

(* The first row of n times the matrix. *)
RowOwn(w, x, y, z) == w*w + x*x - y*y - z*z
RowNext(w, x, y, z) == 2 * (x*y - w*z)
RowLast(w, x, y, z) == 2 * (x*z + w*y)

Form(w, x, y, z, r, s, t) ==
  RowOwn(w, x, y, z) * r + RowNext(w, x, y, z) * s + RowLast(w, x, y, z) * t

TurnsBy(w, x, y, z, n, r, s, t) ==
  /\ Turn(w, x, y, z, r, s, t) \div n \in Int
  /\ n * (r + Turn(w, x, y, z, r, s, t) \div n) = Form(w, x, y, z, r, s, t)

Components(w, x, y, z, n) ==
  /\ w \in Int /\ x \in Int /\ y \in Int /\ z \in Int
  /\ n \in {1, 2, 4} /\ n = Squared(w, x, y, z)

LEMMA SmallComponents ==
  ASSUME NEW w \in Int, NEW x \in Int, NEW y \in Int, NEW z \in Int,
         w*w + x*x + y*y + z*z \in {1, 2, 4}
  PROVE  w \in -2..2 /\ x \in -2..2 /\ y \in -2..2 /\ z \in -2..2
OBVIOUS

(* What is n times as much on both sides. *)
Combined(n, v, a, b, c, r, s, t) ==
  n \in {1, 2, 4} /\ n * v = (n*a) * r + (n*b) * s + (n*c) * t

SumOf(v, a, b, c, r, s, t) == v = a * r + b * s + c * t

LEMMA Divided ==
  ASSUME NEW n, NEW v \in Int,
         NEW a \in Int, NEW b \in Int, NEW c \in Int,
         NEW r \in Int, NEW s \in Int, NEW t \in Int,
         Combined(n, v, a, b, c, r, s, t)
  PROVE  SumOf(v, a, b, c, r, s, t)
BY DEF Combined, SumOf

(* The turn is divided without a remainder. *)
LEMMA TurnedComponent ==
  ASSUME NEW w, NEW x, NEW y, NEW z, NEW n, Components(w, x, y, z, n),
         NEW r \in Int, NEW s \in Int, NEW t \in Int
  PROVE  TurnsBy(w, x, y, z, n, r, s, t)
<1>. DEFINE a == (-2*(y*y + z*z)) \div n
            b == (2*(x*y - w*z)) \div n
            c == (2*(x*z + w*y)) \div n
            m == a*r + b*s + c*t
            turn == Turn(w, x, y, z, r, s, t)
<1>. /\ w \in Int /\ x \in Int /\ y \in Int /\ z \in Int
     /\ n \in {1, 2, 4} /\ n = Squared(w, x, y, z)
  BY DEF Components
<1>0. w \in -2..2 /\ x \in -2..2 /\ y \in -2..2 /\ z \in -2..2
  BY SmallComponents DEF Squared
<1>1. a \in Int /\ n * a = -2*(y*y + z*z)
  BY <1>0 DEF Squared
<1>2. b \in Int /\ n * b = 2*(x*y - w*z)
  BY <1>0 DEF Squared
<1>3. c \in Int /\ n * c = 2*(x*z + w*y)
  BY <1>0 DEF Squared
<1>. HIDE DEF a, b, c
<1>4. turn = (-2*(y*y + z*z)) * r + (2*(x*y - w*z)) * s + (2*(x*z + w*y)) * t
  BY DEF Turn
<1>5. m \in Int /\ turn = n * m
  <2>1. turn = (n*a)*r + (n*b)*s + (n*c)*t
    BY <1>1, <1>2, <1>3, <1>4
  <2>. QED  BY <1>1, <1>2, <1>3, <2>1
<1>6. n * (r + m) = Form(w, x, y, z, r, s, t)
  <2>1. n*r + turn = Form(w, x, y, z, r, s, t)
    BY <1>4 DEF Form, RowOwn, RowNext, RowLast, Squared
  <2>. QED  BY <1>5, <2>1
<1>. HIDE DEF m
<1>7. (n * m) \div n = m
  BY <1>5
<1>. HIDE DEF turn
<1>8. turn \div n = m
  BY <1>5, <1>7
<1>. QED  BY <1>5, <1>6, <1>8 DEF TurnsBy, turn

-----------------------------------------------------------------------------
(* Vectors.                                                                *)
LEMMA VectorType ==
  /\ \A u \in Vectors : u[1] \in Int /\ u[2] \in Int /\ u[3] \in Int
  /\ \A u, v \in Vectors : (u[1] = v[1] /\ u[2] = v[2] /\ u[3] = v[3]) => u = v
  /\ \A r, s, t \in Int : <<r, s, t>> \in Vectors
BY DEF Vectors, Axes

LEMMA CrossType ==
  ASSUME NEW u \in Vectors, NEW v \in Vectors
  PROVE  /\ Cross(u, v) \in Vectors
         /\ Cross(u, v)[1] = u[2]*v[3] - u[3]*v[2]
         /\ Cross(u, v)[2] = u[3]*v[1] - u[1]*v[3]
         /\ Cross(u, v)[3] = u[1]*v[2] - u[2]*v[1]
BY VectorType DEF Cross

LEMMA QuaternionType ==
  ASSUME NEW q \in Quaternions
  PROVE  /\ q.w \in Int /\ q.v \in Vectors
         /\ q.v[1] \in Int /\ q.v[2] \in Int /\ q.v[3] \in Int
         /\ QuaternionDot(q, q) = q.w*q.w + q.v[1]*q.v[1] + q.v[2]*q.v[2] + q.v[3]*q.v[3]
         /\ QuaternionDot(q, q) \in {1, 2, 4}
BY VectorType DEF Quaternions, QuaternionDot, Dot

(* The images of a vector, n times. *)
LEMMA RotateScaled ==
  ASSUME NEW q \in Quaternions, NEW u \in Vectors
  PROVE  LET n == QuaternionDot(q, q)
             turned == Rotate(q, u)
         IN  /\ turned \in Vectors
             /\ n * turned[1] = Form(q.w, q.v[1], q.v[2], q.v[3], u[1], u[2], u[3])
             /\ n * turned[2] = Form(q.w, q.v[2], q.v[3], q.v[1], u[2], u[3], u[1])
             /\ n * turned[3] = Form(q.w, q.v[3], q.v[1], q.v[2], u[3], u[1], u[2])
<1>. DEFINE w == q.w
            x == q.v[1]
            y == q.v[2]
            z == q.v[3]
            n == QuaternionDot(q, q)
            r == u[1]
            s == u[2]
            t == u[3]
            turn(k) == 2 * (q.w * Cross(q.v, u)[k] + Cross(q.v, Cross(q.v, u))[k])
<1>1. /\ w \in Int /\ x \in Int /\ y \in Int /\ z \in Int
      /\ r \in Int /\ s \in Int /\ t \in Int
      /\ n \in {1, 2, 4}
  BY QuaternionType, VectorType
<1>2. Components(w, x, y, z, n) /\ Components(w, y, z, x, n) /\ Components(w, z, x, y, n)
  BY <1>1, QuaternionType DEF Components, Squared
<1>3. \A k \in Axes : Rotate(q, u)[k] = u[k] + turn(k) \div n
  BY DEF Rotate
<1>4. /\ turn(1) = Turn(w, x, y, z, r, s, t)
      /\ turn(2) = Turn(w, y, z, x, s, t, r)
      /\ turn(3) = Turn(w, z, x, y, t, r, s)
  <2>. DEFINE c == Cross(q.v, u)
              d == Cross(q.v, c)
  <2>1. c \in Vectors /\ c[1] = y*t - z*s /\ c[2] = z*r - x*t /\ c[3] = x*s - y*r
    BY QuaternionType, CrossType
  <2>. HIDE DEF c
  <2>2. d[1] = y * c[3] - z * c[2] /\ d[2] = z * c[1] - x * c[3] /\ d[3] = x * c[2] - y * c[1]
    BY <2>1, QuaternionType, CrossType
  <2>. HIDE DEF d
  <2>3. \A k \in Axes : turn(k) = 2 * (w * c[k] + d[k])
    BY DEF c, d
  <2>. HIDE DEF turn, w, x, y, z, r, s, t
  <2>. QED  BY <1>1, <2>1, <2>2, <2>3 DEF Turn, Axes
<1>. HIDE DEF w, x, y, z, n, r, s, t, turn
<1>5. /\ TurnsBy(w, x, y, z, n, r, s, t)
      /\ TurnsBy(w, y, z, x, n, s, t, r)
      /\ TurnsBy(w, z, x, y, n, t, r, s)
  BY <1>1, <1>2, TurnedComponent, Zenon
<1>6. /\ Rotate(q, u)[1] = r + turn(1) \div n
      /\ Rotate(q, u)[2] = s + turn(2) \div n
      /\ Rotate(q, u)[3] = t + turn(3) \div n
  BY <1>3 DEF Axes, r, s, t
<1>7. /\ turn(1) \div n \in Int /\ turn(2) \div n \in Int /\ turn(3) \div n \in Int
  BY <1>4, <1>5 DEF TurnsBy
<1>8. Rotate(q, u) \in Vectors
  <2>1. Rotate(q, u) = [k \in Axes |-> Rotate(q, u)[k]]
    BY DEF Rotate
  <2>2. Rotate(q, u)[1] \in Int /\ Rotate(q, u)[2] \in Int /\ Rotate(q, u)[3] \in Int
    BY <1>1, <1>6, <1>7
  <2>. HIDE DEF turn
  <2>. QED  BY <2>1, <2>2 DEF Vectors, Axes
<1>9. /\ n * Rotate(q, u)[1] = Form(w, x, y, z, r, s, t)
      /\ n * Rotate(q, u)[2] = Form(w, y, z, x, s, t, r)
      /\ n * Rotate(q, u)[3] = Form(w, z, x, y, t, r, s)
  BY <1>4, <1>5, <1>6 DEF TurnsBy
<1>. QED  BY <1>8, <1>9 DEF w, x, y, z, n, r, s, t

-----------------------------------------------------------------------------
(* Axes.                                                                   *)
LEMMA UnitType ==
  /\ \A k \in Axes : Unit(k) \in Vectors
  /\ Unit(1)[1] = 1 /\ Unit(1)[2] = 0 /\ Unit(1)[3] = 0
  /\ Unit(2)[1] = 0 /\ Unit(2)[2] = 1 /\ Unit(2)[3] = 0
  /\ Unit(3)[1] = 0 /\ Unit(3)[2] = 0 /\ Unit(3)[3] = 1
BY DEF Unit, Vectors, Axes

LEMMA TurnedType ==
  ASSUME NEW m \in Matrices, NEW u \in Vectors
  PROVE  /\ Turned(m, u) \in Vectors
         /\ \A k \in Axes : Turned(m, u)[k] = u[1] * m[1][k] + u[2] * m[2][k] + u[3] * m[3][k]
<1>1. m[1] \in Vectors /\ m[2] \in Vectors /\ m[3] \in Vectors
  BY DEF Matrices, Axes
<1>2. \A k \in Axes : m[1][k] \in Int /\ m[2][k] \in Int /\ m[3][k] \in Int
  BY <1>1 DEF Vectors
<1>3. u[1] \in Int /\ u[2] \in Int /\ u[3] \in Int
  BY VectorType
<1>4. \A k \in Axes : u[1] * m[1][k] + u[2] * m[2][k] + u[3] * m[3][k] \in Int
  BY <1>2, <1>3
<1>. QED  BY <1>4 DEF Turned, Vectors

MatrixOf(m, q, n) ==
  /\ n * m[1][1] = RowOwn(q.w, q.v[1], q.v[2], q.v[3])
  /\ n * m[2][1] = RowNext(q.w, q.v[1], q.v[2], q.v[3])
  /\ n * m[3][1] = RowLast(q.w, q.v[1], q.v[2], q.v[3])
  /\ n * m[2][2] = RowOwn(q.w, q.v[2], q.v[3], q.v[1])
  /\ n * m[3][2] = RowNext(q.w, q.v[2], q.v[3], q.v[1])
  /\ n * m[1][2] = RowLast(q.w, q.v[2], q.v[3], q.v[1])
  /\ n * m[3][3] = RowOwn(q.w, q.v[3], q.v[1], q.v[2])
  /\ n * m[1][3] = RowNext(q.w, q.v[3], q.v[1], q.v[2])
  /\ n * m[2][3] = RowLast(q.w, q.v[3], q.v[1], q.v[2])

LEMMA RowType ==
  ASSUME NEW w \in Int, NEW x \in Int, NEW y \in Int, NEW z \in Int
  PROVE  /\ RowOwn(w, x, y, z) \in Int
         /\ RowNext(w, x, y, z) \in Int
         /\ RowLast(w, x, y, z) \in Int
BY DEF RowOwn, RowNext, RowLast

(* The matrix of a quaternion. *)
LEMMA AxesScaled ==
  ASSUME NEW q \in Quaternions
  PROVE  AxesOf(q) \in Matrices /\ MatrixOf(AxesOf(q), q, QuaternionDot(q, q))
<1>. DEFINE n == QuaternionDot(q, q)
            image(k) == Rotate(q, Unit(k))
<1>1. \A k \in Axes : image(k) \in Vectors
  BY UnitType, RotateScaled
<1>2. AxesOf(q)[1] = image(1) /\ AxesOf(q)[2] = image(2) /\ AxesOf(q)[3] = image(3)
  BY DEF AxesOf, Axes
<1>3. \A k \in Axes :
        /\ n * image(k)[1]
             = Form(q.w, q.v[1], q.v[2], q.v[3], Unit(k)[1], Unit(k)[2], Unit(k)[3])
        /\ n * image(k)[2]
             = Form(q.w, q.v[2], q.v[3], q.v[1], Unit(k)[2], Unit(k)[3], Unit(k)[1])
        /\ n * image(k)[3]
             = Form(q.w, q.v[3], q.v[1], q.v[2], Unit(k)[3], Unit(k)[1], Unit(k)[2])
  BY UnitType, RotateScaled
<1>4. /\ RowOwn(q.w, q.v[1], q.v[2], q.v[3]) \in Int
      /\ RowNext(q.w, q.v[1], q.v[2], q.v[3]) \in Int
      /\ RowLast(q.w, q.v[1], q.v[2], q.v[3]) \in Int
      /\ RowOwn(q.w, q.v[2], q.v[3], q.v[1]) \in Int
      /\ RowNext(q.w, q.v[2], q.v[3], q.v[1]) \in Int
      /\ RowLast(q.w, q.v[2], q.v[3], q.v[1]) \in Int
      /\ RowOwn(q.w, q.v[3], q.v[1], q.v[2]) \in Int
      /\ RowNext(q.w, q.v[3], q.v[1], q.v[2]) \in Int
      /\ RowLast(q.w, q.v[3], q.v[1], q.v[2]) \in Int
  BY QuaternionType, RowType
<1>. HIDE DEF image, n
<1>5. /\ n * image(1)[1] = RowOwn(q.w, q.v[1], q.v[2], q.v[3])
      /\ n * image(1)[2] = RowLast(q.w, q.v[2], q.v[3], q.v[1])
      /\ n * image(1)[3] = RowNext(q.w, q.v[3], q.v[1], q.v[2])
  BY <1>3, <1>4, UnitType DEF Form, Axes
<1>6. /\ n * image(2)[1] = RowNext(q.w, q.v[1], q.v[2], q.v[3])
      /\ n * image(2)[2] = RowOwn(q.w, q.v[2], q.v[3], q.v[1])
      /\ n * image(2)[3] = RowLast(q.w, q.v[3], q.v[1], q.v[2])
  BY <1>3, <1>4, UnitType DEF Form, Axes
<1>7. /\ n * image(3)[1] = RowLast(q.w, q.v[1], q.v[2], q.v[3])
      /\ n * image(3)[2] = RowNext(q.w, q.v[2], q.v[3], q.v[1])
      /\ n * image(3)[3] = RowOwn(q.w, q.v[3], q.v[1], q.v[2])
  BY <1>3, <1>4, UnitType DEF Form, Axes
<1>8. AxesOf(q) \in Matrices
  BY <1>1 DEF AxesOf, Matrices, image
<1>. QED  BY <1>2, <1>5, <1>6, <1>7, <1>8 DEF MatrixOf, n

LEMMA MatrixType ==
  ASSUME NEW m \in Matrices
  PROVE  /\ m[1] \in Vectors /\ m[2] \in Vectors /\ m[3] \in Vectors
         /\ m[1][1] \in Int /\ m[1][2] \in Int /\ m[1][3] \in Int
         /\ m[2][1] \in Int /\ m[2][2] \in Int /\ m[2][3] \in Int
         /\ m[3][1] \in Int /\ m[3][2] \in Int /\ m[3][3] \in Int
<1>1. m[1] \in Vectors /\ m[2] \in Vectors /\ m[3] \in Vectors
  BY DEF Matrices, Axes
<1>. QED  BY <1>1, VectorType

(* A quaternion turns every vector as it turns the axes. *)
LEMMA RotateIsTurned ==
  ASSUME NEW q \in Quaternions, NEW u \in Vectors
  PROVE  Rotate(q, u) = Turned(AxesOf(q), u)
<1>. DEFINE n == QuaternionDot(q, q)
            m == AxesOf(q)
            v == Rotate(q, u)
<1>1. /\ v \in Vectors
      /\ n * v[1] = Form(q.w, q.v[1], q.v[2], q.v[3], u[1], u[2], u[3])
      /\ n * v[2] = Form(q.w, q.v[2], q.v[3], q.v[1], u[2], u[3], u[1])
      /\ n * v[3] = Form(q.w, q.v[3], q.v[1], q.v[2], u[3], u[1], u[2])
  BY RotateScaled
<1>2. m \in Matrices /\ MatrixOf(m, q, n) /\ n \in {1, 2, 4}
  BY AxesScaled, QuaternionType
<1>3. u[1] \in Int /\ u[2] \in Int /\ u[3] \in Int
  BY VectorType
<1>4. Turned(m, u) \in Vectors
  BY <1>2, TurnedType
<1>5. /\ Turned(m, u)[1] = u[1] * m[1][1] + u[2] * m[2][1] + u[3] * m[3][1]
      /\ Turned(m, u)[2] = u[1] * m[1][2] + u[2] * m[2][2] + u[3] * m[3][2]
      /\ Turned(m, u)[3] = u[1] * m[1][3] + u[2] * m[2][3] + u[3] * m[3][3]
  BY <1>2, TurnedType DEF Axes
<1>6. v[1] \in Int /\ v[2] \in Int /\ v[3] \in Int
  BY <1>1, VectorType
<1>11. /\ m[1][1] \in Int /\ m[1][2] \in Int /\ m[1][3] \in Int
       /\ m[2][1] \in Int /\ m[2][2] \in Int /\ m[2][3] \in Int
       /\ m[3][1] \in Int /\ m[3][2] \in Int /\ m[3][3] \in Int
  BY <1>2, MatrixType
<1>. HIDE DEF n, m, v
<1>7. SumOf(v[1], m[1][1], m[2][1], m[3][1], u[1], u[2], u[3])
  <2>1. Combined(n, v[1], m[1][1], m[2][1], m[3][1], u[1], u[2], u[3])
    BY <1>1, <1>2 DEF Combined, MatrixOf, Form
  <2>. QED  BY <1>3, <1>6, <1>11, <2>1, Divided, Zenon
<1>8. SumOf(v[2], m[2][2], m[3][2], m[1][2], u[2], u[3], u[1])
  <2>1. Combined(n, v[2], m[2][2], m[3][2], m[1][2], u[2], u[3], u[1])
    BY <1>1, <1>2 DEF Combined, MatrixOf, Form
  <2>. QED  BY <1>3, <1>6, <1>11, <2>1, Divided, Zenon
<1>9. SumOf(v[3], m[3][3], m[1][3], m[2][3], u[3], u[1], u[2])
  <2>1. Combined(n, v[3], m[3][3], m[1][3], m[2][3], u[3], u[1], u[2])
    BY <1>1, <1>2 DEF Combined, MatrixOf, Form
  <2>. QED  BY <1>3, <1>6, <1>11, <2>1, Divided, Zenon
<1>10. v = Turned(m, u)
  <2>1. v[1] = Turned(m, u)[1]
    BY <1>3, <1>5, <1>7, <1>11 DEF SumOf
  <2>2. v[2] = Turned(m, u)[2]
    BY <1>3, <1>5, <1>8, <1>11 DEF SumOf
  <2>3. v[3] = Turned(m, u)[3]
    BY <1>3, <1>5, <1>9, <1>11 DEF SumOf
  <2>. QED  BY <1>1, <1>4, <2>1, <2>2, <2>3, VectorType
<1>. QED  BY <1>10 DEF v, m

-----------------------------------------------------------------------------
(* The product of two quaternions, before it is made the shortest of its   *)
(* direction.                                                              *)
Product(p, q) ==
  [w |-> p.w * q.w - Dot(p.v, q.v),
   v |-> [k \in Axes |-> q.w * p.v[k] + p.w * q.v[k] + Cross(p.v, q.v)[k]]]

ProductW(w, x, y, z, a, b, c, d) == w*a - (x*b + y*c + z*d)
ProductX(w, x, y, z, a, b, c, d) == a*x + w*b + (y*d - z*c)

Divisors(h) == {d \in 1..4 : h.w % d = 0 /\ \A k \in Axes : h.v[k] % d = 0}

LEMMA LargestDivisor ==
  ASSUME NEW h, h.w \in Int, h.v \in Vectors
  PROVE  /\ Sets!Max(Divisors(h)) \in Divisors(h)
         /\ \A d \in Divisors(h) : d <= Sets!Max(Divisors(h))
<1>1. 1 \in Divisors(h)
  BY DEF Divisors, Vectors
<1>2. Divisors(h) \subseteq 1..4
  BY DEF Divisors
<1>3. \E g \in Divisors(h) : \A d \in Divisors(h) : g >= d
  BY <1>1, <1>2
<1>4. PICK g \in Divisors(h) : \A d \in Divisors(h) : g >= d
  BY <1>3
<1>5. /\ Sets!Max(Divisors(h)) \in Divisors(h)
      /\ \A d \in Divisors(h) : Sets!Max(Divisors(h)) >= d
  BY <1>3 DEF Sets!Max
<1>. QED  BY <1>2, <1>5

(* Eight and sixteen are sums of four squares only of even numbers. *)
LEMMA EvenComponents ==
  ASSUME NEW w \in Int, NEW x \in Int, NEW y \in Int, NEW z \in Int,
         Squared(w, x, y, z) \in {8, 16}
  PROVE  w % 2 = 0 /\ x % 2 = 0 /\ y % 2 = 0 /\ z % 2 = 0
BY SMTT(60) DEF Squared

LEMMA ShortenedSquare ==
  ASSUME NEW w \in Int, NEW x \in Int, NEW y \in Int, NEW z \in Int,
         NEW g \in 1..4, Squared(g*w, g*x, g*y, g*z) \in {1, 2, 4, 8, 16},
         Squared(g*w, g*x, g*y, g*z) \in {8, 16} => g >= 2
  PROVE  Squared(w, x, y, z) \in {1, 2, 4}
<1>1. Squared(g*w, g*x, g*y, g*z) = (g * g) * Squared(w, x, y, z) /\ Squared(w, x, y, z) \in Int
  BY DEF Squared
<1>2. \A n \in Int : (g * g) * n \in {1, 2, 4, 8, 16} /\ ((g * g) * n \in {8, 16} => g >= 2)
                     => n \in {1, 2, 4}
  OBVIOUS
<1>. QED  BY <1>1, <1>2

(* Dividing by the largest divisor leaves a quaternion of the lattice. *)
LEMMA ShortestScales ==
  ASSUME NEW h, h.w \in Int, h.v \in Vectors,
         Squared(h.w, h.v[1], h.v[2], h.v[3]) \in {1, 2, 4, 8, 16}
  PROVE  /\ Shortest(h) \in Quaternions
         /\ \E g \in 1..4 : /\ g * Shortest(h).w = h.w
                            /\ \A k \in Axes : g * Shortest(h).v[k] = h.v[k]
<1>. DEFINE g == Sets!Max(Divisors(h))
            r == Shortest(h)
<1>1. g \in Divisors(h) /\ \A d \in Divisors(h) : d <= g
  BY LargestDivisor
<1>2. g \in 1..4 /\ h.w % g = 0 /\ \A k \in Axes : h.v[k] % g = 0
  BY <1>1 DEF Divisors
<1>3. r = [w |-> h.w \div g, v |-> [k \in Axes |-> h.v[k] \div g]]
  BY DEF Shortest, Divisors
<1>4. h.v[1] \in Int /\ h.v[2] \in Int /\ h.v[3] \in Int /\ \A k \in Axes : h.v[k] \in Int
  BY DEF Vectors, Axes
<1>. HIDE DEF g, r
<1>5. \A c \in Int : c % g = 0 => c \div g \in Int /\ g * (c \div g) = c
  BY <1>2, SMTT(60)
<1>6. r.w \in Int /\ g * r.w = h.w
  BY <1>2, <1>3, <1>5
<1>7. \A k \in Axes : r.v[k] \in Int /\ g * r.v[k] = h.v[k]
  BY <1>2, <1>3, <1>4, <1>5
<1>8. r.v \in Vectors
  BY <1>3, <1>7 DEF Vectors
<1>9. Squared(h.w, h.v[1], h.v[2], h.v[3]) \in {8, 16} => g >= 2
  <2>1. ASSUME Squared(h.w, h.v[1], h.v[2], h.v[3]) \in {8, 16}
        PROVE  2 \in Divisors(h)
    <3>1. /\ h.w % 2 = 0 /\ h.v[1] % 2 = 0 /\ h.v[2] % 2 = 0 /\ h.v[3] % 2 = 0
      BY <1>4, <2>1, EvenComponents
    <3>. QED  BY <3>1 DEF Divisors, Axes
  <2>. QED  BY <1>1, <2>1
<1>10. Squared(r.w, r.v[1], r.v[2], r.v[3]) \in {1, 2, 4}
  <2>1. r.v[1] \in Int /\ r.v[2] \in Int /\ r.v[3] \in Int
    BY <1>7 DEF Axes
  <2>2. Squared(g * r.w, g * r.v[1], g * r.v[2], g * r.v[3])
          = Squared(h.w, h.v[1], h.v[2], h.v[3])
    BY <1>6, <1>7 DEF Axes
  <2>. QED  BY <1>2, <1>6, <1>9, <2>1, <2>2, ShortenedSquare
<1>11. r \in [w : Int, v : Vectors]
  BY <1>3, <1>6, <1>8
<1>12. QuaternionDot(r, r) = Squared(r.w, r.v[1], r.v[2], r.v[3])
  <2>1. r.v[1] \in Int /\ r.v[2] \in Int /\ r.v[3] \in Int
    BY <1>7 DEF Axes
  <2>. QED  BY <1>6, <2>1 DEF QuaternionDot, Dot, Squared
<1>. QED  BY <1>2, <1>6, <1>7, <1>10, <1>11, <1>12 DEF Quaternions, r

(* The row of a product is the row of the matrices' product.               *)
ProductSquared(w, x, y, z, a, b, c, d) ==
  Squared(ProductW(w, x, y, z, a, b, c, d), ProductX(w, x, y, z, a, b, c, d),
          ProductX(w, y, z, x, a, c, d, b), ProductX(w, z, x, y, a, d, b, c))
    = Squared(w, x, y, z) * Squared(a, b, c, d)

Multiplied(w, x, y, z, a, b, c, d, g, e, i, j, k) ==
  /\ g * e = ProductW(w, x, y, z, a, b, c, d)
  /\ g * i = ProductX(w, x, y, z, a, b, c, d)
  /\ g * j = ProductX(w, y, z, x, a, c, d, b)
  /\ g * k = ProductX(w, z, x, y, a, d, b, c)

RowsMultiplied(w, x, y, z, a, b, c, d, g, e, i, j, k) ==
  /\ (g * g) * RowOwn(e, i, j, k)
       = RowOwn(w, x, y, z) * RowOwn(a, b, c, d)
         + RowNext(w, x, y, z) * RowLast(a, c, d, b)
         + RowLast(w, x, y, z) * RowNext(a, d, b, c)
  /\ (g * g) * RowNext(e, i, j, k)
       = RowOwn(w, x, y, z) * RowNext(a, b, c, d)
         + RowNext(w, x, y, z) * RowOwn(a, c, d, b)
         + RowLast(w, x, y, z) * RowLast(a, d, b, c)
  /\ (g * g) * RowLast(e, i, j, k)
       = RowOwn(w, x, y, z) * RowLast(a, b, c, d)
         + RowNext(w, x, y, z) * RowNext(a, c, d, b)
         + RowLast(w, x, y, z) * RowOwn(a, d, b, c)

LEMMA SquareOfProduct ==
  ASSUME NEW w \in Int, NEW x \in Int, NEW y \in Int, NEW z \in Int,
         NEW a \in Int, NEW b \in Int, NEW c \in Int, NEW d \in Int
  PROVE  ProductSquared(w, x, y, z, a, b, c, d)
BY DEF ProductSquared, Squared, ProductW, ProductX

LEMMA RowsOfProduct ==
  ASSUME NEW w \in Int, NEW x \in Int, NEW y \in Int, NEW z \in Int,
         NEW a \in Int, NEW b \in Int, NEW c \in Int, NEW d \in Int,
         NEW g \in Int, NEW e \in Int, NEW i \in Int, NEW j \in Int, NEW k \in Int,
         Multiplied(w, x, y, z, a, b, c, d, g, e, i, j, k)
  PROVE  RowsMultiplied(w, x, y, z, a, b, c, d, g, e, i, j, k)
<1>. DEFINE ge == ProductW(w, x, y, z, a, b, c, d)
            gi == ProductX(w, x, y, z, a, b, c, d)
            gj == ProductX(w, y, z, x, a, c, d, b)
            gk == ProductX(w, z, x, y, a, d, b, c)
<1>1. /\ (g * g) * RowOwn(e, i, j, k) = RowOwn(g*e, g*i, g*j, g*k)
      /\ (g * g) * RowNext(e, i, j, k) = RowNext(g*e, g*i, g*j, g*k)
      /\ (g * g) * RowLast(e, i, j, k) = RowLast(g*e, g*i, g*j, g*k)
  BY DEF RowOwn, RowNext, RowLast
<1>2. RowOwn(ge, gi, gj, gk)
        = RowOwn(w, x, y, z) * RowOwn(a, b, c, d)
          + RowNext(w, x, y, z) * RowLast(a, c, d, b)
          + RowLast(w, x, y, z) * RowNext(a, d, b, c)
  BY DEF RowOwn, RowNext, RowLast, ProductW, ProductX
<1>3. RowNext(ge, gi, gj, gk)
        = RowOwn(w, x, y, z) * RowNext(a, b, c, d)
          + RowNext(w, x, y, z) * RowOwn(a, c, d, b)
          + RowLast(w, x, y, z) * RowLast(a, d, b, c)
  BY DEF RowOwn, RowNext, RowLast, ProductW, ProductX
<1>4. RowLast(ge, gi, gj, gk)
        = RowOwn(w, x, y, z) * RowLast(a, b, c, d)
          + RowNext(w, x, y, z) * RowNext(a, c, d, b)
          + RowLast(w, x, y, z) * RowOwn(a, d, b, c)
  BY DEF RowOwn, RowNext, RowLast, ProductW, ProductX
<1>. HIDE DEF ge, gi, gj, gk
<1>5. g*e = ge /\ g*i = gi /\ g*j = gj /\ g*k = gk
  BY DEF Multiplied, ge, gi, gj, gk
<1>. QED  BY <1>1, <1>2, <1>3, <1>4, <1>5 DEF RowsMultiplied

LEMMA ProductComponents ==
  ASSUME NEW p \in Quaternions, NEW q \in Quaternions
  PROVE  /\ Times(p, q) = Shortest(Product(p, q))
         /\ Product(p, q).w \in Int /\ Product(p, q).v \in Vectors
         /\ Product(p, q).w
              = ProductW(p.w, p.v[1], p.v[2], p.v[3], q.w, q.v[1], q.v[2], q.v[3])
         /\ Product(p, q).v[1]
              = ProductX(p.w, p.v[1], p.v[2], p.v[3], q.w, q.v[1], q.v[2], q.v[3])
         /\ Product(p, q).v[2]
              = ProductX(p.w, p.v[2], p.v[3], p.v[1], q.w, q.v[2], q.v[3], q.v[1])
         /\ Product(p, q).v[3]
              = ProductX(p.w, p.v[3], p.v[1], p.v[2], q.w, q.v[3], q.v[1], q.v[2])
<1>. DEFINE cross == Cross(p.v, q.v)
            v == [k \in Axes |-> q.w * p.v[k] + p.w * q.v[k] + cross[k]]
<1>1. /\ p.w \in Int /\ p.v[1] \in Int /\ p.v[2] \in Int /\ p.v[3] \in Int
      /\ q.w \in Int /\ q.v[1] \in Int /\ q.v[2] \in Int /\ q.v[3] \in Int
  BY QuaternionType
<1>2. /\ cross \in Vectors
      /\ cross[1] = p.v[2]*q.v[3] - p.v[3]*q.v[2]
      /\ cross[2] = p.v[3]*q.v[1] - p.v[1]*q.v[3]
      /\ cross[3] = p.v[1]*q.v[2] - p.v[2]*q.v[1]
  BY QuaternionType, CrossType
<1>3. Product(p, q) = [w |-> p.w * q.w - Dot(p.v, q.v), v |-> v]
  BY DEF Product
<1>. HIDE DEF cross
<1>4. /\ v[1] = q.w * p.v[1] + p.w * q.v[1] + cross[1]
      /\ v[2] = q.w * p.v[2] + p.w * q.v[2] + cross[2]
      /\ v[3] = q.w * p.v[3] + p.w * q.v[3] + cross[3]
  BY DEF Axes
<1>5. v \in Vectors
  <2>1. \A k \in Axes : q.w * p.v[k] + p.w * q.v[k] + cross[k] \in Int
    BY <1>1, <1>2, QuaternionType DEF Vectors
  <2>. QED  BY <2>1 DEF Vectors
<1>. HIDE DEF v
<1>6. p.w * q.w - Dot(p.v, q.v) \in Int
  BY <1>1 DEF Dot
<1>7. p.w * q.w - Dot(p.v, q.v)
        = ProductW(p.w, p.v[1], p.v[2], p.v[3], q.w, q.v[1], q.v[2], q.v[3])
  BY DEF Dot, ProductW
<1>8. /\ v[1] = ProductX(p.w, p.v[1], p.v[2], p.v[3], q.w, q.v[1], q.v[2], q.v[3])
      /\ v[2] = ProductX(p.w, p.v[2], p.v[3], p.v[1], q.w, q.v[2], q.v[3], q.v[1])
      /\ v[3] = ProductX(p.w, p.v[3], p.v[1], p.v[2], q.w, q.v[3], q.v[1], q.v[2])
  BY <1>2, <1>4 DEF ProductX
<1>9. Times(p, q) = Shortest(Product(p, q))
  BY DEF Times, Product
<1>. QED  BY <1>3, <1>5, <1>6, <1>7, <1>8, <1>9

(* The components of a product are those of a quaternion, g times. *)
LEMMA TimesMultiplies ==
  ASSUME NEW p \in Quaternions, NEW q \in Quaternions
  PROVE  /\ Times(p, q) \in Quaternions
         /\ \E g \in 1..4 :
              LET r == Times(p, q)
              IN  /\ (g * g) * QuaternionDot(r, r) = QuaternionDot(p, p) * QuaternionDot(q, q)
                  /\ Multiplied(p.w, p.v[1], p.v[2], p.v[3], q.w, q.v[1], q.v[2], q.v[3],
                                g, r.w, r.v[1], r.v[2], r.v[3])
                  /\ Multiplied(p.w, p.v[2], p.v[3], p.v[1], q.w, q.v[2], q.v[3], q.v[1],
                                g, r.w, r.v[2], r.v[3], r.v[1])
                  /\ Multiplied(p.w, p.v[3], p.v[1], p.v[2], q.w, q.v[3], q.v[1], q.v[2],
                                g, r.w, r.v[3], r.v[1], r.v[2])
<1>. DEFINE h == Product(p, q)
            r == Times(p, q)
            n == QuaternionDot(p, p)
            m == QuaternionDot(q, q)
<1>1. /\ p.w \in Int /\ p.v[1] \in Int /\ p.v[2] \in Int /\ p.v[3] \in Int
      /\ q.w \in Int /\ q.v[1] \in Int /\ q.v[2] \in Int /\ q.v[3] \in Int
  BY QuaternionType
<1>2. /\ n \in {1, 2, 4} /\ n = Squared(p.w, p.v[1], p.v[2], p.v[3])
      /\ m \in {1, 2, 4} /\ m = Squared(q.w, q.v[1], q.v[2], q.v[3])
  BY QuaternionType DEF Squared
<1>3. /\ r = Shortest(h) /\ h.w \in Int /\ h.v \in Vectors
      /\ h.w = ProductW(p.w, p.v[1], p.v[2], p.v[3], q.w, q.v[1], q.v[2], q.v[3])
      /\ h.v[1] = ProductX(p.w, p.v[1], p.v[2], p.v[3], q.w, q.v[1], q.v[2], q.v[3])
      /\ h.v[2] = ProductX(p.w, p.v[2], p.v[3], p.v[1], q.w, q.v[2], q.v[3], q.v[1])
      /\ h.v[3] = ProductX(p.w, p.v[3], p.v[1], p.v[2], q.w, q.v[3], q.v[1], q.v[2])
  BY ProductComponents
<1>. HIDE DEF h, r, n, m
<1>4. ProductSquared(p.w, p.v[1], p.v[2], p.v[3], q.w, q.v[1], q.v[2], q.v[3])
  BY <1>1, SquareOfProduct, Zenon
<1>5. Squared(h.w, h.v[1], h.v[2], h.v[3]) = n * m
  BY <1>2, <1>3, <1>4 DEF ProductSquared
<1>6. n * m \in {1, 2, 4, 8, 16}
  BY <1>2
<1>7. /\ r \in Quaternions
      /\ \E g \in 1..4 : g * r.w = h.w /\ \A k \in Axes : g * r.v[k] = h.v[k]
  BY <1>3, <1>5, <1>6, ShortestScales
<1>8. PICK g \in 1..4 : g * r.w = h.w /\ \A k \in Axes : g * r.v[k] = h.v[k]
  BY <1>7
<1>9. g * r.v[1] = h.v[1] /\ g * r.v[2] = h.v[2] /\ g * r.v[3] = h.v[3]
  BY <1>8 DEF Axes
<1>10. /\ r.w \in Int /\ r.v[1] \in Int /\ r.v[2] \in Int /\ r.v[3] \in Int
       /\ QuaternionDot(r, r) = Squared(r.w, r.v[1], r.v[2], r.v[3])
  BY <1>7, QuaternionType DEF Squared
<1>11. (g * g) * QuaternionDot(r, r) = n * m
  <2>1. (g * g) * Squared(r.w, r.v[1], r.v[2], r.v[3])
          = Squared(g * r.w, g * r.v[1], g * r.v[2], g * r.v[3])
    BY <1>10 DEF Squared
  <2>. QED  BY <1>5, <1>8, <1>9, <1>10, <2>1
<1>12. /\ h.w = ProductW(p.w, p.v[2], p.v[3], p.v[1], q.w, q.v[2], q.v[3], q.v[1])
       /\ h.w = ProductW(p.w, p.v[3], p.v[1], p.v[2], q.w, q.v[3], q.v[1], q.v[2])
  <2>1. /\ ProductW(p.w, p.v[2], p.v[3], p.v[1], q.w, q.v[2], q.v[3], q.v[1])
             = ProductW(p.w, p.v[1], p.v[2], p.v[3], q.w, q.v[1], q.v[2], q.v[3])
        /\ ProductW(p.w, p.v[3], p.v[1], p.v[2], q.w, q.v[3], q.v[1], q.v[2])
             = ProductW(p.w, p.v[1], p.v[2], p.v[3], q.w, q.v[1], q.v[2], q.v[3])
    BY <1>1 DEF ProductW
  <2>. QED  BY <1>3, <2>1
<1>13. /\ Multiplied(p.w, p.v[1], p.v[2], p.v[3], q.w, q.v[1], q.v[2], q.v[3],
                     g, r.w, r.v[1], r.v[2], r.v[3])
       /\ Multiplied(p.w, p.v[2], p.v[3], p.v[1], q.w, q.v[2], q.v[3], q.v[1],
                     g, r.w, r.v[2], r.v[3], r.v[1])
       /\ Multiplied(p.w, p.v[3], p.v[1], p.v[2], q.w, q.v[3], q.v[1], q.v[2],
                     g, r.w, r.v[3], r.v[1], r.v[2])
  BY <1>3, <1>8, <1>9, <1>12, Zenon DEF Multiplied
<1>. QED  BY <1>7, <1>8, <1>11, <1>13, Zenon DEF r, n, m

-----------------------------------------------------------------------------
(* The matrix of a product is the product of the matrices.                 *)
Entry(n, m, k, g, c, a1, a2, a3, b1, b2, b3) ==
  /\ n \in {1, 2, 4} /\ m \in {1, 2, 4} /\ g \in 1..4
  /\ k \in Int /\ (g * g) * k = n * m
  /\ (g * g) * (k * c) = (n * a1) * (m * b1) + (n * a2) * (m * b2) + (n * a3) * (m * b3)

LEMMA EntryDivided ==
  ASSUME NEW n, NEW m, NEW k, NEW g, NEW c \in Int,
         NEW a1 \in Int, NEW a2 \in Int, NEW a3 \in Int,
         NEW b1 \in Int, NEW b2 \in Int, NEW b3 \in Int,
         Entry(n, m, k, g, c, a1, a2, a3, b1, b2, b3)
  PROVE  SumOf(c, a1, a2, a3, b1, b2, b3)
<1>. /\ n \in {1, 2, 4} /\ m \in {1, 2, 4} /\ g \in Int /\ k \in Int
     /\ (g * g) * k = n * m
     /\ (g * g) * (k * c) = (n * a1) * (m * b1) + (n * a2) * (m * b2) + (n * a3) * (m * b3)
  BY DEF Entry
<1>. DEFINE s == a1 * b1 + a2 * b2 + a3 * b3
<1>1. (g * g) * (k * c) = ((g * g) * k) * c
  OBVIOUS
<1>2. (n * a1) * (m * b1) + (n * a2) * (m * b2) + (n * a3) * (m * b3) = (n * m) * s
  OBVIOUS
<1>3. s \in Int
  OBVIOUS
<1>. HIDE DEF s
<1>4. (n * m) * c = (n * m) * s
  BY <1>1, <1>2
<1>5. n * m \in {1, 2, 4, 8, 16}
  OBVIOUS
<1>6. c = s
  BY <1>3, <1>4, <1>5
<1>. QED  BY <1>6 DEF SumOf, s

LEMMA MatrixProduct ==
  ASSUME NEW a \in Matrices, NEW b \in Matrices, NEW c \in Matrices,
         \A j, k \in Axes : SumOf(c[j][k], a[1][k], a[2][k], a[3][k],
                                 b[j][1], b[j][2], b[j][3])
  PROVE  \A j \in Axes : c[j] = Turned(a, b[j])
<1>. SUFFICES ASSUME NEW j \in Axes  PROVE c[j] = Turned(a, b[j])
  OBVIOUS
<1>1. b[j] \in Vectors /\ c[j] \in Vectors
  BY DEF Matrices
<1>2. b[j][1] \in Int /\ b[j][2] \in Int /\ b[j][3] \in Int
  BY <1>1, VectorType
<1>3. \A k \in Axes : a[1][k] \in Int /\ a[2][k] \in Int /\ a[3][k] \in Int
  BY DEF Matrices, Vectors, Axes
<1>4. ASSUME NEW k \in Axes  PROVE c[j][k] = Turned(a, b[j])[k]
  <2>1. Turned(a, b[j])[k] = b[j][1] * a[1][k] + b[j][2] * a[2][k] + b[j][3] * a[3][k]
    BY <1>1, TurnedType
  <2>2. c[j][k] = a[1][k] * b[j][1] + a[2][k] * b[j][2] + a[3][k] * b[j][3]
    BY DEF SumOf
  <2>. QED  BY <1>2, <1>3, <2>1, <2>2
<1>5. Turned(a, b[j]) \in Vectors
  BY <1>1, TurnedType
<1>. QED  BY <1>1, <1>4, <1>5 DEF Vectors

LEMMA TimesTurns ==
  ASSUME NEW p \in Quaternions, NEW q \in Quaternions
  PROVE  /\ Times(p, q) \in Quaternions
         /\ \A j \in Axes : AxesOf(Times(p, q))[j] = Turned(AxesOf(p), AxesOf(q)[j])
<1>. DEFINE r == Times(p, q)
            a == AxesOf(p)
            b == AxesOf(q)
            c == AxesOf(r)
            n == QuaternionDot(p, p)
            m == QuaternionDot(q, q)
            k == QuaternionDot(r, r)
<1>0. r \in Quaternions
  BY TimesMultiplies
<1>1. PICK g \in 1..4 :
        /\ (g * g) * k = n * m
        /\ Multiplied(p.w, p.v[1], p.v[2], p.v[3], q.w, q.v[1], q.v[2], q.v[3],
                      g, r.w, r.v[1], r.v[2], r.v[3])
        /\ Multiplied(p.w, p.v[2], p.v[3], p.v[1], q.w, q.v[2], q.v[3], q.v[1],
                      g, r.w, r.v[2], r.v[3], r.v[1])
        /\ Multiplied(p.w, p.v[3], p.v[1], p.v[2], q.w, q.v[3], q.v[1], q.v[2],
                      g, r.w, r.v[3], r.v[1], r.v[2])
  BY TimesMultiplies, Zenon
<1>2. /\ a \in Matrices /\ MatrixOf(a, p, n) /\ n \in {1, 2, 4}
      /\ b \in Matrices /\ MatrixOf(b, q, m) /\ m \in {1, 2, 4}
      /\ c \in Matrices /\ MatrixOf(c, r, k) /\ k \in Int
  BY <1>0, AxesScaled, QuaternionType
<1>3. /\ p.w \in Int /\ p.v[1] \in Int /\ p.v[2] \in Int /\ p.v[3] \in Int
      /\ q.w \in Int /\ q.v[1] \in Int /\ q.v[2] \in Int /\ q.v[3] \in Int
      /\ r.w \in Int /\ r.v[1] \in Int /\ r.v[2] \in Int /\ r.v[3] \in Int
      /\ g \in Int
  BY <1>0, QuaternionType
<1>. HIDE DEF r, a, b, c, n, m, k
<1>4. RowsMultiplied(p.w, p.v[1], p.v[2], p.v[3], q.w, q.v[1], q.v[2], q.v[3],
                     g, r.w, r.v[1], r.v[2], r.v[3])
  BY <1>1, <1>3, RowsOfProduct, Zenon
<1>5. RowsMultiplied(p.w, p.v[2], p.v[3], p.v[1], q.w, q.v[2], q.v[3], q.v[1],
                     g, r.w, r.v[2], r.v[3], r.v[1])
  BY <1>1, <1>3, RowsOfProduct, Zenon
<1>6. RowsMultiplied(p.w, p.v[3], p.v[1], p.v[2], q.w, q.v[3], q.v[1], q.v[2],
                     g, r.w, r.v[3], r.v[1], r.v[2])
  BY <1>1, <1>3, RowsOfProduct, Zenon
<1>7. /\ Entry(n, m, k, g, c[1][1], a[1][1], a[2][1], a[3][1], b[1][1], b[1][2], b[1][3])
      /\ Entry(n, m, k, g, c[2][1], a[1][1], a[2][1], a[3][1], b[2][1], b[2][2], b[2][3])
      /\ Entry(n, m, k, g, c[3][1], a[1][1], a[2][1], a[3][1], b[3][1], b[3][2], b[3][3])
  BY <1>1, <1>2, <1>4 DEF Entry, MatrixOf, RowsMultiplied
<1>8. /\ Entry(n, m, k, g, c[2][2], a[2][2], a[3][2], a[1][2], b[2][2], b[2][3], b[2][1])
      /\ Entry(n, m, k, g, c[3][2], a[2][2], a[3][2], a[1][2], b[3][2], b[3][3], b[3][1])
      /\ Entry(n, m, k, g, c[1][2], a[2][2], a[3][2], a[1][2], b[1][2], b[1][3], b[1][1])
  BY <1>1, <1>2, <1>5 DEF Entry, MatrixOf, RowsMultiplied
<1>9. /\ Entry(n, m, k, g, c[3][3], a[3][3], a[1][3], a[2][3], b[3][3], b[3][1], b[3][2])
      /\ Entry(n, m, k, g, c[1][3], a[3][3], a[1][3], a[2][3], b[1][3], b[1][1], b[1][2])
      /\ Entry(n, m, k, g, c[2][3], a[3][3], a[1][3], a[2][3], b[2][3], b[2][1], b[2][2])
  BY <1>1, <1>2, <1>6 DEF Entry, MatrixOf, RowsMultiplied
<1>10. /\ a[1][1] \in Int /\ a[1][2] \in Int /\ a[1][3] \in Int
       /\ a[2][1] \in Int /\ a[2][2] \in Int /\ a[2][3] \in Int
       /\ a[3][1] \in Int /\ a[3][2] \in Int /\ a[3][3] \in Int
       /\ b[1][1] \in Int /\ b[1][2] \in Int /\ b[1][3] \in Int
       /\ b[2][1] \in Int /\ b[2][2] \in Int /\ b[2][3] \in Int
       /\ b[3][1] \in Int /\ b[3][2] \in Int /\ b[3][3] \in Int
       /\ c[1][1] \in Int /\ c[1][2] \in Int /\ c[1][3] \in Int
       /\ c[2][1] \in Int /\ c[2][2] \in Int /\ c[2][3] \in Int
       /\ c[3][1] \in Int /\ c[3][2] \in Int /\ c[3][3] \in Int
  BY <1>2, MatrixType
<1>11. /\ SumOf(c[1][1], a[1][1], a[2][1], a[3][1], b[1][1], b[1][2], b[1][3])
       /\ SumOf(c[2][1], a[1][1], a[2][1], a[3][1], b[2][1], b[2][2], b[2][3])
       /\ SumOf(c[3][1], a[1][1], a[2][1], a[3][1], b[3][1], b[3][2], b[3][3])
  BY <1>7, <1>10, EntryDivided, Zenon
<1>12. /\ SumOf(c[1][2], a[1][2], a[2][2], a[3][2], b[1][1], b[1][2], b[1][3])
       /\ SumOf(c[2][2], a[1][2], a[2][2], a[3][2], b[2][1], b[2][2], b[2][3])
       /\ SumOf(c[3][2], a[1][2], a[2][2], a[3][2], b[3][1], b[3][2], b[3][3])
  <2>1. /\ SumOf(c[1][2], a[2][2], a[3][2], a[1][2], b[1][2], b[1][3], b[1][1])
        /\ SumOf(c[2][2], a[2][2], a[3][2], a[1][2], b[2][2], b[2][3], b[2][1])
        /\ SumOf(c[3][2], a[2][2], a[3][2], a[1][2], b[3][2], b[3][3], b[3][1])
    BY <1>8, <1>10, EntryDivided, Zenon
  <2>. QED  BY <1>10, <2>1 DEF SumOf
<1>13. /\ SumOf(c[1][3], a[1][3], a[2][3], a[3][3], b[1][1], b[1][2], b[1][3])
       /\ SumOf(c[2][3], a[1][3], a[2][3], a[3][3], b[2][1], b[2][2], b[2][3])
       /\ SumOf(c[3][3], a[1][3], a[2][3], a[3][3], b[3][1], b[3][2], b[3][3])
  <2>1. /\ SumOf(c[1][3], a[3][3], a[1][3], a[2][3], b[1][3], b[1][1], b[1][2])
        /\ SumOf(c[2][3], a[3][3], a[1][3], a[2][3], b[2][3], b[2][1], b[2][2])
        /\ SumOf(c[3][3], a[3][3], a[1][3], a[2][3], b[3][3], b[3][1], b[3][2])
    BY <1>9, <1>10, EntryDivided, Zenon
  <2>. QED  BY <1>10, <2>1 DEF SumOf
<1>14. \A i, j \in Axes : SumOf(c[i][j], a[1][j], a[2][j], a[3][j], b[i][1], b[i][2], b[i][3])
  BY <1>11, <1>12, <1>13 DEF Axes
<1>15. \A j \in Axes : c[j] = Turned(a, b[j])
  BY <1>2, <1>14, MatrixProduct
<1>. QED  BY <1>0, <1>15 DEF r, a, b, c

-----------------------------------------------------------------------------
(* The conjugate turns back: its matrix is the transposed one, which is    *)
(* the inverse.                                                            *)
LEMMA TransposedType ==
  ASSUME NEW m \in Matrices
  PROVE  /\ Transposed(m) \in Matrices
         /\ \A j, k \in Axes : Transposed(m)[j][k] = m[k][j]
         /\ Transposed(Transposed(m)) = m
<1>1. \A j, k \in Axes : Transposed(m)[j][k] = m[k][j]
  BY DEF Transposed
<1>2. \A j, k \in Axes : m[j][k] \in Int
  BY DEF Matrices, Vectors
<1>3. Transposed(m) \in Matrices
  BY <1>2 DEF Transposed, Matrices, Vectors
<1>4. \A k \in Axes : Transposed(Transposed(m))[k] = m[k]
  <2>. SUFFICES ASSUME NEW k \in Axes  PROVE Transposed(Transposed(m))[k] = m[k]
    OBVIOUS
  <2>1. Transposed(Transposed(m))[k] = [j \in Axes |-> m[k][j]]
    BY <1>1 DEF Transposed
  <2>2. m[k] = [j \in Axes |-> m[k][j]]
    BY DEF Matrices, Vectors
  <2>. QED  BY <2>1, <2>2
<1>5. Transposed(Transposed(m)) = [k \in Axes |-> Transposed(Transposed(m))[k]]
  BY DEF Transposed
<1>6. m = [k \in Axes |-> m[k]]
  BY DEF Matrices
<1>. QED  BY <1>1, <1>3, <1>4, <1>5, <1>6

LEMMA MatrixEquality ==
  ASSUME NEW m \in Matrices, NEW l \in Matrices,
         /\ m[1][1] = l[1][1] /\ m[1][2] = l[1][2] /\ m[1][3] = l[1][3]
         /\ m[2][1] = l[2][1] /\ m[2][2] = l[2][2] /\ m[2][3] = l[2][3]
         /\ m[3][1] = l[3][1] /\ m[3][2] = l[3][2] /\ m[3][3] = l[3][3]
  PROVE  m = l
<1>1. /\ m[1] \in Vectors /\ m[2] \in Vectors /\ m[3] \in Vectors
      /\ l[1] \in Vectors /\ l[2] \in Vectors /\ l[3] \in Vectors
  BY MatrixType
<1>2. m[1] = l[1] /\ m[2] = l[2] /\ m[3] = l[3]
  BY <1>1, VectorType
<1>. QED  BY <1>2 DEF Matrices, Axes

LEMMA Cancelled ==
  ASSUME NEW n \in {1, 2, 4}, NEW a \in Int, NEW b \in Int, n * a = n * b
  PROVE  a = b
OBVIOUS

RowsConjugated(w, x, y, z) ==
  /\ RowOwn(w, -x, -y, -z) = RowOwn(w, x, y, z)
  /\ RowNext(w, -x, -y, -z) = RowLast(w, y, z, x)
  /\ RowLast(w, -x, -y, -z) = RowNext(w, z, x, y)

LEMMA RowsOfConjugate ==
  ASSUME NEW w \in Int, NEW x \in Int, NEW y \in Int, NEW z \in Int
  PROVE  RowsConjugated(w, x, y, z)
BY DEF RowsConjugated, RowOwn, RowNext, RowLast

LEMMA ConjugateTurns ==
  ASSUME NEW q \in Quaternions
  PROVE  /\ Conjugate(q) \in Quaternions
         /\ AxesOf(Conjugate(q)) = Transposed(AxesOf(q))
<1>. DEFINE r == Conjugate(q)
            n == QuaternionDot(q, q)
            m == AxesOf(q)
            l == AxesOf(r)
<1>1. /\ q.w \in Int /\ q.v[1] \in Int /\ q.v[2] \in Int /\ q.v[3] \in Int
      /\ n \in {1, 2, 4}
      /\ \A k \in Axes : q.v[k] \in Int
  BY QuaternionType DEF Vectors
<1>2. /\ r.w = q.w
      /\ r.v[1] = -q.v[1] /\ r.v[2] = -q.v[2] /\ r.v[3] = -q.v[3]
      /\ r \in [w : Int, v : Vectors]
  BY <1>1 DEF Conjugate, Vectors, Axes
<1>3. QuaternionDot(r, r) = n
  BY <1>1, <1>2 DEF QuaternionDot, Dot
<1>4. r \in Quaternions
  BY <1>1, <1>2, <1>3 DEF Quaternions
<1>5. m \in Matrices /\ MatrixOf(m, q, n) /\ l \in Matrices /\ MatrixOf(l, r, n)
  BY <1>3, <1>4, AxesScaled
<1>. HIDE DEF r, n, m, l
<1>6. /\ RowsConjugated(q.w, q.v[1], q.v[2], q.v[3])
      /\ RowsConjugated(q.w, q.v[2], q.v[3], q.v[1])
      /\ RowsConjugated(q.w, q.v[3], q.v[1], q.v[2])
  BY <1>1, RowsOfConjugate, Zenon
<1>7. /\ n * l[1][1] = n * m[1][1] /\ n * l[2][1] = n * m[1][2] /\ n * l[3][1] = n * m[1][3]
      /\ n * l[1][2] = n * m[2][1] /\ n * l[2][2] = n * m[2][2] /\ n * l[3][2] = n * m[2][3]
      /\ n * l[1][3] = n * m[3][1] /\ n * l[2][3] = n * m[3][2] /\ n * l[3][3] = n * m[3][3]
  <2>1. /\ MatrixOf(m, q, n)
        /\ n * l[1][1] = RowOwn(q.w, -q.v[1], -q.v[2], -q.v[3])
        /\ n * l[2][1] = RowNext(q.w, -q.v[1], -q.v[2], -q.v[3])
        /\ n * l[3][1] = RowLast(q.w, -q.v[1], -q.v[2], -q.v[3])
        /\ n * l[2][2] = RowOwn(q.w, -q.v[2], -q.v[3], -q.v[1])
        /\ n * l[3][2] = RowNext(q.w, -q.v[2], -q.v[3], -q.v[1])
        /\ n * l[1][2] = RowLast(q.w, -q.v[2], -q.v[3], -q.v[1])
        /\ n * l[3][3] = RowOwn(q.w, -q.v[3], -q.v[1], -q.v[2])
        /\ n * l[1][3] = RowNext(q.w, -q.v[3], -q.v[1], -q.v[2])
        /\ n * l[2][3] = RowLast(q.w, -q.v[3], -q.v[1], -q.v[2])
    BY <1>2, <1>5 DEF MatrixOf
  <2>. QED  BY <1>6, <2>1 DEF MatrixOf, RowsConjugated
<1>8. /\ l[1][1] = m[1][1] /\ l[2][1] = m[1][2] /\ l[3][1] = m[1][3]
      /\ l[1][2] = m[2][1] /\ l[2][2] = m[2][2] /\ l[3][2] = m[2][3]
      /\ l[1][3] = m[3][1] /\ l[2][3] = m[3][2] /\ l[3][3] = m[3][3]
  BY <1>1, <1>5, <1>7, MatrixType, Cancelled
<1>9. Transposed(m) \in Matrices /\ \A j, k \in Axes : Transposed(m)[j][k] = m[k][j]
  BY <1>5, TransposedType
<1>10. l = Transposed(m)
  BY <1>5, <1>8, <1>9, MatrixEquality DEF Axes
<1>. QED  BY <1>4, <1>10 DEF r, m, l

(* The rows of a quaternion's matrix are of length one and square to each  *)
(* other.                                                                  *)
RowsOrthonormal(w, x, y, z) ==
  /\ RowOwn(w, x, y, z) * RowOwn(w, x, y, z) + RowNext(w, x, y, z) * RowNext(w, x, y, z)
       + RowLast(w, x, y, z) * RowLast(w, x, y, z)
     = Squared(w, x, y, z) * Squared(w, x, y, z)
  /\ RowOwn(w, x, y, z) * RowLast(w, y, z, x) + RowNext(w, x, y, z) * RowOwn(w, y, z, x)
       + RowLast(w, x, y, z) * RowNext(w, y, z, x)
     = 0

LEMMA RowsOfQuaternion ==
  ASSUME NEW w \in Int, NEW x \in Int, NEW y \in Int, NEW z \in Int
  PROVE  RowsOrthonormal(w, x, y, z)
BY DEF RowsOrthonormal, RowOwn, RowNext, RowLast, Squared

Inner(n, d, a1, a2, a3, b1, b2, b3) ==
  /\ n \in {1, 2, 4}
  /\ (n * a1) * (n * b1) + (n * a2) * (n * b2) + (n * a3) * (n * b3) = (n * n) * d

LEMMA InnerDivided ==
  ASSUME NEW n, NEW d \in Int, NEW a1 \in Int, NEW a2 \in Int, NEW a3 \in Int,
         NEW b1 \in Int, NEW b2 \in Int, NEW b3 \in Int,
         Inner(n, d, a1, a2, a3, b1, b2, b3)
  PROVE  SumOf(d, a1, a2, a3, b1, b2, b3)
<1>. n \in {1, 2, 4}
  BY DEF Inner
<1>. DEFINE s == a1 * b1 + a2 * b2 + a3 * b3
<1>1. (n * n) * s = (n * n) * d
  BY DEF Inner
<1>2. s \in Int
  OBVIOUS
<1>. HIDE DEF s
<1>3. n * n \in {1, 4, 16}
  OBVIOUS
<1>4. s = d
  BY <1>1, <1>2, <1>3
<1>. QED  BY <1>4 DEF SumOf, s

Orthonormal(m) ==
  /\ SumOf(1, m[1][1], m[2][1], m[3][1], m[1][1], m[2][1], m[3][1])
  /\ SumOf(1, m[1][2], m[2][2], m[3][2], m[1][2], m[2][2], m[3][2])
  /\ SumOf(1, m[1][3], m[2][3], m[3][3], m[1][3], m[2][3], m[3][3])
  /\ SumOf(0, m[1][1], m[2][1], m[3][1], m[1][2], m[2][2], m[3][2])
  /\ SumOf(0, m[1][2], m[2][2], m[3][2], m[1][3], m[2][3], m[3][3])
  /\ SumOf(0, m[1][3], m[2][3], m[3][3], m[1][1], m[2][1], m[3][1])

LEMMA AxesOrthonormal ==
  ASSUME NEW q \in Quaternions
  PROVE  Orthonormal(AxesOf(q))
<1>. DEFINE m == AxesOf(q)
            n == QuaternionDot(q, q)
            w == q.w
            x == q.v[1]
            y == q.v[2]
            z == q.v[3]
<1>1. /\ w \in Int /\ x \in Int /\ y \in Int /\ z \in Int
      /\ n \in {1, 2, 4} /\ n = Squared(w, x, y, z)
  BY QuaternionType DEF Squared
<1>2. n = Squared(w, y, z, x) /\ n = Squared(w, z, x, y)
  BY <1>1 DEF Squared
<1>3. m \in Matrices /\ MatrixOf(m, q, n)
  BY AxesScaled
<1>. HIDE DEF m, n, w, x, y, z
<1>4. RowsOrthonormal(w, x, y, z) /\ RowsOrthonormal(w, y, z, x) /\ RowsOrthonormal(w, z, x, y)
  BY <1>1, RowsOfQuaternion, Zenon
<1>5. /\ n * m[1][1] = RowOwn(w, x, y, z) /\ n * m[2][1] = RowNext(w, x, y, z)
      /\ n * m[3][1] = RowLast(w, x, y, z)
      /\ n * m[2][2] = RowOwn(w, y, z, x) /\ n * m[3][2] = RowNext(w, y, z, x)
      /\ n * m[1][2] = RowLast(w, y, z, x)
      /\ n * m[3][3] = RowOwn(w, z, x, y) /\ n * m[1][3] = RowNext(w, z, x, y)
      /\ n * m[2][3] = RowLast(w, z, x, y)
  BY <1>3 DEF MatrixOf, w, x, y, z
<1>6. n * n \in Int /\ (n * n) * 1 = n * n /\ (n * n) * 0 = 0
  BY <1>1
<1>7. /\ m[1][1] \in Int /\ m[1][2] \in Int /\ m[1][3] \in Int
      /\ m[2][1] \in Int /\ m[2][2] \in Int /\ m[2][3] \in Int
      /\ m[3][1] \in Int /\ m[3][2] \in Int /\ m[3][3] \in Int
  BY <1>3, MatrixType
<1>8. /\ (n * m[1][1]) * (n * m[1][1]) + (n * m[2][1]) * (n * m[2][1])
           + (n * m[3][1]) * (n * m[3][1]) = (n * n) * 1
      /\ (n * m[2][2]) * (n * m[2][2]) + (n * m[3][2]) * (n * m[3][2])
           + (n * m[1][2]) * (n * m[1][2]) = (n * n) * 1
      /\ (n * m[3][3]) * (n * m[3][3]) + (n * m[1][3]) * (n * m[1][3])
           + (n * m[2][3]) * (n * m[2][3]) = (n * n) * 1
  BY <1>1, <1>2, <1>4, <1>5, <1>6 DEF RowsOrthonormal
<1>9. /\ (n * m[1][1]) * (n * m[1][2]) + (n * m[2][1]) * (n * m[2][2])
           + (n * m[3][1]) * (n * m[3][2]) = (n * n) * 0
      /\ (n * m[2][2]) * (n * m[2][3]) + (n * m[3][2]) * (n * m[3][3])
           + (n * m[1][2]) * (n * m[1][3]) = (n * n) * 0
      /\ (n * m[3][3]) * (n * m[3][1]) + (n * m[1][3]) * (n * m[1][1])
           + (n * m[2][3]) * (n * m[2][1]) = (n * n) * 0
  BY <1>1, <1>2, <1>4, <1>5, <1>6 DEF RowsOrthonormal
<1>10. /\ SumOf(1, m[1][1], m[2][1], m[3][1], m[1][1], m[2][1], m[3][1])
       /\ SumOf(1, m[2][2], m[3][2], m[1][2], m[2][2], m[3][2], m[1][2])
       /\ SumOf(1, m[3][3], m[1][3], m[2][3], m[3][3], m[1][3], m[2][3])
       /\ SumOf(0, m[1][1], m[2][1], m[3][1], m[1][2], m[2][2], m[3][2])
       /\ SumOf(0, m[2][2], m[3][2], m[1][2], m[2][3], m[3][3], m[1][3])
       /\ SumOf(0, m[3][3], m[1][3], m[2][3], m[3][1], m[1][1], m[2][1])
  <2>1. 0 \in Int /\ 1 \in Int
    OBVIOUS
  <2>. QED  BY <1>1, <1>7, <1>8, <1>9, <2>1, InnerDivided, Zenon DEF Inner
<1>11. Orthonormal(m)
  BY <1>7, <1>10 DEF Orthonormal, SumOf
<1>. QED  BY <1>11 DEF m

LEMMA SumReversed ==
  ASSUME NEW d, NEW a1 \in Int, NEW a2 \in Int, NEW a3 \in Int,
         NEW b1 \in Int, NEW b2 \in Int, NEW b3 \in Int,
         SumOf(d, a1, a2, a3, b1, b2, b3)
  PROVE  SumOf(d, b1, b2, b3, a1, a2, a3)
BY DEF SumOf

(* One component of what is turned there and back. *)
Turns(o, v1, v2, v3, r, s, t, a1, a2, a3, b1, b2, b3, c1, c2, c3, d1, d2, d3, e1, e2, e3) ==
  /\ SumOf(o, v1, v2, v3, d1, d2, d3)
  /\ SumOf(v1, r, s, t, a1, b1, c1)
  /\ SumOf(v2, r, s, t, a2, b2, c2)
  /\ SumOf(v3, r, s, t, a3, b3, c3)
  /\ SumOf(e1, a1, a2, a3, d1, d2, d3)
  /\ SumOf(e2, b1, b2, b3, d1, d2, d3)
  /\ SumOf(e3, c1, c2, c3, d1, d2, d3)

LEMMA ThereAndBack ==
  ASSUME NEW o, NEW v1, NEW v2, NEW v3, NEW e1, NEW e2, NEW e3,
         NEW r \in Int, NEW s \in Int, NEW t \in Int,
         NEW a1 \in Int, NEW a2 \in Int, NEW a3 \in Int,
         NEW b1 \in Int, NEW b2 \in Int, NEW b3 \in Int,
         NEW c1 \in Int, NEW c2 \in Int, NEW c3 \in Int,
         NEW d1 \in Int, NEW d2 \in Int, NEW d3 \in Int,
         Turns(o, v1, v2, v3, r, s, t, a1, a2, a3, b1, b2, b3, c1, c2, c3, d1, d2, d3,
               e1, e2, e3)
  PROVE  SumOf(o, r, s, t, e1, e2, e3)
BY DEF SumOf, Turns

LEMMA TurnedBack ==
  ASSUME NEW m \in Matrices, Orthonormal(m), NEW u \in Vectors
  PROVE  Turned(m, Turned(Transposed(m), u)) = u
<1>. DEFINE l == Transposed(m)
            v == Turned(l, u)
            o == Turned(m, v)
<1>1. l \in Matrices /\ v \in Vectors /\ o \in Vectors
  BY TransposedType, TurnedType
<1>2. /\ SumOf(v[1], u[1], u[2], u[3], m[1][1], m[1][2], m[1][3])
      /\ SumOf(v[2], u[1], u[2], u[3], m[2][1], m[2][2], m[2][3])
      /\ SumOf(v[3], u[1], u[2], u[3], m[3][1], m[3][2], m[3][3])
  BY <1>1, TurnedType, TransposedType DEF Axes, SumOf
<1>3. /\ SumOf(o[1], v[1], v[2], v[3], m[1][1], m[2][1], m[3][1])
      /\ SumOf(o[2], v[1], v[2], v[3], m[1][2], m[2][2], m[3][2])
      /\ SumOf(o[3], v[1], v[2], v[3], m[1][3], m[2][3], m[3][3])
  BY <1>1, TurnedType DEF Axes, SumOf
<1>4. /\ m[1][1] \in Int /\ m[1][2] \in Int /\ m[1][3] \in Int
      /\ m[2][1] \in Int /\ m[2][2] \in Int /\ m[2][3] \in Int
      /\ m[3][1] \in Int /\ m[3][2] \in Int /\ m[3][3] \in Int
      /\ u[1] \in Int /\ u[2] \in Int /\ u[3] \in Int
  BY MatrixType, VectorType
<1>. HIDE DEF l, v, o
<1>5. /\ SumOf(0, m[1][2], m[2][2], m[3][2], m[1][1], m[2][1], m[3][1])
      /\ SumOf(0, m[1][3], m[2][3], m[3][3], m[1][2], m[2][2], m[3][2])
      /\ SumOf(0, m[1][1], m[2][1], m[3][1], m[1][3], m[2][3], m[3][3])
  BY <1>4, SumReversed, Zenon DEF Orthonormal
<1>7. SumOf(o[1], u[1], u[2], u[3], 1, 0, 0)
  <2>1. /\ SumOf(o[1], v[1], v[2], v[3], m[1][1], m[2][1], m[3][1])
        /\ SumOf(1, m[1][1], m[2][1], m[3][1], m[1][1], m[2][1], m[3][1])
        /\ SumOf(0, m[1][2], m[2][2], m[3][2], m[1][1], m[2][1], m[3][1])
        /\ SumOf(0, m[1][3], m[2][3], m[3][3], m[1][1], m[2][1], m[3][1])
    BY <1>3, <1>5 DEF Orthonormal
  <2>2. Turns(o[1], v[1], v[2], v[3], u[1], u[2], u[3],
              m[1][1], m[2][1], m[3][1], m[1][2], m[2][2], m[3][2], m[1][3], m[2][3], m[3][3],
              m[1][1], m[2][1], m[3][1], 1, 0, 0)
    BY <1>2, <2>1, Zenon DEF Turns
  <2>. QED  BY <1>4, <2>2, ThereAndBack, Zenon
<1>8. SumOf(o[2], u[1], u[2], u[3], 0, 1, 0)
  <2>1. /\ SumOf(o[2], v[1], v[2], v[3], m[1][2], m[2][2], m[3][2])
        /\ SumOf(0, m[1][1], m[2][1], m[3][1], m[1][2], m[2][2], m[3][2])
        /\ SumOf(1, m[1][2], m[2][2], m[3][2], m[1][2], m[2][2], m[3][2])
        /\ SumOf(0, m[1][3], m[2][3], m[3][3], m[1][2], m[2][2], m[3][2])
    BY <1>3, <1>5 DEF Orthonormal
  <2>2. Turns(o[2], v[1], v[2], v[3], u[1], u[2], u[3],
              m[1][1], m[2][1], m[3][1], m[1][2], m[2][2], m[3][2], m[1][3], m[2][3], m[3][3],
              m[1][2], m[2][2], m[3][2], 0, 1, 0)
    BY <1>2, <2>1, Zenon DEF Turns
  <2>. QED  BY <1>4, <2>2, ThereAndBack, Zenon
<1>9. SumOf(o[3], u[1], u[2], u[3], 0, 0, 1)
  <2>1. /\ SumOf(o[3], v[1], v[2], v[3], m[1][3], m[2][3], m[3][3])
        /\ SumOf(0, m[1][1], m[2][1], m[3][1], m[1][3], m[2][3], m[3][3])
        /\ SumOf(0, m[1][2], m[2][2], m[3][2], m[1][3], m[2][3], m[3][3])
        /\ SumOf(1, m[1][3], m[2][3], m[3][3], m[1][3], m[2][3], m[3][3])
    BY <1>3, <1>5 DEF Orthonormal
  <2>2. Turns(o[3], v[1], v[2], v[3], u[1], u[2], u[3],
              m[1][1], m[2][1], m[3][1], m[1][2], m[2][2], m[3][2], m[1][3], m[2][3], m[3][3],
              m[1][3], m[2][3], m[3][3], 0, 0, 1)
    BY <1>2, <2>1, Zenon DEF Turns
  <2>. QED  BY <1>4, <2>2, ThereAndBack, Zenon
<1>10. o[1] = u[1] /\ o[2] = u[2] /\ o[3] = u[3]
  BY <1>4, <1>7, <1>8, <1>9 DEF SumOf
<1>11. o = u
  BY <1>1, <1>10, VectorType
<1>. QED  BY <1>11 DEF o, v, l

LEMMA RotatedBack ==
  ASSUME NEW q \in Quaternions, NEW u \in Vectors
  PROVE  /\ Turned(AxesOf(q), Turned(Transposed(AxesOf(q)), u)) = u
         /\ Turned(Transposed(AxesOf(q)), Turned(AxesOf(q), u)) = u
<1>1. AxesOf(q) \in Matrices /\ Orthonormal(AxesOf(q))
  BY AxesScaled, AxesOrthonormal
<1>2. Transposed(AxesOf(q)) \in Matrices /\ Orthonormal(Transposed(AxesOf(q)))
  BY ConjugateTurns, AxesScaled, AxesOrthonormal
<1>3. Transposed(Transposed(AxesOf(q))) = AxesOf(q)
  BY <1>1, TransposedType
<1>. QED  BY <1>1, <1>2, <1>3, TurnedBack

-----------------------------------------------------------------------------
(* The identity.                                                           *)
LEMMA OneTurnsNothing ==
  /\ One \in Quaternions /\ Zero \in Vectors
  /\ AxesOf(One) = Still.axes
  /\ QuaternionDot(One, One) = 1
<1>1. One.w = 1 /\ One.v \in Vectors /\ One.v[1] = 0 /\ One.v[2] = 0 /\ One.v[3] = 0
  BY VectorType DEF One, Zero
<1>2. QuaternionDot(One, One) = 1
  BY <1>1 DEF QuaternionDot, Dot
<1>3. One \in Quaternions
  BY <1>1, <1>2 DEF Quaternions, One
<1>4. AxesOf(One) \in Matrices /\ MatrixOf(AxesOf(One), One, 1)
  BY <1>2, <1>3, AxesScaled
<1>5. /\ RowOwn(1, 0, 0, 0) = 1 /\ RowNext(1, 0, 0, 0) = 0 /\ RowLast(1, 0, 0, 0) = 0
  BY DEF RowOwn, RowNext, RowLast
<1>6. Still.axes = [k \in Axes |-> Unit(k)]
  BY DEF Still
<1>7. Still.axes \in Matrices
  BY <1>6, UnitType DEF Matrices
<1>8. /\ Still.axes[1] = Unit(1) /\ Still.axes[2] = Unit(2) /\ Still.axes[3] = Unit(3)
  BY <1>6 DEF Axes
<1>9. AxesOf(One) = Still.axes
  <2>. DEFINE m == AxesOf(One)
  <2>1. /\ m[1][1] \in Int /\ m[1][2] \in Int /\ m[1][3] \in Int
        /\ m[2][1] \in Int /\ m[2][2] \in Int /\ m[2][3] \in Int
        /\ m[3][1] \in Int /\ m[3][2] \in Int /\ m[3][3] \in Int
    BY <1>4, MatrixType
  <2>2. /\ 1 * m[1][1] = 1 /\ 1 * m[2][1] = 0 /\ 1 * m[3][1] = 0
        /\ 1 * m[2][2] = 1 /\ 1 * m[3][2] = 0 /\ 1 * m[1][2] = 0
        /\ 1 * m[3][3] = 1 /\ 1 * m[1][3] = 0 /\ 1 * m[2][3] = 0
    BY <1>1, <1>4, <1>5 DEF MatrixOf
  <2>. HIDE DEF m
  <2>3. /\ m[1][1] = 1 /\ m[2][1] = 0 /\ m[3][1] = 0
        /\ m[2][2] = 1 /\ m[3][2] = 0 /\ m[1][2] = 0
        /\ m[3][3] = 1 /\ m[1][3] = 0 /\ m[2][3] = 0
    BY <2>1, <2>2
  <2>4. m = Still.axes
    BY <1>4, <1>7, <1>8, <2>3, UnitType, MatrixEquality DEF m
  <2>. QED  BY <2>4 DEF m
<1>. QED  BY <1>1, <1>2, <1>3, <1>9, VectorType DEF Zero

-----------------------------------------------------------------------------
(* Angles.  Four times the squared cosine of half the angle between two    *)
(* quaternions is one and the trace of the turn from one to the other.     *)
DotByRows(w, x, y, z, a, b, c, d) ==
  4 * (w*a + (x*b + y*c + z*d)) * (w*a + (x*b + y*c + z*d))
    = Squared(w, x, y, z) * Squared(a, b, c, d)
      + (RowOwn(w, x, y, z) * RowOwn(a, b, c, d)
          + RowNext(w, x, y, z) * RowNext(a, b, c, d)
          + RowLast(w, x, y, z) * RowLast(a, b, c, d))
      + (RowOwn(w, y, z, x) * RowOwn(a, c, d, b)
          + RowNext(w, y, z, x) * RowNext(a, c, d, b)
          + RowLast(w, y, z, x) * RowLast(a, c, d, b))
      + (RowOwn(w, z, x, y) * RowOwn(a, d, b, c)
          + RowNext(w, z, x, y) * RowNext(a, d, b, c)
          + RowLast(w, z, x, y) * RowLast(a, d, b, c))

LEMMA DotOfQuaternions ==
  ASSUME NEW w \in Int, NEW x \in Int, NEW y \in Int, NEW z \in Int,
         NEW a \in Int, NEW b \in Int, NEW c \in Int, NEW d \in Int
  PROVE  DotByRows(w, x, y, z, a, b, c, d)
BY DEF DotByRows, Squared, RowOwn, RowNext, RowLast

(* The square of a product of quaternions is at most the product of their  *)
(* squares.                                                                *)
DotAtMost(w, x, y, z, a, b, c, d) ==
  (w*a + (x*b + y*c + z*d)) * (w*a + (x*b + y*c + z*d))
    <= Squared(w, x, y, z) * Squared(a, b, c, d)

LEMMA DotBounded ==
  ASSUME NEW w \in Int, NEW x \in Int, NEW y \in Int, NEW z \in Int,
         NEW a \in Int, NEW b \in Int, NEW c \in Int, NEW d \in Int
  PROVE  DotAtMost(w, x, y, z, a, b, c, d)
<1>. DEFINE e == w*b - x*a
            f == w*c - y*a
            g == w*d - z*a
            h == x*c - y*b
            i == x*d - z*b
            j == y*d - z*c
<1>1. Squared(w, x, y, z) * Squared(a, b, c, d)
        = (w*a + (x*b + y*c + z*d)) * (w*a + (x*b + y*c + z*d))
          + (e*e + f*f + g*g + h*h + i*i + j*j)
  BY DEF Squared
<1>2. e \in Int /\ f \in Int /\ g \in Int /\ h \in Int /\ i \in Int /\ j \in Int
  OBVIOUS
<1>. HIDE DEF e, f, g, h, i, j
<1>3. e*e >= 0 /\ f*f >= 0 /\ g*g >= 0 /\ h*h >= 0 /\ i*i >= 0 /\ j*j >= 0
  BY <1>2
<1>4. e*e + f*f + g*g + h*h + i*i + j*j \in Nat
  BY <1>2, <1>3
<1>. DEFINE dot == (w*a + (x*b + y*c + z*d)) * (w*a + (x*b + y*c + z*d))
<1>5. dot \in Int
  OBVIOUS
<1>. HIDE DEF dot
<1>6. dot <= dot + (e*e + f*f + g*g + h*h + i*i + j*j)
  BY <1>4, <1>5
<1>. QED  BY <1>1, <1>6 DEF DotAtMost, dot

(* The entries of the turn from one matrix to another, summed.             *)
TraceBetween(a, b) ==
  (a[1][1] * b[1][1] + a[2][1] * b[2][1] + a[3][1] * b[3][1])
    + (a[1][2] * b[1][2] + a[2][2] * b[2][2] + a[3][2] * b[3][2])
    + (a[1][3] * b[1][3] + a[2][3] * b[2][3] + a[3][3] * b[3][3])

Scaled(n, m, r, s) == (n * r) * (m * s) = (n * m) * (r * s)

LEMMA BothScaled ==
  ASSUME NEW n \in Int, NEW m \in Int, NEW r \in Int, NEW s \in Int
  PROVE  Scaled(n, m, r, s)
BY DEF Scaled

LEMMA TraceType ==
  ASSUME NEW a \in Matrices, NEW b \in Matrices
  PROVE  TraceBetween(a, b) \in Int
BY MatrixType DEF TraceBetween

TraceSum(n, m, a, b) ==
  n * m + ((n * a[1][1]) * (m * b[1][1]) + (n * a[2][1]) * (m * b[2][1])
             + (n * a[3][1]) * (m * b[3][1]))
        + ((n * a[2][2]) * (m * b[2][2]) + (n * a[3][2]) * (m * b[3][2])
             + (n * a[1][2]) * (m * b[1][2]))
        + ((n * a[3][3]) * (m * b[3][3]) + (n * a[1][3]) * (m * b[1][3])
             + (n * a[2][3]) * (m * b[2][3]))

LEMMA TraceDivided ==
  ASSUME NEW n \in {1, 2, 4}, NEW m \in {1, 2, 4}, NEW a \in Matrices, NEW b \in Matrices
  PROVE  TraceSum(n, m, a, b) = (n * m) * (1 + TraceBetween(a, b))
<1>1. /\ a[1][1] \in Int /\ a[1][2] \in Int /\ a[1][3] \in Int
      /\ a[2][1] \in Int /\ a[2][2] \in Int /\ a[2][3] \in Int
      /\ a[3][1] \in Int /\ a[3][2] \in Int /\ a[3][3] \in Int
      /\ b[1][1] \in Int /\ b[1][2] \in Int /\ b[1][3] \in Int
      /\ b[2][1] \in Int /\ b[2][2] \in Int /\ b[2][3] \in Int
      /\ b[3][1] \in Int /\ b[3][2] \in Int /\ b[3][3] \in Int
  BY MatrixType
<1>. DEFINE N == n * m
            t11 == a[1][1] * b[1][1]
            t21 == a[2][1] * b[2][1]
            t31 == a[3][1] * b[3][1]
            t12 == a[1][2] * b[1][2]
            t22 == a[2][2] * b[2][2]
            t32 == a[3][2] * b[3][2]
            t13 == a[1][3] * b[1][3]
            t23 == a[2][3] * b[2][3]
            t33 == a[3][3] * b[3][3]
<1>2. /\ t11 \in Int /\ t21 \in Int /\ t31 \in Int
      /\ t12 \in Int /\ t22 \in Int /\ t32 \in Int
      /\ t13 \in Int /\ t23 \in Int /\ t33 \in Int
  BY <1>1
<1>3. /\ (n * a[1][1]) * (m * b[1][1]) = N * t11
      /\ (n * a[2][1]) * (m * b[2][1]) = N * t21
      /\ (n * a[3][1]) * (m * b[3][1]) = N * t31
      /\ (n * a[1][2]) * (m * b[1][2]) = N * t12
      /\ (n * a[2][2]) * (m * b[2][2]) = N * t22
      /\ (n * a[3][2]) * (m * b[3][2]) = N * t32
      /\ (n * a[1][3]) * (m * b[1][3]) = N * t13
      /\ (n * a[2][3]) * (m * b[2][3]) = N * t23
      /\ (n * a[3][3]) * (m * b[3][3]) = N * t33
  <2>1. n \in Int /\ m \in Int
    OBVIOUS
  <2>2. /\ Scaled(n, m, a[1][1], b[1][1])
        /\ Scaled(n, m, a[2][1], b[2][1])
        /\ Scaled(n, m, a[3][1], b[3][1])
        /\ Scaled(n, m, a[1][2], b[1][2])
        /\ Scaled(n, m, a[2][2], b[2][2])
        /\ Scaled(n, m, a[3][2], b[3][2])
        /\ Scaled(n, m, a[1][3], b[1][3])
        /\ Scaled(n, m, a[2][3], b[2][3])
        /\ Scaled(n, m, a[3][3], b[3][3])
    BY <1>1, <2>1, BothScaled, Zenon
  <2>. QED  BY <2>2 DEF Scaled
<1>4. N \in Int
  OBVIOUS
<1>5. TraceBetween(a, b) = (t11 + t21 + t31) + (t12 + t22 + t32) + (t13 + t23 + t33)
  BY DEF TraceBetween
<1>. HIDE DEF N, t11, t21, t31, t12, t22, t32, t13, t23, t33
<1>6. N + (N * t11 + N * t21 + N * t31) + (N * t22 + N * t32 + N * t12)
        + (N * t33 + N * t13 + N * t23)
        = N * (1 + ((t11 + t21 + t31) + (t12 + t22 + t32) + (t13 + t23 + t33)))
  BY <1>2, <1>4
<1>. QED  BY <1>3, <1>5, <1>6 DEF N, TraceSum

LEMMA HalfAngle ==
  ASSUME NEW p \in Quaternions, NEW q \in Quaternions
  PROVE  LET dot == QuaternionDot(p, q)
             half == (4 * dot * dot) \div (QuaternionDot(p, p) * QuaternionDot(q, q))
         IN  half = 1 + TraceBetween(AxesOf(p), AxesOf(q)) /\ half \in 0..4
<1>. DEFINE w == p.w
            x == p.v[1]
            y == p.v[2]
            z == p.v[3]
            e == q.w
            b == q.v[1]
            c == q.v[2]
            d == q.v[3]
            n == QuaternionDot(p, p)
            m == QuaternionDot(q, q)
            l == AxesOf(p)
            k == AxesOf(q)
            dot == QuaternionDot(p, q)
            trace == TraceBetween(l, k)
<1>1. /\ w \in Int /\ x \in Int /\ y \in Int /\ z \in Int
      /\ e \in Int /\ b \in Int /\ c \in Int /\ d \in Int
      /\ n \in {1, 2, 4} /\ n = Squared(w, x, y, z)
      /\ m \in {1, 2, 4} /\ m = Squared(e, b, c, d)
  BY QuaternionType DEF Squared
<1>2. dot = w*e + (x*b + y*c + z*d)
  BY DEF QuaternionDot, Dot
<1>3. /\ l \in Matrices /\ MatrixOf(l, p, n)
      /\ k \in Matrices /\ MatrixOf(k, q, m)
  BY AxesScaled
<1>4. trace \in Int
  BY <1>3, TraceType
<1>5. /\ n * l[1][1] = RowOwn(w, x, y, z) /\ n * l[2][1] = RowNext(w, x, y, z)
      /\ n * l[3][1] = RowLast(w, x, y, z)
      /\ n * l[2][2] = RowOwn(w, y, z, x) /\ n * l[3][2] = RowNext(w, y, z, x)
      /\ n * l[1][2] = RowLast(w, y, z, x)
      /\ n * l[3][3] = RowOwn(w, z, x, y) /\ n * l[1][3] = RowNext(w, z, x, y)
      /\ n * l[2][3] = RowLast(w, z, x, y)
  BY <1>3 DEF MatrixOf
<1>6. /\ m * k[1][1] = RowOwn(e, b, c, d) /\ m * k[2][1] = RowNext(e, b, c, d)
      /\ m * k[3][1] = RowLast(e, b, c, d)
      /\ m * k[2][2] = RowOwn(e, c, d, b) /\ m * k[3][2] = RowNext(e, c, d, b)
      /\ m * k[1][2] = RowLast(e, c, d, b)
      /\ m * k[3][3] = RowOwn(e, d, b, c) /\ m * k[1][3] = RowNext(e, d, b, c)
      /\ m * k[2][3] = RowLast(e, d, b, c)
  BY <1>3 DEF MatrixOf
<1>. HIDE DEF w, x, y, z, e, b, c, d, n, m, l, k, dot, trace
<1>7. DotByRows(w, x, y, z, e, b, c, d)
  BY <1>1, DotOfQuaternions, Zenon
<1>8. 4 * dot * dot = TraceSum(n, m, l, k)
  BY <1>1, <1>2, <1>5, <1>6, <1>7 DEF DotByRows, TraceSum
<1>9. 4 * dot * dot = (n * m) * (1 + trace)
  BY <1>1, <1>3, <1>8, TraceDivided DEF trace
<1>10. dot * dot <= n * m /\ dot \in Int
  <2>1. DotAtMost(w, x, y, z, e, b, c, d)
    BY <1>1, DotBounded, Zenon
  <2>. QED  BY <1>1, <1>2, <2>1 DEF DotAtMost
<1>11. n * m \in {1, 2, 4, 8, 16}
  BY <1>1
<1>12. ASSUME NEW s \in Int, NEW N \in {1, 2, 4, 8, 16}, NEW t \in Int,
              s >= 0, s <= N, 4 * s = N * (1 + t)
       PROVE  (4 * s) \div N = 1 + t /\ 1 + t \in 0..4
  BY <1>12
<1>13. dot * dot \in Int /\ dot * dot >= 0 /\ 4 * dot * dot = 4 * (dot * dot)
  BY <1>10
<1>14. (4 * dot * dot) \div (n * m) = 1 + trace /\ 1 + trace \in 0..4
  BY <1>4, <1>9, <1>10, <1>11, <1>12, <1>13
<1>. QED  BY <1>14 DEF n, m, l, k, dot, trace

Angles == <<180, 120, 90, 90, 0>>

LEMMA AngleByTrace ==
  ASSUME NEW p \in Quaternions, NEW q \in Quaternions
  PROVE  /\ AngleBetween(p, q) = Angles[TraceBetween(AxesOf(p), AxesOf(q)) + 2]
         /\ TraceBetween(AxesOf(p), AxesOf(q)) \in -1..3
<1>. DEFINE dot == QuaternionDot(p, q)
            half == (4 * dot * dot) \div (QuaternionDot(p, p) * QuaternionDot(q, q))
            trace == TraceBetween(AxesOf(p), AxesOf(q))
<1>1. AngleBetween(p, q) = Angles[half + 1]
  BY DEF AngleBetween, Angles
<1>2. half = 1 + trace /\ half \in 0..4
  BY HalfAngle
<1>3. trace \in Int
  <2>1. AxesOf(p) \in Matrices /\ AxesOf(q) \in Matrices
    BY AxesScaled
  <2>. QED  BY <2>1, TraceType
<1>. HIDE DEF half, trace
<1>4. half + 1 = trace + 2 /\ trace \in -1..3
  BY <1>2, <1>3
<1>. QED  BY <1>1, <1>4 DEF trace

(***************************************************************************)
(* The angle the code finds between two quaternions, by their product, is  *)
(* that of the rotation from the one to the other, by its trace            *)
(* (rigid_transform.cpp:206).                                              *)
(***************************************************************************)
THEOREM AngleOfTurn ==
  ASSUME NEW p \in Quaternions, NEW q \in Quaternions, NEW axes,
         \A k \in Axes : axes[k] = Turned(Transposed(AxesOf(p)), AxesOf(q)[k])
  PROVE  AngleBetween(p, q) = AngleOf(axes) /\ AngleOf(axes) \in Nat
<1>. DEFINE a == AxesOf(p)
            b == AxesOf(q)
            l == Transposed(a)
<1>1. a \in Matrices /\ b \in Matrices
  BY AxesScaled
<1>2. l \in Matrices /\ \A j, k \in Axes : l[j][k] = a[k][j]
  BY <1>1, TransposedType
<1>3. b[1] \in Vectors /\ b[2] \in Vectors /\ b[3] \in Vectors
  BY <1>1, MatrixType
<1>. HIDE DEF a, b, l
<1>4. /\ axes[1][1] = b[1][1] * l[1][1] + b[1][2] * l[2][1] + b[1][3] * l[3][1]
      /\ axes[2][2] = b[2][1] * l[1][2] + b[2][2] * l[2][2] + b[2][3] * l[3][2]
      /\ axes[3][3] = b[3][1] * l[1][3] + b[3][2] * l[2][3] + b[3][3] * l[3][3]
  BY <1>2, <1>3, TurnedType DEF Axes, a, b, l
<1>5. /\ axes[1][1] = b[1][1] * a[1][1] + b[1][2] * a[1][2] + b[1][3] * a[1][3]
      /\ axes[2][2] = b[2][1] * a[2][1] + b[2][2] * a[2][2] + b[2][3] * a[2][3]
      /\ axes[3][3] = b[3][1] * a[3][1] + b[3][2] * a[3][2] + b[3][3] * a[3][3]
  BY <1>2, <1>4 DEF Axes
<1>6. Trace(axes) = TraceBetween(a, b)
  BY <1>1, <1>5, MatrixType DEF Trace, TraceBetween
<1>7. AngleOf(axes) = Angles[TraceBetween(a, b) + 2]
  BY <1>6 DEF AngleOf, Angles
<1>8. /\ AngleBetween(p, q) = Angles[TraceBetween(a, b) + 2]
      /\ TraceBetween(a, b) \in -1..3
  BY AngleByTrace DEF a, b
<1>9. TraceBetween(a, b) + 2 \in 1..5
  BY <1>8
<1>10. \A i \in 1..5 : Angles[i] \in Nat
  BY DEF Angles
<1>. QED  BY <1>7, <1>8, <1>9, <1>10

(* No angle, no turn. *)
LEMMA SquaresOfAxis ==
  ASSUME NEW a \in Int, NEW b \in Int, NEW c \in Int, SumOf(1, a, b, c, a, b, c)
  PROVE  /\ a <= 1 /\ b <= 1 /\ c <= 1
         /\ a = 1 => b = 0 /\ c = 0
         /\ b = 1 => a = 0 /\ c = 0
         /\ c = 1 => a = 0 /\ b = 0
BY DEF SumOf

LEMMA SameAxesNoAngle ==
  ASSUME NEW p \in Quaternions, NEW q \in Quaternions, AxesOf(p) = AxesOf(q)
  PROVE  AngleBetween(p, q) = 0
<1>. DEFINE a == AxesOf(p)
<1>1. a \in Matrices /\ Orthonormal(a)
  BY AxesScaled, AxesOrthonormal
<1>. HIDE DEF a
<1>2. TraceBetween(a, a) = 3
  BY <1>1 DEF TraceBetween, Orthonormal, SumOf
<1>3. AngleBetween(p, q) = Angles[TraceBetween(a, a) + 2]
  BY AngleByTrace DEF a
<1>4. Angles[5] = 0
  BY DEF Angles
<1>. QED  BY <1>2, <1>3, <1>4

LEMMA NoAngleStill ==
  ASSUME NEW q \in Quaternions
  PROVE  AngleBetween(q, One) = 0 <=> AxesOf(q) = Still.axes
<1>. DEFINE a == AxesOf(q)
            i == Still.axes
<1>1. a \in Matrices /\ Orthonormal(a)
  BY AxesScaled, AxesOrthonormal
<1>2. i \in Matrices /\ i = AxesOf(One)
  BY OneTurnsNothing, AxesScaled
<1>3. /\ i[1][1] = 1 /\ i[2][1] = 0 /\ i[3][1] = 0
      /\ i[2][2] = 1 /\ i[3][2] = 0 /\ i[1][2] = 0
      /\ i[3][3] = 1 /\ i[1][3] = 0 /\ i[2][3] = 0
  BY UnitType DEF Still, Axes
<1>4. /\ a[1][1] \in Int /\ a[1][2] \in Int /\ a[1][3] \in Int
      /\ a[2][1] \in Int /\ a[2][2] \in Int /\ a[2][3] \in Int
      /\ a[3][1] \in Int /\ a[3][2] \in Int /\ a[3][3] \in Int
  BY <1>1, MatrixType
<1>5. ASSUME AngleBetween(q, One) = 0  PROVE a = i
  <2>1. /\ 0 = Angles[TraceBetween(a, i) + 2]
        /\ TraceBetween(a, i) \in -1..3
    BY <1>2, <1>5, OneTurnsNothing, AngleByTrace
  <2>. HIDE DEF a, i
  <2>2. TraceBetween(a, i) = a[1][1] + a[2][2] + a[3][3]
    BY <1>3, <1>4 DEF TraceBetween
  <2>3. TraceBetween(a, i) = 3
    <3>1. \A k \in 1..5 : Angles[k] = 0 => k = 5
      BY DEF Angles
    <3>. QED  BY <2>1, <3>1
  <2>4. /\ a[1][1] <= 1 /\ (a[1][1] = 1 => a[2][1] = 0 /\ a[3][1] = 0)
        /\ a[2][2] <= 1 /\ (a[2][2] = 1 => a[1][2] = 0 /\ a[3][2] = 0)
        /\ a[3][3] <= 1 /\ (a[3][3] = 1 => a[1][3] = 0 /\ a[2][3] = 0)
    BY <1>1, <1>4, SquaresOfAxis DEF Orthonormal
  <2>5. a[1][1] = 1 /\ a[2][2] = 1 /\ a[3][3] = 1
    BY <1>4, <2>2, <2>3, <2>4
  <2>. QED  BY <1>1, <1>2, <1>3, <2>4, <2>5, MatrixEquality
<1>6. ASSUME a = i  PROVE AngleBetween(q, One) = 0
  BY <1>2, <1>6, OneTurnsNothing, SameAxesNoAngle
<1>. QED  BY <1>5, <1>6

-----------------------------------------------------------------------------
(* Placements.  A transform means the placement that has its translation   *)
(* for origin and the images of the axes for axes.                         *)
Means(transform, place) ==
  /\ transform.translation \in Vectors /\ transform.rotation \in Quaternions
  /\ place.origin = transform.translation
  /\ place.axes = AxesOf(transform.rotation)

LEMMA VectorSums ==
  ASSUME NEW u \in Vectors, NEW v \in Vectors
  PROVE  Plus(u, v) \in Vectors /\ Minus(u, v) \in Vectors
<1>1. \A k \in Axes : u[k] \in Int /\ v[k] \in Int
  BY DEF Vectors
<1>. QED  BY <1>1 DEF Plus, Minus, Vectors

LEMMA PointsPlaced ==
  ASSUME NEW transform, NEW place, Means(transform, place), NEW point \in Vectors
  PROVE  ApplyPoint(transform, point) = Placed(place, point)
BY RotateIsTurned DEF Means, ApplyPoint, Placed

(***************************************************************************)
(* Composing two transforms composes what they mean: the code's product of *)
(* quaternions turns frames as their axes do (rigid_transform.cpp:132).    *)
(***************************************************************************)
THEOREM CompositionMeans ==
  ASSUME NEW left, NEW right, NEW from, NEW to, Means(left, from), Means(right, to)
  PROVE  /\ ComposedTranslation(left, right) \in Vectors
         /\ Then(from, to).origin = ComposedTranslation(left, right)
         /\ Times(left.rotation, right.rotation) \in Quaternions
         /\ Then(from, to).axes = AxesOf(Times(left.rotation, right.rotation))
<1>. DEFINE p == left.rotation
            q == right.rotation
            t == right.translation
<1>1. /\ left.translation \in Vectors /\ p \in Quaternions
      /\ t \in Vectors /\ q \in Quaternions
      /\ from.origin = left.translation /\ from.axes = AxesOf(p)
      /\ to.origin = t /\ to.axes = AxesOf(q)
  BY DEF Means
<1>2. Rotate(p, t) \in Vectors /\ Rotate(p, t) = Turned(AxesOf(p), t)
  BY <1>1, RotateScaled, RotateIsTurned
<1>3. ComposedTranslation(left, right) = Plus(left.translation, Rotate(p, t))
  BY DEF ComposedTranslation
<1>4. Then(from, to).origin = Plus(from.origin, Turned(from.axes, to.origin))
  BY DEF Then, Placed
<1>5. /\ Times(p, q) \in Quaternions
      /\ \A k \in Axes : AxesOf(Times(p, q))[k] = Turned(AxesOf(p), AxesOf(q)[k])
  BY <1>1, TimesTurns
<1>6. AxesOf(Times(p, q)) = [k \in Axes |-> AxesOf(Times(p, q))[k]]
  BY DEF AxesOf
<1>7. Then(from, to).axes = [k \in Axes |-> Turned(AxesOf(p), AxesOf(q)[k])]
  BY <1>1 DEF Then
<1>. HIDE DEF p, q, t
<1>8. ComposedTranslation(left, right) \in Vectors
  BY <1>1, <1>2, <1>3, VectorSums
<1>9. Then(from, to).axes = AxesOf(Times(p, q))
  BY <1>5, <1>6, <1>7
<1>. QED  BY <1>1, <1>2, <1>3, <1>4, <1>5, <1>8, <1>9 DEF p, q

(***************************************************************************)
(* The inverse of a transform means the way back (rigid_transform.cpp:160).*)
(***************************************************************************)
THEOREM InversionMeans ==
  ASSUME NEW transform, NEW place, Means(transform, place)
  PROVE  /\ InverseTranslation(transform) \in Vectors
         /\ Back(place).origin = InverseTranslation(transform)
         /\ Conjugate(transform.rotation) \in Quaternions
         /\ Back(place).axes = AxesOf(Conjugate(transform.rotation))
<1>. DEFINE q == transform.rotation
            t == transform.translation
            u == Rotate(Conjugate(q), t)
<1>1. /\ t \in Vectors /\ q \in Quaternions
      /\ place.origin = t /\ place.axes = AxesOf(q)
  BY DEF Means
<1>2. Conjugate(q) \in Quaternions /\ AxesOf(Conjugate(q)) = Transposed(AxesOf(q))
  BY <1>1, ConjugateTurns
<1>3. u \in Vectors /\ u = Turned(Transposed(AxesOf(q)), t)
  BY <1>1, <1>2, RotateScaled, RotateIsTurned
<1>4. InverseTranslation(transform) = Minus(Zero, u)
  BY DEF InverseTranslation
<1>5. Back(place).origin = Scale(-1, u) /\ Back(place).axes = AxesOf(Conjugate(q))
  BY <1>1, <1>2, <1>3 DEF Back
<1>. HIDE DEF q, t, u
<1>6. Zero \in Vectors /\ \A k \in Axes : Zero[k] = 0
  BY OneTurnsNothing DEF Zero, Axes
<1>7. Minus(Zero, u) \in Vectors
  BY <1>3, <1>6, VectorSums
<1>8. Minus(Zero, u) = Scale(-1, u)
  <2>1. u[1] \in Int /\ u[2] \in Int /\ u[3] \in Int
    BY <1>3, VectorType
  <2>2. Scale(-1, u) \in Vectors
    BY <1>3 DEF Scale, Vectors
  <2>3. /\ Scale(-1, u)[1] = (-1) * u[1] /\ Minus(Zero, u)[1] = 0 - u[1]
        /\ Scale(-1, u)[2] = (-1) * u[2] /\ Minus(Zero, u)[2] = 0 - u[2]
        /\ Scale(-1, u)[3] = (-1) * u[3] /\ Minus(Zero, u)[3] = 0 - u[3]
    <3>1. \A k \in Axes : Scale(-1, u)[k] = (-1) * u[k] /\ Minus(Zero, u)[k] = Zero[k] - u[k]
      BY DEF Scale, Minus
    <3>2. 1 \in Axes /\ 2 \in Axes /\ 3 \in Axes
      BY DEF Axes
    <3>. QED  BY <1>6, <3>1, <3>2, Zenon
  <2>. QED  BY <1>7, <2>1, <2>2, <2>3, VectorType
<1>. QED  BY <1>2, <1>4, <1>5, <1>7, <1>8 DEF q

(* Turning is linear. *)
LEMMA TurnedUnit ==
  ASSUME NEW m \in Matrices, NEW k \in Axes
  PROVE  Turned(m, Unit(k)) = m[k]
<1>. DEFINE u == Turned(m, Unit(k))
<1>1. u \in Vectors /\ m[k] \in Vectors
  BY UnitType, TurnedType DEF Matrices
<1>2. /\ u[1] = Unit(k)[1] * m[1][1] + Unit(k)[2] * m[2][1] + Unit(k)[3] * m[3][1]
      /\ u[2] = Unit(k)[1] * m[1][2] + Unit(k)[2] * m[2][2] + Unit(k)[3] * m[3][2]
      /\ u[3] = Unit(k)[1] * m[1][3] + Unit(k)[2] * m[2][3] + Unit(k)[3] * m[3][3]
  BY UnitType, TurnedType DEF Axes
<1>. HIDE DEF u
<1>3. k = 1 \/ k = 2 \/ k = 3
  BY DEF Axes
<1>4. u[1] = m[k][1] /\ u[2] = m[k][2] /\ u[3] = m[k][3]
  BY <1>2, <1>3, UnitType, MatrixType
<1>. QED  BY <1>1, <1>4, VectorType DEF u

Nested(o, p1, p2, p3, r1, r2, r3, s1, s2, s3, t1, t2, t3, u1, u2, u3, v1, v2, v3,
       x1, x2, x3) ==
  /\ o = u1 * p1 + u2 * p2 + u3 * p3
  /\ p1 = r1 * v1 + r2 * v2 + r3 * v3
  /\ p2 = s1 * v1 + s2 * v2 + s3 * v3
  /\ p3 = t1 * v1 + t2 * v2 + t3 * v3
  /\ x1 = u1 * r1 + u2 * s1 + u3 * t1
  /\ x2 = u1 * r2 + u2 * s2 + u3 * t2
  /\ x3 = u1 * r3 + u2 * s3 + u3 * t3

LEMMA NestedSum ==
  ASSUME NEW o, NEW p1, NEW p2, NEW p3, NEW x1, NEW x2, NEW x3,
         NEW r1 \in Int, NEW r2 \in Int, NEW r3 \in Int,
         NEW s1 \in Int, NEW s2 \in Int, NEW s3 \in Int,
         NEW t1 \in Int, NEW t2 \in Int, NEW t3 \in Int,
         NEW u1 \in Int, NEW u2 \in Int, NEW u3 \in Int,
         NEW v1 \in Int, NEW v2 \in Int, NEW v3 \in Int,
         Nested(o, p1, p2, p3, r1, r2, r3, s1, s2, s3, t1, t2, t3, u1, u2, u3, v1, v2, v3,
                x1, x2, x3)
  PROVE  SumOf(o, x1, x2, x3, v1, v2, v3)
BY DEF Nested, SumOf

LEMMA TurnedTwice ==
  ASSUME NEW a \in Matrices, NEW b \in Matrices, NEW u \in Vectors, NEW c,
         c = [k \in Axes |-> Turned(a, b[k])]
  PROVE  c \in Matrices /\ Turned(c, u) = Turned(a, Turned(b, u))
<1>1. \A k \in Axes : b[k] \in Vectors
  BY DEF Matrices
<1>2. c \in Matrices
  BY <1>1, TurnedType DEF Matrices
<1>. DEFINE v == Turned(b, u)
            l == Turned(c, u)
            r == Turned(a, v)
<1>3. v \in Vectors /\ l \in Vectors /\ r \in Vectors
  BY <1>2, TurnedType
<1>4. ASSUME NEW k \in Axes  PROVE l[k] = r[k]
  <2>1. /\ l[k] = u[1] * c[1][k] + u[2] * c[2][k] + u[3] * c[3][k]
        /\ r[k] = v[1] * a[1][k] + v[2] * a[2][k] + v[3] * a[3][k]
    BY <1>2, <1>3, TurnedType
  <2>2. /\ c[1][k] = b[1][1] * a[1][k] + b[1][2] * a[2][k] + b[1][3] * a[3][k]
        /\ c[2][k] = b[2][1] * a[1][k] + b[2][2] * a[2][k] + b[2][3] * a[3][k]
        /\ c[3][k] = b[3][1] * a[1][k] + b[3][2] * a[2][k] + b[3][3] * a[3][k]
    BY <1>1, TurnedType DEF Axes
  <2>3. /\ v[1] = u[1] * b[1][1] + u[2] * b[2][1] + u[3] * b[3][1]
        /\ v[2] = u[1] * b[1][2] + u[2] * b[2][2] + u[3] * b[3][2]
        /\ v[3] = u[1] * b[1][3] + u[2] * b[2][3] + u[3] * b[3][3]
    BY TurnedType DEF Axes
  <2>4. /\ b[1][1] \in Int /\ b[1][2] \in Int /\ b[1][3] \in Int
        /\ b[2][1] \in Int /\ b[2][2] \in Int /\ b[2][3] \in Int
        /\ b[3][1] \in Int /\ b[3][2] \in Int /\ b[3][3] \in Int
        /\ u[1] \in Int /\ u[2] \in Int /\ u[3] \in Int
    BY MatrixType, VectorType
  <2>5. a[1][k] \in Int /\ a[2][k] \in Int /\ a[3][k] \in Int
    BY DEF Matrices, Vectors, Axes
  <2>. HIDE DEF l, r, v
  <2>6. Nested(l[k], c[1][k], c[2][k], c[3][k], b[1][1], b[1][2], b[1][3],
               b[2][1], b[2][2], b[2][3], b[3][1], b[3][2], b[3][3],
               u[1], u[2], u[3], a[1][k], a[2][k], a[3][k], v[1], v[2], v[3])
    BY <2>1, <2>2, <2>3, Zenon DEF Nested
  <2>7. SumOf(l[k], v[1], v[2], v[3], a[1][k], a[2][k], a[3][k])
    BY <2>4, <2>5, <2>6, NestedSum, ZenonT(60)
  <2>. QED  BY <2>1, <2>7 DEF SumOf
<1>5. l = r
  BY <1>3, <1>4, VectorType DEF Axes
<1>. QED  BY <1>2, <1>5 DEF l, r, v

LEMMA ScaledOnce ==
  ASSUME NEW m \in Matrices, NEW u \in Vectors
  PROVE  /\ Scale(-1, u) \in Vectors
         /\ Turned(m, Scale(-1, u)) = Scale(-1, Turned(m, u))
<1>1. \A v \in Vectors : /\ Scale(-1, v) \in Vectors
                         /\ \A k \in Axes : Scale(-1, v)[k] = (-1) * v[k]
  BY DEF Scale, Vectors
<1>. DEFINE v == Scale(-1, u)
            l == Turned(m, v)
            r == Scale(-1, Turned(m, u))
<1>2. v \in Vectors /\ l \in Vectors /\ Turned(m, u) \in Vectors /\ r \in Vectors
  BY <1>1, TurnedType
<1>3. ASSUME NEW k \in Axes  PROVE l[k] = r[k]
  <2>1. /\ l[k] = v[1] * m[1][k] + v[2] * m[2][k] + v[3] * m[3][k]
        /\ Turned(m, u)[k] = u[1] * m[1][k] + u[2] * m[2][k] + u[3] * m[3][k]
        /\ r[k] = (-1) * Turned(m, u)[k]
    BY <1>1, <1>2, TurnedType
  <2>2. v[1] = (-1) * u[1] /\ v[2] = (-1) * u[2] /\ v[3] = (-1) * u[3]
    BY <1>1 DEF Axes
  <2>3. /\ u[1] \in Int /\ u[2] \in Int /\ u[3] \in Int
        /\ m[1][k] \in Int /\ m[2][k] \in Int /\ m[3][k] \in Int
    BY VectorType DEF Matrices, Vectors, Axes
  <2>. HIDE DEF v, l, r
  <2>. QED  BY <2>1, <2>2, <2>3
<1>4. l = r
  BY <1>2, <1>3, VectorType DEF Axes
<1>. QED  BY <1>2, <1>4 DEF l, r, v

-----------------------------------------------------------------------------
(* Rodrigues' form, entry by entry. *)
LEMMA TurnedByEntries ==
  ASSUME NEW m \in Matrices, NEW q \in Quaternions, TurnedBy(m, q)
  PROVE  MatrixOf(m, q, QuaternionDot(q, q))
<1>. DEFINE n == QuaternionDot(q, q)
            w == q.w
            x == q.v[1]
            y == q.v[2]
            z == q.v[3]
            dot == Dot(q.v, q.v)
            turn(j) == Cross(q.v, Unit(j))
<1>1. /\ w \in Int /\ x \in Int /\ y \in Int /\ z \in Int
      /\ q.v \in Vectors /\ n \in Int
  BY QuaternionType
<1>2. dot = x*x + y*y + z*z
  BY DEF Dot
<1>3. \A j, k \in Axes :
        n * m[j][k] = (w*w - dot) * Unit(j)[k] + 2 * (q.v[j] * q.v[k]) + 2 * (w * turn(j)[k])
  BY DEF TurnedBy
<1>4. \A j \in Axes :
        /\ turn(j)[1] = y * Unit(j)[3] - z * Unit(j)[2]
        /\ turn(j)[2] = z * Unit(j)[1] - x * Unit(j)[3]
        /\ turn(j)[3] = x * Unit(j)[2] - y * Unit(j)[1]
  BY <1>1, UnitType, CrossType
<1>. HIDE DEF n, w, x, y, z, dot, turn
<1>5. /\ turn(1)[1] = 0 /\ turn(1)[2] = z /\ turn(1)[3] = -y
      /\ turn(2)[1] = -z /\ turn(2)[2] = 0 /\ turn(2)[3] = x
      /\ turn(3)[1] = y /\ turn(3)[2] = -x /\ turn(3)[3] = 0
  BY <1>1, <1>4, UnitType DEF Axes
<1>6. /\ n * m[1][1] = (w*w - dot) * Unit(1)[1] + 2 * (x * x) + 2 * (w * turn(1)[1])
      /\ n * m[1][2] = (w*w - dot) * Unit(1)[2] + 2 * (x * y) + 2 * (w * turn(1)[2])
      /\ n * m[1][3] = (w*w - dot) * Unit(1)[3] + 2 * (x * z) + 2 * (w * turn(1)[3])
      /\ n * m[2][1] = (w*w - dot) * Unit(2)[1] + 2 * (y * x) + 2 * (w * turn(2)[1])
      /\ n * m[2][2] = (w*w - dot) * Unit(2)[2] + 2 * (y * y) + 2 * (w * turn(2)[2])
      /\ n * m[2][3] = (w*w - dot) * Unit(2)[3] + 2 * (y * z) + 2 * (w * turn(2)[3])
      /\ n * m[3][1] = (w*w - dot) * Unit(3)[1] + 2 * (z * x) + 2 * (w * turn(3)[1])
      /\ n * m[3][2] = (w*w - dot) * Unit(3)[2] + 2 * (z * y) + 2 * (w * turn(3)[2])
      /\ n * m[3][3] = (w*w - dot) * Unit(3)[3] + 2 * (z * z) + 2 * (w * turn(3)[3])
  BY <1>3 DEF Axes, x, y, z
<1>7. /\ n * m[1][1] = RowOwn(w, x, y, z)
      /\ n * m[2][1] = RowNext(w, x, y, z)
      /\ n * m[3][1] = RowLast(w, x, y, z)
      /\ n * m[2][2] = RowOwn(w, y, z, x)
      /\ n * m[3][2] = RowNext(w, y, z, x)
      /\ n * m[1][2] = RowLast(w, y, z, x)
      /\ n * m[3][3] = RowOwn(w, z, x, y)
      /\ n * m[1][3] = RowNext(w, z, x, y)
      /\ n * m[2][3] = RowLast(w, z, x, y)
  BY <1>1, <1>2, <1>5, <1>6, UnitType DEF RowOwn, RowNext, RowLast
<1>. QED  BY <1>7 DEF MatrixOf, n, w, x, y, z

LEMMA TurnedByAxes ==
  ASSUME NEW m \in Matrices, NEW q \in Quaternions, TurnedBy(m, q)
  PROVE  m = AxesOf(q)
<1>. DEFINE n == QuaternionDot(q, q)
            a == AxesOf(q)
<1>1. n \in {1, 2, 4} /\ a \in Matrices
  BY QuaternionType, AxesScaled
<1>2. MatrixOf(a, q, n) /\ MatrixOf(m, q, n)
  BY AxesScaled, TurnedByEntries
<1>3. /\ m[1][1] \in Int /\ m[1][2] \in Int /\ m[1][3] \in Int
      /\ m[2][1] \in Int /\ m[2][2] \in Int /\ m[2][3] \in Int
      /\ m[3][1] \in Int /\ m[3][2] \in Int /\ m[3][3] \in Int
  BY MatrixType
<1>4. /\ a[1][1] \in Int /\ a[1][2] \in Int /\ a[1][3] \in Int
      /\ a[2][1] \in Int /\ a[2][2] \in Int /\ a[2][3] \in Int
      /\ a[3][1] \in Int /\ a[3][2] \in Int /\ a[3][3] \in Int
  BY <1>1, MatrixType
<1>. HIDE DEF n, a
<1>5. /\ n * m[1][1] = n * a[1][1] /\ n * m[1][2] = n * a[1][2] /\ n * m[1][3] = n * a[1][3]
      /\ n * m[2][1] = n * a[2][1] /\ n * m[2][2] = n * a[2][2] /\ n * m[2][3] = n * a[2][3]
      /\ n * m[3][1] = n * a[3][1] /\ n * m[3][2] = n * a[3][2] /\ n * m[3][3] = n * a[3][3]
  BY <1>2 DEF MatrixOf
<1>6. /\ m[1][1] = a[1][1] /\ m[1][2] = a[1][2] /\ m[1][3] = a[1][3]
      /\ m[2][1] = a[2][1] /\ m[2][2] = a[2][2] /\ m[2][3] = a[2][3]
      /\ m[3][1] = a[3][1] /\ m[3][2] = a[3][2] /\ m[3][3] = a[3][3]
  BY <1>1, <1>3, <1>4, <1>5, Cancelled
<1>7. m = a
  BY <1>1, <1>6, MatrixEquality
<1>. QED  BY <1>7 DEF a

(* What a message says of a frame is what the pose made of it means.       *)
LEMMA LocatedMeans ==
  ASSUME NEW position, NEW ros, NEW place, Locates(position, ros, place),
         NEW parent, NEW child
  PROVE  Means(Create(parent, child, position, ros), place)
BY TurnedByAxes DEF Locates, Means, Create

(* A lattice rotation moves the components of a vector about: it takes no  *)
(* vector out of the finite range or into it.                              *)
LEMMA ComponentBounded ==
  ASSUME NEW a \in Int, NEW b \in Int, NEW c \in Int, SumOf(1, a, b, c, a, b, c),
         NEW bound \in Nat, NEW r \in -bound..bound, NEW s \in -bound..bound,
         NEW t \in -bound..bound, NEW v, SumOf(v, r, s, t, a, b, c)
  PROVE  v \in -bound..bound
<1>1. /\ a \in -1..1 /\ b \in -1..1 /\ c \in -1..1
      /\ a # 0 => b = 0 /\ c = 0
      /\ b # 0 => c = 0
  BY DEF SumOf
<1>2. v = r * a + s * b + t * c
  BY DEF SumOf
<1>. QED  BY <1>1, <1>2

LEMMA FiniteTurned ==
  ASSUME NEW m \in Matrices, Orthonormal(m), NEW u \in Vectors, Finite(u)
  PROVE  Finite(Turned(m, u))
<1>1. /\ m[1][1] \in Int /\ m[1][2] \in Int /\ m[1][3] \in Int
      /\ m[2][1] \in Int /\ m[2][2] \in Int /\ m[2][3] \in Int
      /\ m[3][1] \in Int /\ m[3][2] \in Int /\ m[3][3] \in Int
  BY MatrixType
<1>2. /\ u[1] \in -MaxFinite..MaxFinite /\ u[2] \in -MaxFinite..MaxFinite
      /\ u[3] \in -MaxFinite..MaxFinite
  BY DEF Finite, Vectors, Axes
<1>3. /\ SumOf(Turned(m, u)[1], u[1], u[2], u[3], m[1][1], m[2][1], m[3][1])
      /\ SumOf(Turned(m, u)[2], u[1], u[2], u[3], m[1][2], m[2][2], m[3][2])
      /\ SumOf(Turned(m, u)[3], u[1], u[2], u[3], m[1][3], m[2][3], m[3][3])
  BY TurnedType DEF SumOf, Axes
<1>4. /\ Turned(m, u)[1] \in -MaxFinite..MaxFinite
      /\ Turned(m, u)[2] \in -MaxFinite..MaxFinite
      /\ Turned(m, u)[3] \in -MaxFinite..MaxFinite
  BY <1>1, <1>2, <1>3, ComponentBounded, RangeAssumption DEF Orthonormal
<1>5. DOMAIN Turned(m, u) = Axes
  BY TurnedType DEF Vectors
<1>. QED  BY <1>4, <1>5 DEF Finite, Axes

(* A finite transform can be inverted: turning keeps the range.            *)
LEMMA InverseFinite ==
  ASSUME NEW transform, NEW place, Means(transform, place), Finite(transform.translation)
  PROVE  InverseRefused(transform) = NotRefused
<1>. DEFINE q == transform.rotation
            t == transform.translation
            u == Rotate(Conjugate(q), t)
<1>1. t \in Vectors /\ q \in Quaternions
  BY DEF Means
<1>2. Conjugate(q) \in Quaternions
  BY <1>1, ConjugateTurns
<1>3. u = Turned(AxesOf(Conjugate(q)), t) /\ AxesOf(Conjugate(q)) \in Matrices
  BY <1>1, <1>2, RotateIsTurned, AxesScaled
<1>4. u \in Vectors /\ Finite(u)
  BY <1>1, <1>2, <1>3, AxesOrthonormal, FiniteTurned, TurnedType
<1>5. InverseTranslation(transform) = Minus(Zero, u)
  BY DEF InverseTranslation
<1>. HIDE DEF u
<1>6. \A k \in Axes : Zero[k] = 0
  BY DEF Zero, Axes
<1>7. \A k \in Axes : u[k] \in -MaxFinite..MaxFinite
  BY <1>4 DEF Finite, Vectors
<1>8. \A k \in Axes : Zero[k] - u[k] \in -MaxFinite..MaxFinite
  BY <1>6, <1>7, RangeAssumption
<1>9. Finite(InverseTranslation(transform))
  BY <1>5, <1>8 DEF Finite, Minus
<1>. QED  BY <1>9 DEF InverseRefused
=============================================================================
