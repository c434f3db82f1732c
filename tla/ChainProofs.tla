---------------------------- MODULE ChainProofs ----------------------------
(***************************************************************************)
(* That a chain of transforms means what its links say, for all frames,    *)
(* offsets and ranges.                                                     *)
(***************************************************************************)
EXTENDS TransformChain, RotationProofs

-----------------------------------------------------------------------------
(* Links.                                                                  *)
LEMMA RosQuaternion ==
  ASSUME NEW v \in Vectors, NEW w \in Int
  PROVE  QuaternionFromRosXyzw([xyzw |-> v \o <<w>>, norm |-> 1000]) = [w |-> w, v |-> v]
<1>1. v[1] \in Int /\ v[2] \in Int /\ v[3] \in Int
  BY VectorType
<1>2. v = <<v[1], v[2], v[3]>>
  <2>1. <<v[1], v[2], v[3]>> \in Vectors
    BY <1>1, VectorType
  <2>. QED  BY <2>1, VectorType
<1>. DEFINE Joined(xyzw, r, s, t) ==
              xyzw[1] = r /\ xyzw[2] = s /\ xyzw[3] = t /\ xyzw[4] = w
<1>3. \A r, s, t \in Int : Joined(<<r, s, t>> \o <<w>>, r, s, t)
  OBVIOUS
<1>4. Joined(v \o <<w>>, v[1], v[2], v[3])
  <2>. HIDE DEF Joined
  <2>1. Joined(<<v[1], v[2], v[3]>> \o <<w>>, v[1], v[2], v[3])
    BY <1>1, <1>3, Zenon
  <2>2. \A u : u = v => (Joined(u \o <<w>>, v[1], v[2], v[3])
                          <=> Joined(v \o <<w>>, v[1], v[2], v[3]))
    BY Zenon
  <2>3. <<v[1], v[2], v[3]>> = v
    BY <1>2
  <2>. QED  BY <2>1, <2>2, <2>3, Zenon
<1>5. \A ros : ros.xyzw = v \o <<w>> => QuaternionFromRosXyzw(ros) = [w |-> w, v |-> v]
  BY <1>2, <1>4 DEF QuaternionFromRosXyzw
<1>. QED  BY <1>5

(* A quaternion survives its way through a ROS message. *)
LEMMA Transmitted ==
  ASSUME NEW q \in Quaternions
  PROVE  QuaternionFromRosXyzw(QuaternionToRosXyzw(q)) = q
<1>1. q.v \in Vectors /\ q.w \in Int /\ q = [w |-> q.w, v |-> q.v]
  BY QuaternionType DEF Quaternions
<1>2. PICK v \in Vectors, w \in Int : v = q.v /\ w = q.w
  BY <1>1
<1>3. QuaternionFromRosXyzw([xyzw |-> v \o <<w>>, norm |-> 1000]) = [w |-> w, v |-> v]
  BY RosQuaternion
<1>4. QuaternionToRosXyzw(q) = [xyzw |-> v \o <<w>>, norm |-> 1000]
  BY <1>2, Zenon DEF QuaternionToRosXyzw
<1>5. q = [w |-> w, v |-> v]
  BY <1>1, <1>2, Zenon
<1>. QED  BY <1>3, <1>4, <1>5, ZenonT(40)

(* The turns of links. *)
TurnOf(axis, sign, flip) == [w |-> flip, v |-> Scale(flip * sign, Unit(axis))]

LEMMA TurnIsQuaternion ==
  ASSUME NEW axis \in Axes, NEW sign \in {-1, 0, 1}, NEW flip \in {-1, 1}
  PROVE  /\ Scale(flip * sign, Unit(axis)) \in Vectors
         /\ TurnOf(axis, sign, flip) \in Quaternions
<1>. DEFINE v == Scale(flip * sign, Unit(axis))
            q == TurnOf(axis, sign, flip)
<1>1. v \in Vectors
  BY UnitType DEF Scale, Vectors
<1>2. /\ v[1] = (flip * sign) * Unit(axis)[1]
      /\ v[2] = (flip * sign) * Unit(axis)[2]
      /\ v[3] = (flip * sign) * Unit(axis)[3]
  BY DEF Scale, Axes
<1>3. axis = 1 \/ axis = 2 \/ axis = 3
  BY DEF Axes
<1>4. QuaternionDot(q, q) = flip * flip + (v[1]*v[1] + v[2]*v[2] + v[3]*v[3])
  BY DEF TurnOf, QuaternionDot, Dot
<1>. HIDE DEF v
<1>5. flip * flip + (v[1]*v[1] + v[2]*v[2] + v[3]*v[3]) \in {1, 2, 4}
  <2>1. flip * sign \in {-1, 0, 1}
    OBVIOUS
  <2>2. \/ v[1] \in {-1, 0, 1} /\ v[2] = 0 /\ v[3] = 0
        \/ v[2] \in {-1, 0, 1} /\ v[1] = 0 /\ v[3] = 0
        \/ v[3] \in {-1, 0, 1} /\ v[1] = 0 /\ v[2] = 0
    BY <1>2, <1>3, <2>1, UnitType
  <2>. QED  BY <2>2
<1>. QED  BY <1>1, <1>4, <1>5 DEF TurnOf, Quaternions, v

(* What turns of a quarter do to the axes, entry by entry.                 *)
QuarterEntries(m, axis, sign) ==
  LET still == IF sign = 0 THEN 1 ELSE 0
  IN  /\ axis = 1 => /\ m[1][1] = 1     /\ m[1][2] = 0     /\ m[1][3] = 0
                     /\ m[2][1] = 0     /\ m[2][2] = still /\ m[2][3] = sign
                     /\ m[3][1] = 0     /\ m[3][2] = -sign /\ m[3][3] = still
      /\ axis = 2 => /\ m[1][1] = still /\ m[1][2] = 0     /\ m[1][3] = -sign
                     /\ m[2][1] = 0     /\ m[2][2] = 1     /\ m[2][3] = 0
                     /\ m[3][1] = sign  /\ m[3][2] = 0     /\ m[3][3] = still
      /\ axis = 3 => /\ m[1][1] = still /\ m[1][2] = sign  /\ m[1][3] = 0
                     /\ m[2][1] = -sign /\ m[2][2] = still /\ m[2][3] = 0
                     /\ m[3][1] = 0     /\ m[3][2] = 0     /\ m[3][3] = 1

LEMMA QuarterTurnEntries ==
  ASSUME NEW axis \in Axes, NEW sign \in {-1, 0, 1}
  PROVE  /\ QuarterTurn(axis, sign) \in Matrices
         /\ QuarterEntries(QuarterTurn(axis, sign), axis, sign)
<1>. DEFINE m == QuarterTurn(axis, sign)
            cross(k) == Cross(Unit(axis), Unit(k))
<1>1. \A k \in Axes : /\ Unit(k) \in Vectors /\ cross(k) \in Vectors
                      /\ Scale(sign, cross(k)) \in Vectors
  <2>1. \A k \in Axes : cross(k) \in Vectors
    BY UnitType, CrossType
  <2>. HIDE DEF cross
  <2>. QED  BY <2>1, UnitType DEF Scale, Vectors
<1>2. m \in Matrices
  BY <1>1 DEF QuarterTurn, Matrices
<1>3. \A k \in Axes : m[k] = IF k = axis \/ sign = 0 THEN Unit(k) ELSE Scale(sign, cross(k))
  BY DEF QuarterTurn
<1>4. \A k \in Axes : /\ Scale(sign, cross(k))[1] = sign * cross(k)[1]
                      /\ Scale(sign, cross(k))[2] = sign * cross(k)[2]
                      /\ Scale(sign, cross(k))[3] = sign * cross(k)[3]
  BY DEF Scale, Axes
<1>5. \A k \in Axes :
        /\ cross(k)[1] = Unit(axis)[2] * Unit(k)[3] - Unit(axis)[3] * Unit(k)[2]
        /\ cross(k)[2] = Unit(axis)[3] * Unit(k)[1] - Unit(axis)[1] * Unit(k)[3]
        /\ cross(k)[3] = Unit(axis)[1] * Unit(k)[2] - Unit(axis)[2] * Unit(k)[1]
  BY UnitType, CrossType
<1>. HIDE DEF m, cross
<1>6. sign = 0 => QuarterEntries(m, axis, sign)
  <2>1. sign = 0 => m[1] = Unit(1) /\ m[2] = Unit(2) /\ m[3] = Unit(3)
    BY <1>3 DEF Axes
  <2>. QED  BY <2>1, UnitType DEF QuarterEntries
<1>7. ASSUME axis = 1, sign # 0
      PROVE  QuarterEntries(m, axis, sign)
  <2>1. m[1] = Unit(1) /\ m[2] = Scale(sign, cross(2)) /\ m[3] = Scale(sign, cross(3))
    BY <1>3, <1>7 DEF Axes
  <2>2. /\ cross(2)[1] = 0 /\ cross(2)[2] = 0 /\ cross(2)[3] = 1
        /\ cross(3)[1] = 0 /\ cross(3)[2] = -1 /\ cross(3)[3] = 0
    BY <1>5, <1>7, UnitType DEF Axes
  <2>3. /\ m[2][1] = sign * cross(2)[1] /\ m[2][2] = sign * cross(2)[2] /\ m[2][3] = sign * cross(2)[3]
        /\ m[3][1] = sign * cross(3)[1] /\ m[3][2] = sign * cross(3)[2] /\ m[3][3] = sign * cross(3)[3]
    BY <1>4, <2>1 DEF Axes
  <2>. QED  BY <1>7, <2>1, <2>2, <2>3, UnitType DEF QuarterEntries
<1>8. ASSUME axis = 2, sign # 0
      PROVE  QuarterEntries(m, axis, sign)
  <2>1. m[2] = Unit(2) /\ m[1] = Scale(sign, cross(1)) /\ m[3] = Scale(sign, cross(3))
    BY <1>3, <1>8 DEF Axes
  <2>2. /\ cross(1)[1] = 0 /\ cross(1)[2] = 0 /\ cross(1)[3] = -1
        /\ cross(3)[1] = 1 /\ cross(3)[2] = 0 /\ cross(3)[3] = 0
    BY <1>5, <1>8, UnitType DEF Axes
  <2>3. /\ m[1][1] = sign * cross(1)[1] /\ m[1][2] = sign * cross(1)[2] /\ m[1][3] = sign * cross(1)[3]
        /\ m[3][1] = sign * cross(3)[1] /\ m[3][2] = sign * cross(3)[2] /\ m[3][3] = sign * cross(3)[3]
    BY <1>4, <2>1 DEF Axes
  <2>. QED  BY <1>8, <2>1, <2>2, <2>3, UnitType DEF QuarterEntries
<1>9. ASSUME axis = 3, sign # 0
      PROVE  QuarterEntries(m, axis, sign)
  <2>1. m[3] = Unit(3) /\ m[1] = Scale(sign, cross(1)) /\ m[2] = Scale(sign, cross(2))
    BY <1>3, <1>9 DEF Axes
  <2>2. /\ cross(1)[1] = 0 /\ cross(1)[2] = 1 /\ cross(1)[3] = 0
        /\ cross(2)[1] = -1 /\ cross(2)[2] = 0 /\ cross(2)[3] = 0
    BY <1>5, <1>9, UnitType DEF Axes
  <2>3. /\ m[1][1] = sign * cross(1)[1] /\ m[1][2] = sign * cross(1)[2] /\ m[1][3] = sign * cross(1)[3]
        /\ m[2][1] = sign * cross(2)[1] /\ m[2][2] = sign * cross(2)[2] /\ m[2][3] = sign * cross(2)[3]
    BY <1>4, <2>1 DEF Axes
  <2>. QED  BY <1>9, <2>1, <2>2, <2>3, UnitType DEF QuarterEntries
<1>10. QuarterEntries(m, axis, sign)
  BY <1>6, <1>7, <1>8, <1>9 DEF Axes
<1>. QED  BY <1>2, <1>10 DEF m

(* A quaternion of the small lattice's turns, about the axis of x.         *)
TurnRows(w, x, n, sign) ==
  LET still == IF sign = 0 THEN 1 ELSE 0
  IN  /\ RowOwn(w, x, 0, 0) = n /\ RowNext(w, x, 0, 0) = 0 /\ RowLast(w, x, 0, 0) = 0
      /\ RowOwn(w, 0, 0, x) = n * still /\ RowNext(w, 0, 0, x) = -(n * sign)
      /\ RowLast(w, 0, 0, x) = 0
      /\ RowOwn(w, 0, x, 0) = n * still /\ RowNext(w, 0, x, 0) = 0
      /\ RowLast(w, 0, x, 0) = n * sign

LEMMA RowsOfTurn ==
  ASSUME NEW sign \in {-1, 0, 1}, NEW flip \in {-1, 1}
  PROVE  TurnRows(flip, flip * sign, 1 + sign * sign, sign)
BY DEF TurnRows, RowOwn, RowNext, RowLast

(* A link's quaternion, of either sign, is the quarter turn it stands for. *)
LEMMA AxesOfTurn ==
  ASSUME NEW axis \in Axes, NEW sign \in {-1, 0, 1}, NEW flip \in {-1, 1}
  PROVE  AxesOf(TurnOf(axis, sign, flip)) = QuarterTurn(axis, sign)
<1>. DEFINE q == TurnOf(axis, sign, flip)
            n == QuaternionDot(q, q)
            x == flip * sign
            a == AxesOf(q)
            m == QuarterTurn(axis, sign)
<1>1. q \in Quaternions /\ a \in Matrices /\ m \in Matrices /\ n \in {1, 2, 4}
  BY TurnIsQuaternion, AxesScaled, QuarterTurnEntries, QuaternionType
<1>2. q.w = flip /\ q.v = Scale(x, Unit(axis))
  BY DEF TurnOf
<1>3. /\ q.v[1] = x * Unit(axis)[1] /\ q.v[2] = x * Unit(axis)[2]
      /\ q.v[3] = x * Unit(axis)[3]
  BY <1>2 DEF Scale, Axes
<1>4. /\ axis = 1 => q.v[1] = x /\ q.v[2] = 0 /\ q.v[3] = 0
      /\ axis = 2 => q.v[1] = 0 /\ q.v[2] = x /\ q.v[3] = 0
      /\ axis = 3 => q.v[1] = 0 /\ q.v[2] = 0 /\ q.v[3] = x
  BY <1>3, UnitType
<1>5. axis = 1 \/ axis = 2 \/ axis = 3
  BY DEF Axes
<1>6. n = q.w*q.w + q.v[1]*q.v[1] + q.v[2]*q.v[2] + q.v[3]*q.v[3]
  BY <1>1, QuaternionType
<1>7. n = 1 + sign * sign
  <2>1. flip * flip = 1 /\ x * x = sign * sign /\ x \in Int
    OBVIOUS
  <2>2. q.w*q.w = 1
    BY <1>2, <2>1
  <2>. HIDE DEF q, n, x
  <2>3. q.v[1]*q.v[1] + q.v[2]*q.v[2] + q.v[3]*q.v[3] = x * x
    BY <1>4, <1>5, <2>1
  <2>4. q.w \in Int /\ q.v[1] \in Int /\ q.v[2] \in Int /\ q.v[3] \in Int
    BY <1>1, QuaternionType
  <2>5. q.w*q.w \in Int /\ q.v[1]*q.v[1] \in Int /\ q.v[2]*q.v[2] \in Int
        /\ q.v[3]*q.v[3] \in Int
    BY <2>4
  <2>. QED  BY <1>6, <2>1, <2>2, <2>3, <2>5
<1>8. MatrixOf(a, q, n) /\ QuarterEntries(m, axis, sign)
  BY <1>1, AxesScaled, QuarterTurnEntries
<1>9. /\ m[1][1] \in Int /\ m[1][2] \in Int /\ m[1][3] \in Int
      /\ m[2][1] \in Int /\ m[2][2] \in Int /\ m[2][3] \in Int
      /\ m[3][1] \in Int /\ m[3][2] \in Int /\ m[3][3] \in Int
  BY <1>1, MatrixType
<1>10. /\ a[1][1] \in Int /\ a[1][2] \in Int /\ a[1][3] \in Int
       /\ a[2][1] \in Int /\ a[2][2] \in Int /\ a[2][3] \in Int
       /\ a[3][1] \in Int /\ a[3][2] \in Int /\ a[3][3] \in Int
  BY <1>1, MatrixType
<1>11. TurnRows(flip, x, n, sign)
  BY <1>7, RowsOfTurn
<1>. HIDE DEF q, n, x, a, m
<1>12. /\ n * a[1][1] = n * m[1][1] /\ n * a[1][2] = n * m[1][2] /\ n * a[1][3] = n * m[1][3]
       /\ n * a[2][1] = n * m[2][1] /\ n * a[2][2] = n * m[2][2] /\ n * a[2][3] = n * m[2][3]
       /\ n * a[3][1] = n * m[3][1] /\ n * a[3][2] = n * m[3][2] /\ n * a[3][3] = n * m[3][3]
  <2>1. CASE axis = 1
    BY <1>1, <1>2, <1>4, <1>8, <1>11, <2>1 DEF MatrixOf, TurnRows, QuarterEntries
  <2>2. CASE axis = 2
    BY <1>1, <1>2, <1>4, <1>8, <1>11, <2>2 DEF MatrixOf, TurnRows, QuarterEntries
  <2>3. CASE axis = 3
    BY <1>1, <1>2, <1>4, <1>8, <1>11, <2>3 DEF MatrixOf, TurnRows, QuarterEntries
  <2>. QED  BY <1>5, <2>1, <2>2, <2>3
<1>13. /\ a[1][1] = m[1][1] /\ a[1][2] = m[1][2] /\ a[1][3] = m[1][3]
       /\ a[2][1] = m[2][1] /\ a[2][2] = m[2][2] /\ a[2][3] = m[2][3]
       /\ a[3][1] = m[3][1] /\ a[3][2] = m[3][2] /\ a[3][3] = m[3][3]
  BY <1>1, <1>9, <1>10, <1>12, Cancelled
<1>14. a = m
  BY <1>1, <1>13, MatrixEquality
<1>. QED  BY <1>14 DEF a, m, q

LEMMA LinkMeans ==
  ASSUME NEW link \in MeasurableLinks
  PROVE  Means(Measured(link), link.place)
<1>1. PICK f \in Frames, g \in Frames, t \in Offsets,
           axis \in Axes, sign \in {-1, 0, 1}, flip \in {-1, 1} :
        link = [parent |-> f, child |-> g, translation |-> t,
                ros |-> [xyzw |-> Scale(flip * sign, Unit(axis)) \o <<flip>>, norm |-> 1000],
                place |-> [origin |-> t, axes |-> QuarterTurn(axis, sign)]]
  <2>1. link \in Links
    BY DEF MeasurableLinks
  <2>. QED  BY <2>1, SMTT(60) DEF Links
<1>2. /\ link.ros = [xyzw |-> Scale(flip * sign, Unit(axis)) \o <<flip>>, norm |-> 1000]
      /\ link.place.origin = t /\ link.place.axes = QuarterTurn(axis, sign)
      /\ link.translation = t
  BY <1>1
<1>3. QuaternionFromRosXyzw(link.ros) = TurnOf(axis, sign, flip)
  <2>. DEFINE q == TurnOf(axis, sign, flip)
  <2>1. q.w = flip /\ q.v = Scale(flip * sign, Unit(axis)) /\ q \in Quaternions
    BY TurnIsQuaternion DEF TurnOf
  <2>. HIDE DEF q
  <2>2. link.ros = QuaternionToRosXyzw(q)
    <3>. DEFINE sent == Scale(flip * sign, Unit(axis)) \o <<flip>>
                told == q.v \o <<q.w>>
    <3>1. link.ros = [xyzw |-> sent, norm |-> 1000]
      BY <1>2
    <3>2. QuaternionToRosXyzw(q) = [xyzw |-> told, norm |-> 1000]
      BY Zenon DEF QuaternionToRosXyzw
    <3>3. told = sent
      BY <2>1, Zenon
    <3>. HIDE DEF sent, told
    <3>. QED  BY <3>1, <3>2, <3>3
  <2>3. QuaternionFromRosXyzw(QuaternionToRosXyzw(q)) = q
    BY <2>1, Transmitted
  <2>. QED  BY <2>2, <2>3 DEF q
<1>4. t \in Vectors
  BY VectorsAssumption DEF Vectors
<1>5. Measured(link).translation = t /\ Measured(link).rotation = TurnOf(axis, sign, flip)
  BY <1>2, <1>3 DEF Measured, Create
<1>. QED  BY <1>2, <1>4, <1>5, TurnIsQuaternion, AxesOfTurn DEF Means

-----------------------------------------------------------------------------
(* The chain means its placement, and one that closed stands still.        *)
ChainPlaced ==
  /\ Means(chain, placement)
  /\ chain.parent = chain.child => placement = Still

LEMMA IdentityMeans ==
  /\ \A frame : Means(Identity(frame), Still)
  /\ \A frame : Identity(frame).parent = frame /\ Identity(frame).child = frame
BY OneTurnsNothing DEF Means, Identity, Still

LEMMA TurnedZero ==
  ASSUME NEW m \in Matrices
  PROVE  Turned(m, Zero) = Zero
<1>1. Zero \in Vectors /\ Zero[1] = 0 /\ Zero[2] = 0 /\ Zero[3] = 0
  BY OneTurnsNothing DEF Zero
<1>2. /\ Turned(m, Zero) \in Vectors
      /\ Turned(m, Zero)[1] = 0 * m[1][1] + 0 * m[2][1] + 0 * m[3][1]
      /\ Turned(m, Zero)[2] = 0 * m[1][2] + 0 * m[2][2] + 0 * m[3][2]
      /\ Turned(m, Zero)[3] = 0 * m[1][3] + 0 * m[2][3] + 0 * m[3][3]
  BY <1>1, TurnedType DEF Axes
<1>3. Turned(m, Zero)[1] = 0 /\ Turned(m, Zero)[2] = 0 /\ Turned(m, Zero)[3] = 0
  BY <1>2, MatrixType
<1>. QED  BY <1>1, <1>2, <1>3, VectorType

(* A loop is the identity exactly when its placement is.                   *)
LEMMA LoopClosed ==
  ASSUME NEW left, NEW right, NEW from, NEW to, Means(left, from), Means(right, to)
  PROVE  ~MovesItsFrame(left, right) <=> Then(from, to) = Still
<1>. DEFINE q == Times(left.rotation, right.rotation)
            t == ComposedTranslation(left, right)
            placed == Then(from, to)
<1>1. placed.origin = t /\ placed.axes = AxesOf(q) /\ q \in Quaternions
  BY CompositionMeans
<1>2. AngleBetween(q, One) = 0 <=> AxesOf(q) = Still.axes
  BY <1>1, NoAngleStill
<1>3. placed = Still <=> placed.origin = Zero /\ placed.axes = Still.axes
  BY DEF Then, Still
<1>. QED  BY <1>1, <1>2, <1>3, Zenon DEF MovesItsFrame

LEMMA LinkFrames ==
  ASSUME NEW link \in MeasurableLinks
  PROVE  /\ Measured(link).parent = link.parent /\ Measured(link).child = link.child
         /\ link.parent # link.child
BY DEF MeasurableLinks, Measured, Create, CreateRefused, NotRefused

LEMMA ChainPlacedInit ==
  ASSUME ChainInit
  PROVE  ChainPlaced
<1>1. PICK link \in MeasurableLinks : chain = Measured(link) /\ placement = link.place
  BY DEF ChainInit
<1>. QED  BY <1>1, LinkMeans, LinkFrames DEF ChainPlaced

LEMMA ChainPlacedStep ==
  ASSUME ChainPlaced, [ChainNext]_chainVars
  PROVE  ChainPlaced'
<1>1. CASE Extend
  <2>1. PICK link \in MeasurableLinks :
          /\ ComposeRefused(chain, Measured(link)) = NotRefused
          /\ chain' = Compose(chain, Measured(link))
          /\ placement' = Then(placement, link.place)
    BY <1>1 DEF Extend
  <2>. DEFINE right == Measured(link)
  <2>2. Means(chain, placement) /\ Means(right, link.place)
    BY LinkMeans DEF ChainPlaced
  <2>3. CASE chain.parent = right.child
    <3>1. chain' = Identity(chain.parent)
      BY <2>1, <2>3 DEF Compose
    <3>2. ~MovesItsFrame(chain, right)
      BY <2>1, <2>3 DEF ComposeRefused, NotRefused
    <3>3. placement' = Still
      BY <2>1, <2>2, <3>2, LoopClosed
    <3>. QED  BY <3>1, <3>3, IdentityMeans DEF ChainPlaced
  <2>4. CASE chain.parent # right.child
    <3>1. /\ chain'.parent = chain.parent /\ chain'.child = right.child
          /\ chain'.translation = ComposedTranslation(chain, right)
          /\ chain'.rotation = Times(chain.rotation, right.rotation)
      BY <2>1, <2>4 DEF Compose
    <3>2. Means(chain', placement')
      BY <2>1, <2>2, <3>1, CompositionMeans DEF Means
    <3>. QED  BY <2>4, <3>1, <3>2 DEF ChainPlaced
  <2>. QED  BY <2>3, <2>4
<1>2. CASE Invert
  <2>1. chain' = Inverse(chain) /\ placement' = Back(placement)
    BY <1>2 DEF Invert
  <2>2. Means(chain, placement)
    BY DEF ChainPlaced
  <2>3. CASE chain.parent = chain.child
    <3>1. chain' = Identity(chain.parent) /\ placement = Still
      BY <2>1, <2>3 DEF Inverse, ChainPlaced
    <3>2. Means(Identity(chain.parent), Still)
      BY IdentityMeans
    <3>3. Back(Still) = Still
      <4>1. /\ Back(Still).origin = InverseTranslation(Identity(chain.parent))
            /\ Back(Still).axes = Transposed(Still.axes)
        BY <3>2, InversionMeans DEF Back
      <4>2. Transposed(Still.axes) = Still.axes
        BY UnitType DEF Transposed, Still, Unit
      <4>3. Rotate(Conjugate(One), Zero) = Zero
        <5>1. Conjugate(One) \in Quaternions /\ AxesOf(Conjugate(One)) \in Matrices
          BY OneTurnsNothing, ConjugateTurns, AxesScaled
        <5>2. \A m \in Matrices : Turned(m, Zero) = Zero
          BY TurnedZero
        <5>. QED  BY <5>1, <5>2, OneTurnsNothing, RotateIsTurned
      <4>4. InverseTranslation(Identity(chain.parent)) = Zero
        BY <4>3 DEF InverseTranslation, Identity, Minus, Zero, Axes
      <4>. QED  BY <4>1, <4>2, <4>4 DEF Back, Still
    <3>. QED  BY <2>1, <3>1, <3>2, <3>3, IdentityMeans DEF ChainPlaced
  <2>4. CASE chain.parent # chain.child
    <3>1. /\ chain'.parent = chain.child /\ chain'.child = chain.parent
          /\ chain'.translation = InverseTranslation(chain)
          /\ chain'.rotation = Conjugate(chain.rotation)
      BY <2>1, <2>4 DEF Inverse
    <3>2. Means(chain', placement')
      BY <2>1, <2>2, <3>1, InversionMeans DEF Means
    <3>. QED  BY <2>4, <3>1, <3>2 DEF ChainPlaced
  <2>. QED  BY <2>3, <2>4
<1>3. CASE Transmit
  <2>. DEFINE ros == QuaternionToRosXyzw(chain.rotation)
  <2>1. /\ CreateRefused(chain.parent, chain.child, chain.translation, ros) = NotRefused
        /\ chain' = Create(chain.parent, chain.child, chain.translation, ros)
        /\ placement' = placement
    BY <1>3 DEF Transmit
  <2>2. /\ Means(chain, placement) /\ chain.rotation \in Quaternions
        /\ chain.rotation.w \in Int /\ chain.rotation.v \in Vectors
        /\ chain.rotation = [w |-> chain.rotation.w, v |-> chain.rotation.v]
    BY QuaternionType DEF ChainPlaced, Means, Quaternions
  <2>3. QuaternionFromRosXyzw(ros) = chain.rotation
    BY <2>2, Transmitted
  <2>4. /\ chain'.parent = chain.parent /\ chain'.child = chain.child
        /\ chain'.translation = chain.translation /\ chain'.rotation = chain.rotation
    BY <2>1, <2>3 DEF Create
  <2>. QED  BY <2>1, <2>2, <2>4 DEF ChainPlaced, Means
<1>4. CASE UNCHANGED chainVars
  BY <1>4 DEF chainVars, ChainPlaced, Means
<1>. QED  BY <1>1, <1>2, <1>3, <1>4 DEF ChainNext

LEMMA ChainInvariant == ChainSpec => []ChainPlaced
BY ChainPlacedInit, ChainPlacedStep, PTL DEF ChainSpec

-----------------------------------------------------------------------------
(***************************************************************************)
(* A chain maps the points of its child frame to where they are            *)
(* (rigid_transform.cpp:132-184).                                          *)
(***************************************************************************)
THEOREM ChainsAlwaysPlacePoints == ChainSpec => []ChainPlacesPoints
<1>1. ChainPlaced => ChainPlacesPoints
  <2>1. {Zero} \cup {Unit(k) : k \in Axes} \subseteq Vectors
    BY OneTurnsNothing, UnitType
  <2>. QED  BY <2>1, PointsPlaced DEF ChainPlaced, ChainPlacesPoints
<1>. QED  BY <1>1, ChainInvariant, PTL

(***************************************************************************)
(* A link that closes a loop is accepted exactly when the loop is          *)
(* consistent (rigid_transform.cpp:147).                                   *)
(***************************************************************************)
THEOREM ClosedChainsAlwaysJudged == ChainSpec => []ClosedChainsJudged
<1>1. ASSUME ChainPlaced PROVE ClosedChainsJudged
  <2>. SUFFICES ASSUME NEW link \in MeasurableLinks,
                       link.parent = chain.child, link.child = chain.parent
                PROVE  ComposeRefused(chain, Measured(link)) = NotRefused
                         <=> Then(placement, link.place) = Still
    BY DEF ClosedChainsJudged
  <2>. DEFINE right == Measured(link)
              t == ComposedTranslation(chain, right)
  <2>1. ~MovesItsFrame(chain, right) <=> Then(placement, link.place) = Still
    BY <1>1, LinkMeans, LoopClosed DEF ChainPlaced
  <2>2. right.parent = chain.child /\ right.child = chain.parent
    BY LinkFrames
  <2>3. ~MovesItsFrame(chain, right) => t = Zero
    BY DEF MovesItsFrame
  <2>4. Finite(Zero)
    BY RangeAssumption DEF Finite, Zero
  <2>5. ComposeRefused(chain, right) = NotRefused <=> ~MovesItsFrame(chain, right)
    BY <2>2, <2>3, <2>4 DEF ComposeRefused, NotRefused
  <2>. QED  BY <2>1, <2>5
<1>. QED  BY <1>1, ChainInvariant, PTL

(* What is seen from a link and the link seen from it, together.           *)
LEMMA PlacementRecovered ==
  ASSUME NEW left, NEW right, NEW from, NEW to, Means(left, from), Means(right, to)
  PROVE  /\ Then(Then(from, to), Back(to)).origin = from.origin
         /\ Then(Then(from, to), Back(to)).axes = from.axes
<1>. DEFINE a == AxesOf(left.rotation)
            b == AxesOf(right.rotation)
            l == Transposed(b)
            c == [k \in Axes |-> Turned(a, b[k])]
            p == left.translation
            t == right.translation
            u == Turned(a, t)
            w == Turned(l, t)
<1>1. /\ left.rotation \in Quaternions /\ right.rotation \in Quaternions
      /\ p \in Vectors /\ t \in Vectors
      /\ from.origin = p /\ from.axes = a /\ to.origin = t /\ to.axes = b
  BY DEF Means
<1>2. a \in Matrices /\ b \in Matrices /\ l \in Matrices
  BY <1>1, AxesScaled, TransposedType
<1>3. \A v \in Vectors : Turned(b, Turned(l, v)) = v
  BY <1>1, RotatedBack
<1>4. /\ Then(from, to).axes = c /\ Then(from, to).origin = Plus(p, u)
      /\ Back(to).origin = Scale(-1, w) /\ Back(to).axes = l
  BY <1>1 DEF Then, Back, Placed
<1>5. /\ Then(Then(from, to), Back(to)).origin = Plus(Plus(p, u), Turned(c, Scale(-1, w)))
      /\ Then(Then(from, to), Back(to)).axes = [k \in Axes |-> Turned(c, l[k])]
  BY <1>4 DEF Then, Placed
<1>. HIDE DEF a, b, l, p, t
<1>6. c = [k \in Axes |-> Turned(a, b[k])]
  OBVIOUS
<1>. HIDE DEF c
<1>7. c \in Matrices /\ \A v \in Vectors : Turned(c, v) = Turned(a, Turned(b, v))
  BY <1>2, <1>6, OneTurnsNothing, TurnedTwice
<1>8. \A k \in Axes : Turned(c, l[k]) = a[k]
  <2>. SUFFICES ASSUME NEW k \in Axes PROVE Turned(c, l[k]) = a[k]
    OBVIOUS
  <2>1. Unit(k) \in Vectors /\ l[k] = Turned(l, Unit(k)) /\ a[k] = Turned(a, Unit(k))
    BY <1>2, UnitType, TurnedUnit
  <2>2. l[k] \in Vectors
    BY <1>2 DEF Matrices
  <2>3. Turned(b, l[k]) = Unit(k)
    BY <1>3, <2>1
  <2>. QED  BY <1>7, <2>1, <2>2, <2>3
<1>9. [k \in Axes |-> Turned(c, l[k])] = a
  BY <1>2, <1>8 DEF Matrices
<1>10. u \in Vectors /\ w \in Vectors
  BY <1>1, <1>2, TurnedType DEF p, t
<1>11. Turned(b, Scale(-1, w)) = Scale(-1, t)
  BY <1>1, <1>2, <1>3, <1>10, ScaledOnce DEF t
<1>12. Turned(c, Scale(-1, w)) = Scale(-1, u)
  BY <1>1, <1>2, <1>7, <1>10, <1>11, ScaledOnce DEF t
<1>13. Plus(Plus(p, u), Scale(-1, u)) = p
  <2>. HIDE DEF u
  <2>1. p \in [Axes -> Int] /\ u \in [Axes -> Int]
    BY <1>1, <1>10 DEF p, Vectors
  <2>2. \A k \in Axes : (p[k] + u[k]) + (-1) * u[k] = p[k]
    BY <2>1
  <2>3. Plus(Plus(p, u), Scale(-1, u)) = [k \in Axes |-> (p[k] + u[k]) + (-1) * u[k]]
    BY DEF Plus, Scale
  <2>. QED  BY <2>1, <2>2, <2>3
<1>. QED  BY <1>1, <1>5, <1>9, <1>12, <1>13 DEF a, p

(* No operation of the library makes a chain that leaves the range.        *)
ChainFinite == Finite(chain.translation)

LEMMA ChainStaysFinite == ChainSpec => []ChainFinite
<1>1. Finite(Zero)
  BY RangeAssumption DEF Finite, Zero
<1>2. ChainInit => ChainFinite
  BY DEF ChainInit, MeasurableLinks, Measured, Create, CreateRefused, NotRefused, ChainFinite
<1>3. ChainFinite /\ [ChainNext]_chainVars => ChainFinite'
  <2>. SUFFICES ASSUME ChainFinite, [ChainNext]_chainVars  PROVE ChainFinite'
    OBVIOUS
  <2>1. CASE Extend
    BY <1>1, <2>1 DEF Extend, ComposeRefused, Compose, Identity, NotRefused, ChainFinite
  <2>2. CASE Invert
    BY <1>1, <2>2 DEF Invert, InverseRefused, Inverse, Identity, NotRefused, ChainFinite
  <2>3. CASE Transmit
    BY <2>3 DEF Transmit, CreateRefused, Create, NotRefused, ChainFinite
  <2>4. CASE UNCHANGED chainVars
    BY <2>4 DEF chainVars, ChainFinite
  <2>. QED  BY <2>1, <2>2, <2>3, <2>4 DEF ChainNext
<1>. QED  BY <1>2, <1>3, PTL DEF ChainSpec

(***************************************************************************)
(* The camera pose of a base is accepted and gives the base's pose back    *)
(* (rigid_transform.cpp:234).                                              *)
(***************************************************************************)
THEOREM BasePoseAlwaysRecovered == ChainSpec => []BasePoseRecovered
<1>1. ASSUME ChainPlaced, ChainFinite PROVE BasePoseRecovered
  <2>. SUFFICES ASSUME chain.parent = "odom", chain.child = "base_link",
                       NEW link \in MeasurableLinks,
                       Measured(link).parent = "base_link",
                       Measured(link).child = "camera_link"
                PROVE  LET camera == Compose(chain, Measured(link))
                       IN  /\ CameraPoseToBasePoseRefused(camera, Measured(link)) = NotRefused
                           /\ IsEquivalent(CameraPoseToBasePose(camera, Measured(link)),
                                           chain, 0, 0)
    BY DEF BasePoseRecovered, IsEquivalentRefused
  <2>. DEFINE mount == Measured(link)
              camera == Compose(chain, mount)
              back == Inverse(mount)
              base == CameraPoseToBasePose(camera, mount)
  <2>1. Means(chain, placement) /\ Means(mount, link.place)
    BY <1>1, LinkMeans DEF ChainPlaced
  <2>2. mount.parent = "base_link" /\ mount.child = "camera_link"
    OBVIOUS
  <2>3. Finite(mount.translation)
    BY DEF MeasurableLinks, Measured, Create, CreateRefused, NotRefused
  <2>4. InverseRefused(mount) = NotRefused
    BY <2>1, <2>3, InverseFinite
  <2>5. /\ camera.parent = "odom" /\ camera.child = "camera_link"
        /\ camera.translation = ComposedTranslation(chain, mount)
        /\ camera.rotation = Times(chain.rotation, mount.rotation)
    BY DEF Compose
  <2>6. /\ back.parent = "camera_link" /\ back.child = "base_link"
        /\ back.translation = InverseTranslation(mount)
        /\ back.rotation = Conjugate(mount.rotation)
    BY DEF Inverse
  <2>7. Means(camera, Then(placement, link.place)) /\ Means(back, Back(link.place))
    BY <2>1, <2>5, <2>6, CompositionMeans, InversionMeans DEF Means
  <2>. HIDE DEF camera, back, mount
  <2>8. /\ base.parent = "odom" /\ base.child = "base_link"
        /\ base.translation = ComposedTranslation(camera, back)
        /\ base.rotation = Times(camera.rotation, back.rotation)
    BY <2>5, <2>6 DEF CameraPoseToBasePose, Compose, back
  <2>9. /\ Then(Then(placement, link.place), Back(link.place)).origin = placement.origin
        /\ Then(Then(placement, link.place), Back(link.place)).axes = placement.axes
    BY <2>1, PlacementRecovered
  <2>10. /\ base.translation = chain.translation
        /\ base.rotation \in Quaternions
        /\ AxesOf(base.rotation) = AxesOf(chain.rotation)
    BY <2>1, <2>7, <2>8, <2>9, CompositionMeans DEF Means
  <2>11. AngleBetween(base.rotation, chain.rotation) = 0
    BY <2>1, <2>10, SameAxesNoAngle DEF Means
  <2>12. SquaredDistance(base.translation, chain.translation) = 0
    <3>1. Minus(chain.translation, chain.translation) = [k \in Axes |-> 0]
      BY <2>1 DEF Means, Vectors, Minus
    <3>. QED  BY <2>10, <3>1 DEF SquaredDistance, Dot, Axes
  <2>. HIDE DEF base
  <2>13. IsEquivalent(base, chain, 0, 0)
    BY <2>8, <2>11, <2>12 DEF IsEquivalent
  <2>14. Finite(ComposedTranslation(camera, back))
    BY <1>1, <2>8, <2>10 DEF ChainFinite
  <2>15. ComposeRefused(camera, back) = NotRefused
    BY <2>5, <2>6, <2>14 DEF ComposeRefused
  <2>16. CameraPoseToBasePoseRefused(camera, mount) = NotRefused
    BY <2>5, <2>2, <2>4, <2>15 DEF CameraPoseToBasePoseRefused, back
  <2>. QED  BY <2>13, <2>16 DEF base, camera, mount
<1>. QED  BY <1>1, ChainInvariant, ChainStaysFinite, PTL

-----------------------------------------------------------------------------
(* What an ideal camera reports, converted, is the motion of its base.     *)
LEMMA CameraReportConverted ==
  ASSUME Means(chain, placement), NEW motion \in Motions, NEW twist,
         twist.linear = Turned(Transposed(placement.axes),
                          Plus(motion.linear, Cross(motion.angular, placement.origin))),
         twist.angular = Turned(Transposed(placement.axes), motion.angular)
  PROVE  InstantaneousCameraTwistToBase(twist, chain)
           = [linear |-> motion.linear, angular |-> motion.angular,
              reference_point |-> chain.parent, expressed_in |-> chain.parent]
<1>. DEFINE a == AxesOf(chain.rotation)
            l == Transposed(a)
            t == chain.translation
            v == motion.linear
            r == motion.angular
            c == Cross(r, t)
            speed == Plus(v, c)
<1>1. v \in Vectors /\ r \in Vectors
  BY VectorsAssumption DEF Motions, Vectors
<1>2. /\ chain.rotation \in Quaternions /\ t \in Vectors
      /\ placement.axes = a /\ placement.origin = t
  BY DEF Means
<1>3. c \in Vectors /\ speed \in Vectors
  BY <1>1, <1>2, CrossType, VectorSums
<1>4. l \in Matrices
  BY <1>2, AxesScaled, TransposedType
<1>5. Turned(l, speed) \in Vectors /\ Turned(l, r) \in Vectors
  BY <1>1, <1>3, <1>4, TurnedType
<1>6. twist.linear = Turned(l, speed) /\ twist.angular = Turned(l, r)
  BY <1>2
<1>7. Rotate(chain.rotation, Turned(l, speed)) = speed
  BY <1>2, <1>3, <1>5, RotateIsTurned, RotatedBack
<1>8. Rotate(chain.rotation, Turned(l, r)) = r
  BY <1>1, <1>2, <1>5, RotateIsTurned, RotatedBack
<1>9. Minus(speed, c) = v
  <2>. HIDE DEF c, v
  <2>1. v \in [Axes -> Int] /\ c \in [Axes -> Int]
    BY <1>1, <1>3 DEF Vectors
  <2>2. Minus(speed, c) = [k \in Axes |-> (v[k] + c[k]) - c[k]]
    BY DEF Minus, Plus
  <2>3. \A k \in Axes : (v[k] + c[k]) - c[k] = v[k]
    BY <2>1
  <2>. QED  BY <2>1, <2>2, <2>3
<1>. HIDE DEF l, speed, v, r
<1>. QED  BY <1>6, <1>7, <1>8, <1>9 DEF InstantaneousCameraTwistToBase, c, v, r

(***************************************************************************)
(* A converted twist is the motion of the base, for every source whose     *)
(* approval describes it truly, and the camera's own report is converted   *)
(* (twist_contract.cpp:36).                                                *)
(***************************************************************************)
THEOREM TwistAlwaysMeetsKinematics == ChainSpec => []TwistMeetsKinematics
<1>1. ASSUME ChainPlaced PROVE TwistMeetsKinematics
  <2>. SUFFICES ASSUME chain.parent = "base_link", chain.child = "camera_link"
                PROVE  TwistMeetsKinematics
    BY DEF TwistMeetsKinematics
  <2>1. Means(chain, placement)
    BY <1>1 DEF ChainPlaced
  <2>2. \A motion \in Motions :
          /\ Reported(motion, "camera_link", "camera_link")
               = [linear |-> Turned(Transposed(placement.axes),
                               Plus(motion.linear, Cross(motion.angular, placement.origin))),
                  angular |-> Turned(Transposed(placement.axes), motion.angular),
                  reference_point |-> "camera_link", expressed_in |-> "camera_link"]
          /\ Reported(motion, "base_link", "base_link")
               = [linear |-> motion.linear, angular |-> motion.angular,
                  reference_point |-> "base_link", expressed_in |-> "base_link"]
    BY DEF Reported
  <2>3. ASSUME NEW semantics \in Semantics, NEW motion \in Motions, NEW reported \in Motions,
               NEW claim \in {chain.parent, chain.child},
               Describes(semantics, motion, reported)
        PROVE  LET told == Reported(reported, semantics.reference_point, semantics.expressed_in)
                   twist == [told EXCEPT !.reference_point = claim, !.expressed_in = claim]
                   base == InstantaneousCameraTwistToBase(twist, chain)
               IN  TwistRefused(twist, chain, semantics) = NotRefused =>
                     base = Reported(motion, "base_link", "base_link")
    <3>. DEFINE told == Reported(reported, semantics.reference_point, semantics.expressed_in)
                twist == [told EXCEPT !.reference_point = claim, !.expressed_in = claim]
    <3>. SUFFICES ASSUME TwistRefused(twist, chain, semantics) = NotRefused
                  PROVE  InstantaneousCameraTwistToBase(twist, chain)
                           = Reported(motion, "base_link", "base_link")
      OBVIOUS
    <3>1. ~SemanticsMismatch(semantics, "camera_link")
      BY DEF TwistRefused, NotRefused
    <3>2. /\ semantics.reference_point = "camera_link"
          /\ semantics.expressed_in = "camera_link"
          /\ semantics.temporal_model = "instantaneous"
          /\ semantics.approval_id \notin {"none", ""}
      BY <3>1 DEF SemanticsMismatch, Approved
    <3>3. semantics.approval_id = "approval"
      <4>1. CuvslamRawUnapproved.approval_id = "none"
        BY DEF CuvslamRawUnapproved
      <4>2. semantics \in Semantics
        OBVIOUS
      <4>. HIDE DEF twist
      <4>3. semantics.approval_id \in {"none", "", "approval"}
        BY <4>1, <4>2 DEF Semantics
      <4>. QED  BY <3>2, <4>3
    <3>4. reported = motion
      BY <2>3, <3>2, <3>3 DEF Describes
    <3>5. told = [linear |-> Turned(Transposed(placement.axes),
                               Plus(motion.linear, Cross(motion.angular, placement.origin))),
                  angular |-> Turned(Transposed(placement.axes), motion.angular),
                  reference_point |-> "camera_link", expressed_in |-> "camera_link"]
      BY <2>2, <3>2, <3>4
    <3>. HIDE DEF told
    <3>6. /\ twist.linear = Turned(Transposed(placement.axes),
                              Plus(motion.linear, Cross(motion.angular, placement.origin)))
          /\ twist.angular = Turned(Transposed(placement.axes), motion.angular)
      BY <3>5
    <3>. HIDE DEF twist
    <3>7. InstantaneousCameraTwistToBase(twist, chain)
            = [linear |-> motion.linear, angular |-> motion.angular,
               reference_point |-> chain.parent, expressed_in |-> chain.parent]
      BY <2>1, <3>6, CameraReportConverted
    <3>. QED  BY <2>2, <3>7
  <2>4. ASSUME NEW motion \in Motions
        PROVE  LET twist == Reported(motion, "camera_link", "camera_link")
               IN  TwistRefused(twist, chain,
                     [reference_point |-> "camera_link", expressed_in |-> "camera_link",
                      temporal_model |-> "instantaneous", approval_id |-> "approval"])
                     \in {NotRefused, "NumericContractViolation"}
    <3>. DEFINE twist == Reported(motion, "camera_link", "camera_link")
                semantics == [reference_point |-> "camera_link", expressed_in |-> "camera_link",
                              temporal_model |-> "instantaneous", approval_id |-> "approval"]
    <3>1. ~SemanticsMismatch(semantics, chain.child)
      BY DEF SemanticsMismatch, Approved
    <3>2. twist.reference_point = "camera_link" /\ twist.expressed_in = "camera_link"
      BY <2>2
    <3>. HIDE DEF twist, semantics
    <3>3. TwistRefused(twist, chain, semantics) \in {NotRefused, "NumericContractViolation"}
      BY <3>1, <3>2 DEF TwistRefused
    <3>. QED  BY <3>3 DEF twist, semantics
  <2>. QED  BY <2>3, <2>4 DEF TwistMeetsKinematics
<1>. QED  BY <1>1, ChainInvariant, PTL
=============================================================================
