------------------------------- MODULE MCPoses -------------------------------
(***************************************************************************)
(* The frames of the run on poses: every position and orientation with     *)
(* either quaternion, and frames with something wrong with them.           *)
(***************************************************************************)
EXTENDS PosePipeline

Orientation(flip, w, v, axes) ==
  [ros |-> [xyzw |-> Scale(flip, v) \o <<flip * w>>, norm |-> 1000], axes |-> axes]

(* No turn, quarter turns and half turns. *)
Orientations ==
  {Orientation(flip, 1, Scale(sign, Unit(axis)), QuarterTurn(axis, sign)) :
     axis \in 1..2, sign \in {-1, 0, 1}, flip \in {-1, 1}}
  \cup
  {Orientation(flip, 0, Unit(axis), HalfTurn(axis)) : axis \in 1..2, flip \in {-1, 1}}

GoodSample(position, orientation) ==
  [parent |-> "odom", child |-> "camera_link", position |-> position,
   velocity |-> Zero, orientation |-> orientation.ros,
   covariance |-> <<<<1, 0>>, <<0, 1>>>>,
   place |-> [origin |-> position, axes |-> orientation.axes]]

Plain == GoodSample(Zero, Orientation(1, 1, Zero, QuarterTurn(1, 0)))

Infinite == <<MaxFinite + 1, 0, 0>>

AllSamples ==
  {GoodSample(p, o) : p \in {<<0, 0, 0>>, <<1, 0, 0>>, <<0, 2, 0>>}, o \in Orientations}
  \cup {[Plain EXCEPT !.orientation.norm = n] : n \in {NonfiniteNorm, 0, 998, 999, 1001, 1002}}
  \cup {[Plain EXCEPT !.covariance = <<<<a, b>>, <<b, d>>>>] :
          a \in -1..2, b \in {-1, 0, 2}, d \in -1..2}
  \cup {[Plain EXCEPT !.covariance = m] :
          m \in {<<<<1, 1>>, <<-1, 1>>>>, <<<<1, 0>>, <<1, 1>>>>, <<<<1, 0>>, <<0, MaxFinite + 1>>>>}}
  \cup {[Plain EXCEPT !.parent = "map"], [Plain EXCEPT !.child = "odom"],
        [Plain EXCEPT !.position = Infinite, !.place.origin = Infinite],
        [Plain EXCEPT !.velocity = Infinite],
        [Plain EXCEPT !.child = "base_link", !.velocity = Infinite]}

(* The camera half a turn about a diagonal, in front of the base. *)
FrontMount ==
  [translation |-> <<1, 0, 0>>,
   orientation |-> [xyzw |-> <<1, 1, 0, 0>>, norm |-> 1001],
   place |-> [origin |-> <<1, 0, 0>>, axes |-> <<<<0, 1, 0>>, <<1, 0, 0>>, <<0, 0, -1>>>>]]
=============================================================================
