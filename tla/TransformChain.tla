--------------------------- MODULE TransformChain ---------------------------
(***************************************************************************)
(* A client of the transform library: it builds a chain of transforms out  *)
(* of measured links, in any order of the library's operations, and        *)
(* converts twists with it.  A refused operation throws and leaves the     *)
(* chain alone.  Beside the chain goes what it should mean: placement, the *)
(* origin and the axes of the child frame seen from the parent, computed   *)
(* from the links as in Placement.                                         *)
(***************************************************************************)
EXTENDS TwistContract, Placement

CONSTANTS
  Frames,    \* the frames that links connect
  Offsets,   \* the translations of links
  Rates      \* linear and angular velocities of the moving base

ASSUME VectorsAssumption == Offsets \cup Rates \subseteq [Axes -> Int]

VARIABLES chain, placement

chainVars == <<chain, placement>>

-----------------------------------------------------------------------------
(* A link is measured with either of the two quaternions of its rotation.  *)
Links ==
  {[parent |-> f, child |-> g, translation |-> t,
    ros |-> [xyzw |-> Scale(flip * sign, Unit(axis)) \o <<flip>>, norm |-> 1000],
    place |-> [origin |-> t, axes |-> QuarterTurn(axis, sign)]] :
     f \in Frames, g \in Frames, t \in Offsets,
     axis \in Axes, sign \in {-1, 0, 1}, flip \in {-1, 1}}

Measured(link) == Create(link.parent, link.child, link.translation, link.ros)

MeasurableLinks ==
  {link \in Links :
     CreateRefused(link.parent, link.child, link.translation, link.ros) = NotRefused}

-----------------------------------------------------------------------------
(***************************************************************************)
(* The client.                                                             *)
(***************************************************************************)
ChainInit ==
  \E link \in MeasurableLinks : chain = Measured(link) /\ placement = link.place

Extend ==
  \E link \in MeasurableLinks :
    /\ ComposeRefused(chain, Measured(link)) = NotRefused
    /\ chain' = Compose(chain, Measured(link))
    /\ placement' = Then(placement, link.place)

Invert ==
  /\ InverseRefused(chain) = NotRefused
  /\ chain' = Inverse(chain)
  /\ placement' = Back(placement)

(* The chain goes through a ROS message; an identity cannot.               *)
Transmit ==
  LET ros == QuaternionToRosXyzw(chain.rotation)
  IN  /\ CreateRefused(chain.parent, chain.child, chain.translation, ros) = NotRefused
      /\ chain' = Create(chain.parent, chain.child, chain.translation, ros)
      /\ UNCHANGED placement

ChainNext == Extend \/ Invert \/ Transmit

ChainSpec == ChainInit /\ [][ChainNext]_chainVars

-----------------------------------------------------------------------------
(***************************************************************************)
(* ChainPlacesPoints: however it was built and whichever quaternions its   *)
(* links came with, a chain maps the points of its child frame to where    *)
(* they are (rigid_transform.cpp:132-184).                                 *)
(***************************************************************************)
ChainPlacesPoints ==
  \A point \in {Zero} \cup {Unit(k) : k \in Axes} :
    ApplyPointRefused(chain, point) = NotRefused =>
      ApplyPoint(chain, point) = Placed(placement, point)

(***************************************************************************)
(* ClosedChainsJudged: a link that leads back to the first frame of the    *)
(* chain is accepted exactly when the loop is consistent: an honest link   *)
(* is never refused, whatever the sign of its quaternion, and a link off   *)
(* by a translation or a rotation never passes (rigid_transform.cpp:147).  *)
(* Rounding, which the lattice does not have, is outside of this.          *)
(***************************************************************************)
ClosedChainsJudged ==
  \A link \in MeasurableLinks :
    (link.parent = chain.child /\ link.child = chain.parent) =>
      (ComposeRefused(chain, Measured(link)) = NotRefused
         <=> Then(placement, link.place) = Still)

(***************************************************************************)
(* BasePoseRecovered: seen through any camera mount, the camera pose of a  *)
(* base is accepted and gives the base's pose back (CameraPoseToBasePose,  *)
(* rigid_transform.cpp:234).  That it is never refused for its range rests *)
(* on the lattice, whose rotations turn the finite range onto itself.      *)
(***************************************************************************)
BasePoseRecovered ==
  (chain.parent = "odom" /\ chain.child = "base_link") =>
    \A link \in MeasurableLinks :
      LET mount == Measured(link)
          camera == Compose(chain, mount)
      IN  ( /\ <<mount.parent, mount.child>> = <<"base_link", "camera_link">>
            /\ ComposeRefused(chain, mount) = NotRefused ) =>
            /\ CameraPoseToBasePoseRefused(camera, mount) = NotRefused
            /\ IsEquivalentRefused(0, 0) = NotRefused
            /\ IsEquivalent(CameraPoseToBasePose(camera, mount), chain, 0, 0)

-----------------------------------------------------------------------------
Motions == {[linear |-> v, angular |-> a] : v \in Rates, a \in Rates}

(* What an ideal sensor reports of the base's motion for a point, the base *)
(* or the camera, in the axes of the base or the camera.                   *)
Reported(motion, point, frame) ==
  LET speed == IF point = chain.child
                 THEN Plus(motion.linear, Cross(motion.angular, placement.origin))
               ELSE motion.linear
      seen(u) == IF frame = chain.child THEN Turned(Transposed(placement.axes), u) ELSE u
  IN  [linear |-> seen(speed), angular |-> seen(motion.angular),
       reference_point |-> point, expressed_in |-> frame]

Semantics ==
  {CuvslamRawUnapproved} \cup
  [reference_point : {chain.parent, chain.child},
   expressed_in : {chain.parent, chain.child},
   temporal_model : {"unknown", "window", "instantaneous"},
   approval_id : {"none", "", "approval"}]

(* Only approved, instantaneous semantics say what the numbers are; of any *)
(* other source the numbers may be those of another motion.                *)
Describes(semantics, motion, reported) ==
  (semantics.approval_id = "approval" /\ semantics.temporal_model = "instantaneous")
    => reported = motion

(***************************************************************************)
(* TwistMeetsKinematics: a converted twist is the motion of the base, for  *)
(* every source whose approval describes it truly: no report of another    *)
(* point, frame or instant, whatever frames it claims, and none of an      *)
(* unapproved source, is converted (twist_contract.cpp:36).  The camera's  *)
(* own report is.                                                          *)
(***************************************************************************)
TwistMeetsKinematics ==
  (chain.parent = "base_link" /\ chain.child = "camera_link") =>
    /\ \A semantics \in Semantics, motion \in Motions, reported \in Motions,
          claim \in {chain.parent, chain.child} :
         Describes(semantics, motion, reported) =>
           LET told == Reported(reported, semantics.reference_point, semantics.expressed_in)
               twist == [told EXCEPT !.reference_point = claim, !.expressed_in = claim]
               base == InstantaneousCameraTwistToBase(twist, chain)
           IN  TwistRefused(twist, chain, semantics) = NotRefused =>
                 base = Reported(motion, "base_link", "base_link")
    /\ \A motion \in Motions :
         LET twist == Reported(motion, "camera_link", "camera_link")
         IN  TwistRefused(twist, chain,
               [reference_point |-> "camera_link", expressed_in |-> "camera_link",
                temporal_model |-> "instantaneous", approval_id |-> "approval"])
               \in {NotRefused, "NumericContractViolation"}
=============================================================================
