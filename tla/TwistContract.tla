---------------------------- MODULE TwistContract ----------------------------
(***************************************************************************)
(* localization_contracts/src/twist_contract.cpp: when a camera's body     *)
(* twist may be converted to the base, and to what.  semantics is what an  *)
(* approval says of the source: the point whose velocity it reports, the   *)
(* frame it is expressed in, its temporal model ("window" is cuVSLAM's     *)
(* difference of poses) and the approval's id; NoFrame and "none" stand    *)
(* for disengaged optionals.                                               *)
(***************************************************************************)
EXTENDS RigidTransform

NoFrame == "no frame"

Approved(semantics) == semantics.approval_id \notin {"none", ""}

CuvslamRawUnapproved ==
  [reference_point |-> NoFrame, expressed_in |-> NoFrame,
   temporal_model |-> "window", approval_id |-> "none"]

SemanticsMismatch(semantics, camera_frame) ==
  \/ ~Approved(semantics)
  \/ semantics.reference_point # camera_frame
  \/ semantics.expressed_in # camera_frame
  \/ semantics.temporal_model # "instantaneous"

TwistRefused(velocity, base_from_camera, semantics) ==
  IF SemanticsMismatch(semantics, base_from_camera.child)
    THEN "UnapprovedTwistSemantics"
  ELSE IF {velocity.reference_point, velocity.expressed_in} # {base_from_camera.child}
    THEN "FrameContractViolation"
  ELSE IF ~(Finite(velocity.linear) /\ Finite(velocity.angular))
    THEN "NumericContractViolation"
  ELSE NotRefused

(* Slip: the base is taken to move as the camera does. *)
WithoutLeverArm(velocity, base_from_camera) ==
  [linear |-> Rotate(base_from_camera.rotation, velocity.linear),
   angular |-> Rotate(base_from_camera.rotation, velocity.angular),
   reference_point |-> base_from_camera.parent,
   expressed_in |-> base_from_camera.parent]

InstantaneousCameraTwistToBase(velocity, base_from_camera) ==
  LET angular == Rotate(base_from_camera.rotation, velocity.angular)
      linear == Rotate(base_from_camera.rotation, velocity.linear)
  IN  [linear |-> Minus(linear, Cross(angular, base_from_camera.translation)),
       angular |-> angular,
       reference_point |-> base_from_camera.parent,
       expressed_in |-> base_from_camera.parent]
=============================================================================
