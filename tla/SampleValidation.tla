-------------------------- MODULE SampleValidation --------------------------
(***************************************************************************)
(* What validation.cpp computes from the numbers of an odometry sample.    *)
(* AdapterNode takes its results, the defects of a sample and the length   *)
(* of a step, as inputs.                                                   *)
(*                                                                         *)
(* A covariance is given on two of its six components and zero elsewhere:  *)
(* a 2 x 2 integer matrix, on which the tolerance 1.0e-10 is equality.     *)
(***************************************************************************)
EXTENDS RigidTransform

MeasurePoseStepRefused(previous, current) ==
  IF <<previous.parent, previous.child>> # <<current.parent, current.child>>
    THEN "FrameContractViolation"
  ELSE NotRefused

(* The translation is squared, the rotation in degrees. *)
MeasurePoseStep(previous, current) ==
  [translation |-> SquaredDistance(current.translation, previous.translation),
   rotation |-> AngleBetween(previous.rotation, current.rotation)]

(* Slip: variances are looked at, correlations are not. *)
VariancesAreNonnegative(m) ==
  /\ Finite(m[1] \o m[2])
  /\ m[1][2] = m[2][1]
  /\ m[1][1] >= 0 /\ m[2][2] >= 0

(* The smaller eigenvalue of a symmetric matrix is nonnegative when its    *)
(* sum with and its product by the other are.                              *)
CovarianceIsSymmetricPositiveSemidefinite(m) ==
  /\ Finite(m[1] \o m[2])
  /\ m[1][2] = m[2][1]
  /\ m[1][1] + m[2][2] >= 0
  /\ m[1][1] * m[2][2] - m[1][2] * m[2][1] >= 0

(* Slip: the quaternion is left to Create. *)
IssuesButQuaternion(sample, parent, child) ==
  (IF sample.parent # parent THEN {"PARENT_FRAME_MISMATCH"} ELSE {})
    \cup (IF sample.child # child THEN {"CHILD_FRAME_MISMATCH"} ELSE {})
    \cup (IF ~(Finite(sample.position) /\ Finite(sample.velocity))
            THEN {"NONFINITE_MEASUREMENT"} ELSE {})
    \cup (IF ~CovarianceIsSymmetricPositiveSemidefinite(sample.covariance)
            THEN {"INVALID_POSE_COVARIANCE"} ELSE {})

(* ValidateOdometrySample, but for the stamp.  velocity stands for both    *)
(* velocities, covariance for that of the pose; that of the twist is       *)
(* tested in the same way.                                                 *)
Issues(sample, parent, child) ==
  (IF sample.parent # parent THEN {"PARENT_FRAME_MISMATCH"} ELSE {})
    \cup (IF sample.child # child THEN {"CHILD_FRAME_MISMATCH"} ELSE {})
    \cup (IF ~(Finite(sample.position) /\ Finite(sample.velocity))
            THEN {"NONFINITE_MEASUREMENT"} ELSE {})
    \cup (IF QuaternionRefused(sample.orientation) THEN {"INVALID_QUATERNION"} ELSE {})
    \cup (IF ~CovarianceIsSymmetricPositiveSemidefinite(sample.covariance)
            THEN {"INVALID_POSE_COVARIANCE"} ELSE {})
=============================================================================
