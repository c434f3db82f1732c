\* Frames of any pose and quaternion sign, and frames refused for their numbers.
SPECIFICATION PoseSpec
CONSTANTS
  MaxFinite = 2
  MalformedFrames = {"", "/odom"}
  Samples <- AllSamples
  Mount <- FrontMount
  MaxPositionStep = 1
  MaxRotationStep = 90
INVARIANTS
  ValidatedPosesConstruct
  ShadowPlacesBase
  AcceptedSpreadIsReal
PROPERTIES
  StepsBounded
