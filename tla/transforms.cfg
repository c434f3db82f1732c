\* Every chain of measured links whose translation stays within the range.
SPECIFICATION ChainSpec
CONSTANTS
  MaxFinite = 2
  MalformedFrames = {"", "/odom"}
  Frames = {"odom", "base_link", "camera_link"}
  Offsets <- StraightOffsets
  Rates <- SlowRates
INVARIANTS
  ChainPlacesPoints
  ClosedChainsJudged
  BasePoseRecovered
  TwistMeetsKinematics
