\* Sources that do as they like, then settle or go silent: what must happen in the end.
SPECIFICATION LivenessSpec
CONSTANTS
  RecoveryRequired = 2
  DiagnosticPeriod = 1
  OdometryStaleAfter = 2
  TrackingStaleAfter = 2
  DiagnosticStaleAfter = 2
  StartupTimeout = 3
  RateWindow = 2
  MinRateSamples = 1
  MinRateTicks = 1
  MaxStampGap = 1
  MaxReceiveGap = 1
  MaxClockResidual = 1
  MaxSkew = 1
  MaxPoseStep = 1
  NumRequired = 1
  MaximumLevel <- OneLevel
  ExpectedPublisher <- OnePublisher
  ExpectedOdometryPublisher = vslam
  ExpectedStatusPublisher = vslam
  Approvals <- NoApprovals
  CameraOffset = 1
  Poses = {0}
  Untransformable = {}
  OdometryLags <- OnTime
  OdometryDefects <- NoDefects
  StatusLags <- OnTime
  StatusKinds = {"lost", "tracking"}
  DiagnosticLags <- OnTime
  DiagnosticStatuses <- GoodStatus
  DiagnosticGids = {1}
  DiagnosticEndpoints <- Discovered
  PublisherLists <- SomeGraphs
  ClockSteps <- NoSteps
  RosStart = 1
  MaxTime = 4
  MaxRos = 10
  TimerSlack = 0
  Nodes = {vslam, relay, monitor, stranger}
  vslam = vslam
  relay = relay
  monitor = monitor
  stranger = stranger
  SteadyPose = 0
  SettleBy = 3
PROPERTIES
  GoodInputsAreTrusted
  SilenceIsFound
  VerdictsAreReported
