\* A timer slower than the ticks and an executor that lags: how stale healthy can be.
SPECIFICATION Spec
CONSTANTS
  RecoveryRequired = 1
  DiagnosticPeriod = 2
  OdometryStaleAfter = 3
  TrackingStaleAfter = 3
  DiagnosticStaleAfter = 3
  StartupTimeout = 4
  RateWindow = 2
  MinRateSamples = 1
  MinRateTicks = 2
  MaxStampGap = 2
  MaxReceiveGap = 2
  MaxClockResidual = 1
  MaxSkew = 2
  MaxPoseStep = 1
  NumRequired = 1
  MaximumLevel <- OneLevel
  ExpectedPublisher <- OnePublisher
  ExpectedOdometryPublisher = vslam
  ExpectedStatusPublisher = vslam
  Approvals <- NoApprovals
  CameraOffset = 1
  Poses = {0}
  Untransformable = {}
  OdometryLags <- Delayed
  OdometryDefects <- NoDefects
  StatusLags <- OnTime
  StatusKinds = {"tracking"}
  DiagnosticLags <- OnTime
  DiagnosticStatuses <- GoodStatus
  DiagnosticGids = {1}
  DiagnosticEndpoints <- Discovered
  PublisherLists <- OneGraph
  ClockSteps <- NoSteps
  RosStart = 3
  MaxTime = 8
  MaxRos = 11
  TimerSlack = 1
  Nodes = {vslam, relay, monitor, stranger}
  vslam = vslam
  relay = relay
  monitor = monitor
  stranger = stranger
INVARIANTS
  HealthyStalenessBounded
  SourceAgeBounded
  StartupEnds
