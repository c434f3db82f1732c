\* Lost frames and tracking, a clock set forward, full histories, two writers, restarts.
SPECIFICATION SystemSpec
CONSTANTS
  RecoveryRequired = 2
  DiagnosticPeriod = 1
  OdometryStaleAfter = 2
  TrackingStaleAfter = 2
  DiagnosticStaleAfter = 2
  StartupTimeout = 3
  RateWindow = 2
  MinRateSamples = 1
  MinRateTicks = 1
  MaxStampGap = 1
  MaxReceiveGap = 1
  MaxClockResidual = 2
  MaxSkew = 1
  MaxPoseStep = 1
  NumRequired = 2
  MaximumLevel <- TwoLevels
  ExpectedPublisher <- TwoPublishers
  ExpectedOdometryPublisher = vslam
  ExpectedStatusPublisher = vslam
  Approvals <- NoApprovals
  CameraOffset = 1
  Poses = {0}
  Untransformable = {}
  OdometryLags <- OnTime
  OdometryDefects <- NoDefects
  StatusLags <- OnTime
  StatusKinds = {"tracking","lost"}
  DiagnosticLags <- OnTime
  DiagnosticStatuses <- GoodStatus
  DiagnosticGids = {1}
  DiagnosticEndpoints <- BothDiscovered
  PublisherLists <- OneGraph
  ClockSteps <- ForwardSteps
  RosStart = 1
  MaxTime = 10
  MaxRos = 4
  TimerSlack = 0
  Nodes = {vslam, relay, monitor, stranger}
  vslam = vslam
  relay = relay
  monitor = monitor
  stranger = stranger
  QueueDepth = 2
  Losses <- FrameAndTracking
INVARIANTS
  
  TrustIsEarnedAnew
