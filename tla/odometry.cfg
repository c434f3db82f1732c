\* The odometry handler: window, gaps, rate, pose steps, clock, defects and publishers.
SPECIFICATION Spec
CONSTANTS
  RecoveryRequired = 2
  DiagnosticPeriod = 1
  OdometryStaleAfter = 3
  TrackingStaleAfter = 2
  DiagnosticStaleAfter = 2
  StartupTimeout = 4
  RateWindow = 3
  MinRateSamples = 1
  MinRateTicks = 1
  MaxStampGap = 2
  MaxReceiveGap = 2
  MaxClockResidual = 1
  MaxSkew = 1
  MaxPoseStep = 1
  NumRequired = 1
  MaximumLevel <- OneLevel
  ExpectedPublisher <- OnePublisher
  ExpectedOdometryPublisher = vslam
  ExpectedStatusPublisher = vslam
  Approvals <- ExtrinsicApproved
  CameraOffset = 1
  Poses = {0, 1, 2}
  Untransformable = {2}
  OdometryLags <- EarlyOrLate
  OdometryDefects <- AnyDefect
  StatusLags <- EarlyOrLate
  StatusKinds = {"tracking"}
  DiagnosticLags <- OnTime
  DiagnosticStatuses <- NoStatus
  DiagnosticGids = {1}
  DiagnosticEndpoints <- Discovered
  PublisherLists <- SomeGraphs
  ClockSteps <- NoSteps
  RosStart = 3
  MaxTime = 4
  MaxRos = 10
  TimerSlack = 0
  Nodes = {vslam, relay, monitor, stranger}
  vslam = vslam
  relay = relay
  monitor = monitor
  stranger = stranger
INVARIANTS
  GuardsNotPoisoned
  ShadowPoseCurrent
PROPERTIES
  AcceptedPosesContinuous
