\* A few messages of every kind, each counted.
SPECIFICATION CountersSpec
CONSTANTS
  MaxMessages = 4
  RecoveryRequired = 1
  DiagnosticPeriod = 1
  OdometryStaleAfter = 2
  TrackingStaleAfter = 2
  DiagnosticStaleAfter = 2
  StartupTimeout = 3
  RateWindow = 2
  MinRateSamples = 1
  MinRateTicks = 1
  MaxStampGap = 1
  MaxReceiveGap = 1
  MaxClockResidual = 1
  MaxSkew = 1
  MaxPoseStep = 1
  NumRequired = 2
  MaximumLevel <- TwoLevels
  ExpectedPublisher <- SharedPublisher
  ExpectedOdometryPublisher = vslam
  ExpectedStatusPublisher = vslam
  Approvals <- ExtrinsicApproved
  CameraOffset = 1
  Poses = {0, 1, 2}
  Untransformable = {1}
  OdometryLags <- OnTimeOrLate
  OdometryDefects <- SomeDefects
  StatusLags <- OnTimeOrLate
  StatusKinds = {"tracking", "lost", "invalid"}
  DiagnosticLags <- OnTimeOrLate
  DiagnosticStatuses <- SomeBatches
  DiagnosticGids = {1}
  DiagnosticEndpoints <- SomeEndpoints
  PublisherLists <- OneGraph
  ClockSteps <- ForwardSteps
  RosStart = 2
  MaxTime = 3
  MaxRos = 4
  TimerSlack = 0
  Nodes = {vslam, relay, monitor, stranger}
  vslam = vslam
  relay = relay
  monitor = monitor
  stranger = stranger
INVARIANTS
  FramesAccountedFor
  EvidenceAccountedFor
