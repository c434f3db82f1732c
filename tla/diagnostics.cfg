\* The diagnostics handler: two required names sharing messages, and their source.
SPECIFICATION Spec
CONSTANTS
  RecoveryRequired = 2
  DiagnosticPeriod = 1
  OdometryStaleAfter = 2
  TrackingStaleAfter = 2
  DiagnosticStaleAfter = 2
  StartupTimeout = 3
  RateWindow = 2
  MinRateSamples = 1
  MinRateTicks = 1
  MaxStampGap = 1
  MaxReceiveGap = 1
  MaxClockResidual = 1
  MaxSkew = 1
  MaxPoseStep = 1
  NumRequired = 2
  MaximumLevel <- TwoLevels
  ExpectedPublisher <- SharedPublisher
  ExpectedOdometryPublisher = vslam
  ExpectedStatusPublisher = vslam
  Approvals <- NoApprovals
  CameraOffset = 1
  Poses = {0}
  Untransformable = {}
  OdometryLags = {}
  OdometryDefects <- NoDefects
  StatusLags = {}
  StatusKinds = {"tracking"}
  DiagnosticLags <- EarlyOrLate
  DiagnosticStatuses <- Batches
  DiagnosticGids = {1, 2}
  DiagnosticEndpoints <- AnyEndpoints
  PublisherLists <- OneGraph
  ClockSteps <- ForwardSteps
  RosStart = 1
  MaxTime = 3
  MaxRos = 3
  TimerSlack = 0
  Nodes = {vslam, relay, monitor, stranger}
  vslam = vslam
  relay = relay
  monitor = monitor
  stranger = stranger
INVARIANTS
  ObservationsVetted
  GuardsNotPoisoned
