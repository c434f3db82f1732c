\* Every handler with one required diagnostic: what the gate rests on and reports.
SPECIFICATION HistorySpec
CONSTANTS
  RecoveryRequired = 2
  DiagnosticPeriod = 1
  OdometryStaleAfter = 2
  TrackingStaleAfter = 2
  DiagnosticStaleAfter = 2
  StartupTimeout = 3
  RateWindow = 3
  MinRateSamples = 2
  MinRateTicks = 3
  MaxStampGap = 1
  MaxReceiveGap = 1
  MaxClockResidual = 1
  MaxSkew = 1
  MaxPoseStep = 1
  NumRequired = 1
  MaximumLevel <- OneLevel
  ExpectedPublisher <- OnePublisher
  ExpectedOdometryPublisher = vslam
  ExpectedStatusPublisher = vslam
  Approvals <- NoApprovals
  CameraOffset = 1
  Poses = {0}
  Untransformable = {}
  OdometryLags <- OnTime
  OdometryDefects <- LatchingDefect
  StatusLags <- OnTime
  StatusKinds = {"lost", "tracking"}
  DiagnosticLags <- OnTime
  DiagnosticStatuses <- OneName
  DiagnosticGids = {1}
  DiagnosticEndpoints <- Discovered
  PublisherLists <- GoodGraphs
  ClockSteps <- NoSteps
  RosStart = 1
  MaxTime = 4
  MaxRos = 10
  TimerSlack = 0
  Nodes = {vslam, relay, monitor, stranger}
  vslam = vslam
  relay = relay
  monitor = monitor
  stranger = stranger
INVARIANTS
  TypeOK
  StandingEvidence
  GuardsOrdered
  ReasonsFit
  RecoveryNeedsFreshFramesButOne
PROPERTIES
  LatchedIsFinal
  RecoveryRefined
  HealthyReportIsCurrent
