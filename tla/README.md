# Verification of the cuVSLAM shadow localization adapter

TLA+ models, TLC runs and TLAPS proofs for the C++ code of this repository
(`src/`, the two ROS 2 packages `localization_contracts` and
`cuvslam_localization_adapter`).

The adapter runs in *shadow mode*: it listens to cuVSLAM's odometry and
tracking status and to other nodes' diagnostics, decides whether these inputs
meet a contract, computes the base pose it would publish, and reports one
verdict on `/diagnostics`. It publishes no odometry. What has to be right is
the verdict: never trust evidence that is missing, out of order, stale or of
the wrong origin; leave a transient fault only by fresh good evidence; never
leave a latched fault; never be killed by its own checks.

## 1. Inventory

| Component (source) | State | Operations | Interacts with | What makes it correct |
|---|---|---|---|---|
| Runtime health gate (`gate.cpp`) | `state_`, `reason_`, `recovery_progress_` | `MarkStarting`, `MarkTransient`, `MarkLatched`, `ObserveHealthySample`; pure `EvaluateLocalizationPublishGate` | called by every handler of the node | a latched state is final; a faulted gate needs N credits in a row; no progress survives a fault |
| Input validation (`validation.cpp`) | one `last_accepted_ns_` per `StrictStampGuard` | `Classify`, `Commit`, stamp distance, window metrics, pose step, covariance, sample validation | called by the node | no `Commit` of a stamp that does not increase (it throws); issues reported in order, frame issues latch; what passes can be computed with |
| Adapter node (`adapter_node.cpp`) | guards, receive times, validity flags, rate window, poses, upstream observations, publisher evidence, last credited stamp, the gate, some twenty counters, three subscription histories of depth 10 | `OnOdometry`, `OnVisualSlamStatus`, `OnUpstreamDiagnostics`, `OnDiagnosticTimer` | three subscriptions, one wall timer, the ROS graph, two clocks | the verdict follows the evidence, whatever the callbacks' order; it is reached and reported in the end; the counters balance (section 4) |
| Contract configuration (`contract_config.cpp`) | none; the file on disk | `LoadContractConfig`, `CheckDiagnosticEvidence`, approvals | the node's constructor, the diagnostics handler | what it accepts is what the node needs; an approval has its evidence; a diagnostic that passes has met every line written for it |
| Process (`main.cpp`, constructor, launch file) | what was read of the file | start, refuse, spin, exit, restart | the operator, the middleware | the running contract is the fingerprinted one; a new process owes nothing to the one before |
| Rigid transforms (`rigid_transform.cpp`) | none (values) | create, compose, invert, apply to a point, compare, to and from ROS quaternions, `CameraPoseToBasePose` | the odometry handler, the loader | frames agree; failure is noticed; a chain places points where they are |
| Twist contract (`twist_contract.cpp`) | none (values) | `Approved`, `InstantaneousCameraTwistToBase` | not called by the node yet | what is converted is the motion of the base |
| Contract errors (`errors.hpp`) | none | exception types | thrown by the library, caught by the node or by `main` | no exception leaves a callback |

What is hard here:

* **Order.** `main.cpp` spins a single-threaded executor and each callback
  holds `mutex_` for its whole body, so a callback is atomic; but the order of
  the four callbacks, the age of what they bring and the pace of the timer are
  anyone's guess, and each handler has up to ten ways out, each of which must
  leave the flags, the guards and the gate in agreement.
* **Two clocks.** Ages are measured on the steady clock from reception; stamps
  are compared with the ROS clock, which may be stepped.
* **Staleness.** Publishers are looked at by the timer only; freshness is looked
  at only when a callback runs.
* **Exceptions.** A throwing `Commit` or window metric ends the process.
* **The transport.** Histories of ten messages drop the oldest, best-effort topics
  lose, several writers of one topic overtake each other, a process is restarted.
* **Geometry.** A quaternion and its negative are one rotation; products do not
  commute; the extrinsic and the lever arm have a direction. Identities and half
  turns, the favourites of tests, forgive most mistakes.
* **Partial results.** Guards, poses, receive times and observations are
  committed at different places of one handler, with early returns between.

## 2. Modules

| Module | Models | Correspondence |
|---|---|---|
| `HealthGate` | `RuntimeHealthGate`, publish gate | `health`, `reason`, `progress` are the members; one action per mutator; `PublishGateReasons` is `EvaluateLocalizationPublishGate` |
| `Validation` | `StrictStampGuard`, stamp distance, window metrics, `ValidateOdometrySample` | operators; a guard is its last stamp, `NoStamp` (0) when disengaged. Metrics appear as the two comparisons made with them |
| `AdapterNode` | the node | one variable per member that a decision reads; one action per way out of a handler, named for it (`OdometryJumps`, `DiagnosticsOutOfOrder`, `TimerWaits`, ...), composed per handler; `Tick` and `ClockStep` are the environment |
| `AdapterProperties` | the node's promises | invariants and action properties, and three inductive strengthenings (`TimerOnTime`, `StalenessChecked`, `StartupChecked`) |
| `RecoveryContract` | the abstract verdict of README section 10 | `waiting`, `trusted`, `faulted`, `latched`; each credit newer than all before |
| `AdapterRefinement` | the node implements `RecoveryContract` | refinement mapping `Verdict`, `streak <- progress`, `credited <- last_health_observed_stamp` |
| `RecoveryHistory` | the node with a history variable | `fresh` counts frames accepted since the last fall to `transient_fault` |
| `AdapterCounters` | the node with its counters | every way out of a message handler with the counters it increments; `count[c]` is the member `c_` (the status and diagnostics counters likewise) |
| `AdapterLiveness` | the node under fairness | sources that settle or fall silent at a moment of their choice; a clock without end |
| `AdapterSystem` | the node in its ROS graph | one message per source and tick, the keep-last history of each subscription, messages of diagnostics writers in flight, executor, restart (`ConstructNode`, `Restart`) |
| `RigidTransform` | `rigid_transform.cpp` | one operator per function and, where it may throw, one for its refusal, `...Refused` |
| `TwistContract` | `twist_contract.cpp` | likewise |
| `Placement` | no code: the reference for the two | a frame as an origin and three axes, turned without quaternions |
| `TransformChain` | a client of the transform library | `chain` is a `RigidTransform`, `placement` what it should mean |
| `SampleValidation` | the numeric part of `validation.cpp` | pose step, covariance, issues of a sample |
| `PosePipeline` | what `OnOdometry` does with the numbers of a frame | construction, step, shadow pose; what stamps and clocks decide is a choice, `OutOfTurn` before the pose is made, `Untimely` after |
| `DiagnosticEvidence` | one required diagnostic, from the lines of its section to the verdict on a status | `RequireExactKeys`, `NonemptyString`, `StringMap`, `CheckDiagnosticEvidence` |
| `ContractConfig` | `contract_config.cpp` | one predicate per `Parse...` function, `LoadError` in the order of `LoadContractConfig` |
| `AdapterStartup` | the process around the contract file | `Open`, `Load`, `RefuseContract`, `Construct`, `Exit`, and `ReplaceFile` by the operator |
| `AdapterProofs`, `AdapterTrustProofs` | proofs about `AdapterNode` and its refinement | section 6 |
| `HistoryProofs` | proofs about `RecoveryHistory` and `AdapterCounters` | |
| `SystemProofs` | proofs about `AdapterSystem` | |
| `ContractProofs` | proofs about `AdapterStartup` and `DiagnosticEvidence` | |
| `RotationProofs` | what the operators of `RigidTransform` mean in `Placement` | |
| `ChainProofs`, `PoseProofs` | proofs about `TransformChain` and `PosePipeline`, from `RotationProofs` | |
| `MCInputs`, `MCAdapter`, `MCRecoveryHistory`, `MCCounters`, `MCLiveness`, `MCSystem`, `MCTransforms`, `MCPoses`, `MCEvidence`, `MCStartup` | inputs of the runs | finite message, graph, link, frame and file sets |

`HealthGate` and `Validation` are extended by `AdapterNode`; handlers call the
gate's actions, so the gate and the node are one composed state machine.
`ContractConfig` is extended by `AdapterStartup`. The two halves meet in one
property: `ContractAsAssumed` says that the contract of a running node
satisfies what `AdapterNode` ASSUMEs of its constants. `AdapterSystem` puts the
transport and the process around `AdapterNode`. `PosePipeline`, `SampleValidation` and
`DiagnosticEvidence` go below it: `AdapterNode` takes the defects of a sample, the
length of a step and the flaws of a status as inputs, and these modules say from
which numbers and lines they come.

Definitions introduced as *slips* are no part of the model. Each is a plausible
bug in the definition it stands before (a dropped guard, a lost sign, a forgotten
reset), kept so that one can substitute it and see the property it threatens fail.

### Abstractions

* Time and stamps are integers in ticks; a message's stamp is ROS time less a
  lag (`StampSent`), negative lags being stamps from the future. Thresholds are
  compared exactly as in the code (`>` and `<=` are kept as written). Rates are
  kept as a ratio, `MinRateSamples / MinRateTicks`.
* In `AdapterNode` a pose is a point on a line; the extrinsic is an offset. A pose step is a
  distance; rotation steps take the same branch. `Untransformable` poses are
  those for which `CameraPoseToBasePose` throws (composition leaves the finite
  range). `INPUT_POSE_CONSTRUCTION_FAILED` and an exception of `MeasurePoseStep` are
  left out of it: `PosePipeline` has both, and `ValidatedPosesConstruct`, proved, says
  that they do not happen.
* There a sample carries the set of its defects instead of quaternions and
  covariances; a diagnostic status the set of its flaws; a contract document the
  set of its malformed sections.
* In `RigidTransform` and above, geometry is on the integer lattice. A rotation is a
  unit quaternion that turns the axes onto each other, written as the shortest
  integer quaternion of its direction, so that its sign is kept; there are 48, and all are
  reached. Products, rotations of points and the angles 0, 90, 120 and 180 degrees are
  exact there, and the tolerances of 1.0e-9 become equalities. A norm is given in
  thousandths. A component beyond `MaxFinite` stands for one that is not finite.
* A covariance is given on two of its six components, the others zero; the smaller
  eigenvalue of such a matrix is nonnegative when its trace and determinant are.
* A sample of `PosePipeline` carries the frame it is about (`place`) beside its position and
  quaternion. `Locates` says that the two agree, the quaternion read as a turn by Rodrigues'
  formula (`TurnedBy`), which is not the formula of `Rotate`; it is assumed of each sample
  whose quaternion is valid and of the extrinsic.
* In `AdapterLiveness` time has no end: once the clock has reached `MaxTime`, `Age`
  moves the past back by a tick instead of the clock forward. Nothing is lost by it:
  every decision of the node compares ages, all bounds are below the horizon
  (`HorizonAssumption`), and a time that has fallen to the bottom of its range is
  past every bound already.
* In `AdapterSystem` sources send with the tick, so that all messages of a tick are
  stamped alike, and the order in which they are taken is free.
* There each writer's messages arrive in the order it sent them. The transport may lose
  or delay them, and messages of different topics, or of different writers of
  `/diagnostics`, overtake each other. What is assumed is a property of DDS: a reader of a
  volatile best-effort topic drops a sample of a writer that is older than one it has
  already had from that writer. A transport that reordered one writer's stream would latch the node
  (`NONMONOTONIC_TIMESTAMP` and its like), and `NoTransportLatches` says nothing about it.
* Publishers are lists of node names, read at the moment of the call.
* Left out: `last_actual_*` frames, `last_vo_state_`, residuals and all text of the
  report, which no decision reads. `diagnostic_stamp` is kept although the code only
  stores it: a property uses it.
* `UPSTREAM_DIAGNOSTIC_NOT_OK` is modelled and never taken: `ObservationsVetted`
  shows why (evidence of a too high level is never stored).
* The exceptions of `Commit`, `Classify` and `ComputeStampWindowMetrics` are not
  modelled as process exits; `GuardsOrdered` shows that their conditions never
  occur.

## 3. Hazards

`PROJECT.json` lists each hazard with its line. In short, in the node: validity flags
changed without telling the gate (:348), freshness checked by callbacks only (:745,
:757), publishers seen by the timer only (:812), the startup timeout seen by
the timer only (:825), verdicts reported by it only (:808), credit of old frames
(:790), guards committed before later checks (:296, :580), observations erased
before early returns (:491, :502), the pose reference left behind by rejected frames
(:335), a pose step measured outside any try (:336), a transform that fails after
the frame was accepted (:384, :390), wrong-clock stamps (:285), counters of whole
messages beside counters of statuses (:492).

Around it: full histories and stalls (:168), writers that overtake each other (:563),
restarts (:138), the contract file replaced while it is loaded, contracts the node's
arithmetic cannot live with, keys that come twice.

Below it: the double cover of rotations, closed chains, the order of quaternion
components and of products, the direction of the extrinsic, the lever arm, mis-described
twists, indefinite covariances. One hazard has no property: `acos` near one
(`rigid_transform.cpp:149`, `:206`) turns a single unit of rounding into 3.0e-8 rad, thirty
times the tolerance it is compared with. Rounding is not modelled.

## 4. Properties

Of the node (`AdapterProperties`, `RecoveryHistory`, `AdapterRefinement`):

* `TypeOK` - types, window length, range of recovery progress.
* `StandingEvidence` - healthy or recovering implies that all evidence that
  does not age is in place. It is the reason why the warm-up exit of
  `OnOdometry`, which does not call the gate, is harmless: while the gate
  trusts, the window is full, and a full window never becomes short again.
* `GuardsOrdered` - stamp guards and rate window in order: no exception.
* `ObservationsVetted` - a stored observation is acceptable and of the newest
  message committed for its name.
* `LatchedIsFinal` - no step leaves a latched fault or counts anything under it.
* `RecoveryRefined` - every change of the verdict is one `RecoveryContract` allows;
  in particular N credits in a row, each for a newer frame, separate a fault
  from trust.
* `HealthyStalenessBounded`, `StartupEnds`, `SourceAgeBounded` - how long healthy
  outlives its evidence, starting its timeout, and how old a source stamp may be.
* `HealthyReportIsCurrent` - a healthy report is about now.
* `GuardsNotPoisoned` - no guard runs ahead of ROS time.
* `AcceptedPosesContinuous`, `ShadowPoseCurrent` - accepted poses, one after the
  other, are close; the shadow pose belongs to the last of them.
* `ReasonsFit` - the reason shown fits the state; a latched gate shows one that latches.
* `RecoveryNeedsFreshFramesButOne` - see the finding below.

Of the node's counters (`AdapterCounters`):

* `FramesAccountedFor` - received frames are accepted, rejected or filled the rate
  window; those whose transform failed are both accepted and rejected.
* `EvidenceAccountedFor` - what stands was received and not rejected.

Of the node in the long run (`AdapterLiveness`):

* `GoodInputsAreTrusted` - inputs that stay good make it healthy for good, unless it had
  latched.
* `SilenceIsFound` - a stream that ends makes it faulty for good.
* `VerdictsAreReported` - again and again the last report shows the gate's verdict.

Of the node in its graph (`AdapterSystem`):

* `NoTransportLatches` - with sources that do nothing wrong, the transport, the
  executor, a loss of tracking, a ROS clock set forward and restarts never latch the
  node. The repository's README, section 10, reserves latching for other causes.
* `TrustIsEarnedAnew` - a healthy verdict credits a frame sent after the start of the
  process.

Of the geometry (`TransformChain`, `PosePipeline`):

* `ChainPlacesPoints`, `ClosedChainsJudged`, `BasePoseRecovered`, `TwistMeetsKinematics` -
  however a chain was built and whichever quaternions its links came with, it places
  points, judges loops, gives base poses back and moves twists as `Placement` does.
* `ValidatedPosesConstruct` - a validated frame is safe to compute with.
* `StepsBounded` - a kept frame has moved and turned no more than allowed since the one
  kept before it, and one that latches an epoch jump has.
* `ShadowPlacesBase` - the shadow pose is where the base is.
* `AcceptedSpreadIsReal` - no direction of an accepted covariance has a negative variance.

Of a required diagnostic (`DiagnosticEvidence`):

* `RequirementsHeld` - a status that passes satisfies every line of the section, and
  satisfies it once.
* `EvidenceIsOrderless` - the verdict does not depend on the order of the values.

Of the process (`AdapterStartup`): `ContractAsAssumed`, `FingerprintMatches`,
`ApprovalsEarned`, `TransformFramesAgree`, `NoSelfDependence`.

### Finding

README section 10 item 4 (line 428) asks for `recovery_consecutive_samples` frames
*after* the bad message. The code credits the last accepted odometry stamp as
soon as all inputs are healthy (`adapter_node.cpp:790`), and that frame may have
been accepted while another stream was at fault: odometry goes on being accepted
during a tracking loss, and the status message that ends the loss credits the
frame that came before it. A recovery then rests on one fresh frame less than
asked. The run `divergence` shows it; `core` shows that it is one frame and
never more, `RecoveriesNeedFreshFrames` proves it for every recovery length.

## 5. Runs

| Run | What varies | Bounds | Why they are enough |
|---|---|---|---|
| `core` | every handler; latching defects, missed frames, lost tracking, diagnostics of too high a level, publishers that come and go; the frames accepted since the last fault are counted | window of 3 at two frames in three ticks or more, recovery of 2, 4 ticks | warm up, trust, fall, recover, fall again, latch and stay all fit in 4 ticks; a missed frame leaves a gap that stays in the window for the frame after it too, which is at rate and has no gap of its own; a publisher goes between any two timer callbacks |
| `timing` | a period of 2 ticks, an executor one tick late, frames 1 or 3 ticks old | 8 ticks | the startup timeout (4) plus the check lag (3); a gate healthy at tick 2 also has time to go stale (3) and wait out the check lag |
| `odometry` | lags from -2 to 2, the expected publisher or a stranger, all kinds of defects, jumps, a failing transform | window of 3, 4 ticks | a rejected frame between two accepted ones, a gap inside the window |
| `diagnostics` | two names sharing messages, every flaw, unknown, repeated and shared publishers, a ROS clock set forward by 2 | 3 ticks, no other input, the clock set at the first instant | commit, late and repeated stamps per name; the step puts all guards behind |
| `divergence` | recovery of 3, tracking lost and found, publishers that come and go; expects a violation | 5 ticks | a full recovery interrupted |
| `counters` | every way out of every handler, two names per message, a ROS clock set forward | 4 messages, 3 ticks | each way out once or twice, in every order; a name repeated after others |
| `liveness` | sources that lose tracking, skip and share their topic with a stranger until tick 3, then settle or not; any of them may end; the node may latch | a clock of 4 ticks that ages, recovery of 2 | the longest threshold is 3; a fault and a full recovery fit before and after settling |
| `system` | frames and tracking lost together, histories that overflow, two diagnostics writers, stalls, a ROS clock set forward by 2, restarts at any time | histories of 2, ROS time up to 4 | three messages wait on a history of 2; one writer's message waits while another's overtakes it; a full history is left behind by a process that dies |
| `transforms` | links between three frames: two offsets, seven rotations, either quaternion | `MaxFinite` 2 | all 48 quaternions are reached; loops of three; chains that leave the finite range |
| `poses` | 103 frames: positions, quarter and half turns with either quaternion, norms at the tolerance, covariances, wrong frames, infinities | none beyond the set | every issue alone and a latching one with another; steps below, at and above both bounds |
| `evidence` | sections and statuses of ordinary, blank, padded and repeated texts | 3 fields, 2 requirement lines, 2 values | a repetition needs two lines; order needs two |
| `startup` | some 80 files, each a good contract with one or two things changed, replaced at any time | none | every check of the loader has a file that only it refuses |

Bounds: `MaxTime` on the steady clock, `MaxRos` on ROS time, `TimerSlack` on
the executor's lag, `MaxMessages` on counted messages, `SettleBy` on the time sources
may misbehave, `MaxFinite` on coordinates, `MaxFields`, `MaxLines` and `MaxValues` on
lines. Once `MaxTime` is reached the timer may stay due and messages may go on
arriving, so no run needs to switch deadlock checking off. No symmetry is used: names
are distinguished by the contract.

**Fairness.** Only `AdapterLiveness` assumes any; all other properties are safety
properties, the ones about time being bounds on clock values. Weak fairness is stated of

* `Timer`: `rclcpp::spin` serves a due wall timer;
* `TimePasses`: the clock goes on;
* each delivery once the sources have settled: the executor takes a message that waits.

Every callback is a bounded computation under one mutex, nothing in it waits, and the
single-threaded executor goes round all that is ready, so that neither timer nor a
subscription is starved. Nothing obliges a source to settle, to send or to stay good:
`GoodInputsAreTrusted` and `SilenceIsFound` start from `settled`, `VerdictsAreReported` does
not need it.

In safety, one thing is assumed of scheduling, in the guard of `Tick`: time does not pass
a due timer by more than `TimerSlack` ticks, less than a period, because the executor is
single-threaded and serves a due timer before the next message is taken, unless a
callback is running. The bound is a parameter of the theorems.

## 6. Proofs

All theorems hold for every value of the constants that satisfies the named
assumptions: `RecoveryAssumption` (the gate's constructor),
`HealthContract` and `RequiredContract` (the loader; `RunsAsAssumed` proves
that it guarantees them), `EnvironmentAssumption` (stamps and positions are
integers, publisher lists are sequences, the executor's lag is less than a
period); for the other modules `QueueAssumption` (histories and writers; the ROS clock is
only ever set forward), `SourcesAssumption` (only the sources the contract
names publish, each once, and the poses they send can be transformed), `StepAssumption`, `MountAssumption`
(what `ParseExtrinsic` has built with `Create`), `SamplesAssumption` (numbers are
numbers; a valid quaternion is one of the lattice, and the message is about the frame it
describes), `FramesAssumption`, `RangeAssumption`, `VectorsAssumption` (offsets and rates are
integer vectors), `TextsAssumption` and `BoundsAssumption`. Time is
not bounded by them: `MaxTime` is arbitrary; so are `MaxFinite`, the steps, the offsets and
the numbers of fields, lines and values. `GuardsStaySane` and `SourceAgeIsBounded`
assume also that the ROS clock is not stepped (`ClockSteps = {}`): their properties say
nothing else, and a step breaks them.

| Theorem | Argument |
|---|---|
| `TypeCorrect` | induction, one step per handler; helper lemmas say what sliding the window, erasing and judging return |
| `LatchedForever` | every action either leaves the gate alone or goes through a mutator that keeps a latched state |
| `GuardsStayOrdered` | inductive with `TypeOK`: a handler commits only what `Classify` accepted |
| `EvidenceStands` | a step into healthy or recovering has either just found the inputs healthy or left them and the gate alone (`Judged`); the third possibility, a warm-up frame, needs a window that is not full, which `StandingEvidence` and `SlideProperties` exclude |
| `OnlyVettedObservations` | inductive with `TypeOK`: store after vetting, erase with every other move of the guard |
| `StalenessIsBounded` | `HealthyStalenessBounded` is not inductive: time passes without anyone looking. The strengthening `StalenessChecked` relates evidence to `timerDue` instead of `now`; `timerDue` moves only when the timer judges, and `TimerOnTime` relates it to `now` |
| `StartupIsBounded` | same, with `StartupChecked`; it also needs that a gate still starting has credited nothing, so that healthy inputs cannot leave it starting |
| `RunsAsAssumed`, `RunsAsFingerprinted`, `RunsWithEarnedApprovals`, `RunsWithAgreeingFrames`, `RunsIndependently` | the inductive invariant `StagesHeld`: what is loaded passed `LoadError` and carries its own fingerprint |
| `PosesAreContinuous`, `ShadowStaysCurrent` | `AcceptedMoves`: accepted poses change with two ways out of `OnOdometry` only, which sit behind the step check |
| `GuardsStaySane` | inductive with `TypeOK`: only stamps that passed `ClockDomainMatches` are committed |
| `SourceAgeIsBounded` | from `HealthyStalenessBounded` and `SourceDated`: a stream's stamp and its receive time drift apart by the clock residual at most |
| `HealthyReportsAreCurrent` | by the timer's ways out: a report says healthy only after `InputsReason` has compared everything afresh |
| `ImplementsRecoveryContract` | the refinement: `ContractStep` maps every move of the gate to an action of `RecoveryContract`; a credit is newer than all before because `StampGuardAdvances` |
| `ReasonsAlwaysFit` | by the gate's mutators; each handler hands them a reason of its kind |
| `RecoveriesNeedFreshFrames` | strengthening `FreshFramesCounted`: while recovering, one fresh frame for each credit but the first, and one more while the last accepted frame is not credited |
| `AllFramesAccountedFor` | strengthening `FramesBooked`: a frame is accepted with a full window only (`WindowFilled`), so that the count of warming frames stops when the window is full |
| `ValidatedAlwaysConstructs` | strengthening `KeptPoseFramed`: a sample without issues has what `Create` asks for, and all kept poses have the same two frames |
| `TrustAlwaysEarnedAnew` | strengthening `SentToThisProcess`: every waiting frame and every accepted stamp is at least `started`; a verdict turns healthy only with the credit of the frame accepted last (`HealthyIsCredited`) |
| `TransportNeverLatches` | strengthening `InOrder`: in each stream, what is in flight is newer than what waits, what waits newer than the guard, each writer's messages ascending, none ahead of ROS time; so a handler never sees what latches. A full history drops its oldest, which keeps the order (`TookInAscends`) |
| `AllEvidenceAccountedFor` | strengthening `EvidenceBooked`: each way out adds to what was received at least what it adds to what was rejected, and what it stores is no more than the `Candidates` it counts (cardinalities of their images) |
| `CompositionMeans`, `InversionMeans` | a composed or inverted transform places every point where the frames, composed or inverted in `Placement`, place it. n times the matrix of a quaternion of squared norm n is a quadratic form of its components (`AxesScaled`), a product's form is the product of the forms (`TimesTurns`, a polynomial identity), and dividing by the common divisor changes no direction (`ShortestScales`) |
| `AngleOfTurn` | the angle `QuaternionAngularDistance` finds between two quaternions is the one the trace of the turn from one to the other says; the sign of neither matters |
| `ChainsAlwaysPlacePoints`, `ClosedChainsAlwaysJudged`, `BasePoseAlwaysRecovered`, `TwistAlwaysMeetsKinematics` | the inductive invariant `ChainPlaced`: the chain means `placement`, and it is closed only when `placement` stands still; then by the theorems above. That a base pose is never refused takes `ChainFinite` and `InverseFinite` as well: turning by a lattice rotation keeps the finite range |
| `AcceptedSpreadAlwaysReal` | `NonnegativeForm`: the trace times the variance in a direction is a sum of squares plus the determinant times a square, so nonnegative when both are; a zero trace leaves only zeros |
| `ShadowAlwaysPlacesBase` | `LocatedMeans` turns what a message says into a placement, `ShadowMeans` composes it with the extrinsic, and `FiniteTurned` shows that what is refused as infinite is infinite in `Placement` as well |
| `StepsAlwaysBounded` | strengthening `KeptPosePlaced`: the kept pose is the one of the kept frame; `StepMeasured` relates `MeasurePoseStep` to distance and trace by `AngleOfTurn` |
| `RequirementsAlwaysHeld`, `EvidenceAlwaysOrderless` | the inductive invariant `EvidenceTypeOK`; keys that are as many as the values are all different (`KeysApart`, a surjection between finite sets of one size), so that a lookup has one answer, and any bijection of the values keeps it (`Reordered`) |

Frame lemmas (`OdometryFrame`, ...) say once what each handler leaves alone.

With these, every invariant and every action property that a passing run checks is also
a theorem, and so is the refinement. The strengthenings were checked by TLC on the runs'
instances before they were proved.

Only model-checked: the three liveness properties, `GoodInputsAreTrusted`, `SilenceIsFound`
and `VerdictsAreReported`. Their proofs need `ENABLED` of the fair actions and induction over
the stages of a recovery, both beyond the provers used. Beyond them as well is what a
recursive definition computes for every input; the models have none, folds and quantifiers
taking their place.

## 7. Not modelled

* Binary floating point: rounding, and overflow other than to a non-finite value.
* Syntax: the YAML grammar, numbers, topic and node names; each section may be
  malformed, as one input (`ContractConfig`), and mappings of strings are modelled
  line by line for a required diagnostic (`DiagnosticEvidence`).
* Telemetry and wording of the report; the `ToString` functions.
* ROS parameters, the mode parameter (one allowed value) and the check against
  remapped topics, which end construction before any state exists.
* OpenSSL, rclcpp and DDS, but for how the node uses them: a digest, an executor,
  histories, endpoint lists. Histories are per topic, not per writer.

## 8. Plan

Done: gate, validation, node, refinement, history; loader and process; counters;
liveness; the node in its graph with restarts; transforms, twists and poses;
diagnostic evidence; all safety properties of the runs as theorems.

Left, in order: `AdapterStartup` composed with `AdapterSystem`, so that a restart may change
the contract, with the theorem that each process is judged by the contract it has read;
scalar syntax of the contract.
