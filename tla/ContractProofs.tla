--------------------------- MODULE ContractProofs ---------------------------
(***************************************************************************)
(* Proofs about AdapterStartup, for every set of contract files, and about *)
(* DiagnosticEvidence, for all texts and any number of lines.              *)
(***************************************************************************)
EXTENDS AdapterStartup, DiagnosticEvidence, TLAPS, SequenceTheorems, FiniteSetTheorems

-----------------------------------------------------------------------------
(* What a process holds between its stages: only a document of Documents,  *)
(* and from "loaded" on one that the loader took, with its own fingerprint.*)
StagesHeld ==
  /\ file \in Documents /\ content \in Documents
  /\ process \in {"loaded", "running"} =>
       /\ contract \in Documents
       /\ LoadError(contract) = "none"
       /\ source_sha256 = CalculateSha256(contract)

(* Every step of the process keeps the stages' results apart. *)
LEMMA StagesStep == StagesHeld /\ [StartupNext]_startupVars => StagesHeld'
<1>. SUFFICES ASSUME StagesHeld, [StartupNext]_startupVars PROVE StagesHeld'
  OBVIOUS
<1>1. CASE ReplaceFile
  BY <1>1 DEF StagesHeld, ReplaceFile, processVars
<1>2. CASE Open
  BY <1>2 DEF StagesHeld, Open
<1>3. CASE Load
  BY <1>3 DEF StagesHeld, Load
<1>4. CASE RefuseContract
  BY <1>4 DEF StagesHeld, RefuseContract
<1>5. CASE Construct
  BY <1>5 DEF StagesHeld, Construct
<1>6. CASE Exit
  BY <1>6 DEF StagesHeld, Exit
<1>7. CASE UNCHANGED startupVars
  BY <1>7 DEF StagesHeld, startupVars, processVars
<1>. QED  BY <1>1, <1>2, <1>3, <1>4, <1>5, <1>6, <1>7 DEF StartupNext

(* StagesAlwaysHeld: the inductive invariant of the process. *)
THEOREM StagesAlwaysHeld == StartupSpec => []StagesHeld
<1>1. StartupInit => StagesHeld
  BY DEF StartupInit, StagesHeld
<1>. QED  BY <1>1, StagesStep, PTL DEF StartupSpec

(* A loaded document passed the checks of each section. *)
LEMMA LoadedPasses ==
  ASSUME NEW doc, LoadError(doc) = "none"
  PROVE  /\ ~InputRefused(doc.input)
         /\ ~HealthRefused(doc.health)
         /\ ~ExtrinsicRefused(doc.extrinsic)
         /\ ~EvidenceGateRefused(doc.twist) /\ ~EvidenceGateRefused(doc.covariance)
         /\ ~SchemaOneRefuses(doc)
BY DEF LoadError

(* Min and Max of a set of three numbers bound each of them. *)
LEMMA MinMaxOfThree ==
  ASSUME NEW a \in Int, NEW b \in Int, NEW c \in Int
  PROVE  /\ Min({a, b, c}) \in Int /\ Max({a, b, c}) \in Int
         /\ \A x \in {a, b, c} : Min({a, b, c}) <= x /\ x <= Max({a, b, c})
<1>1. \E m \in {a, b, c} : \A x \in {a, b, c} : m <= x
  OBVIOUS
<1>2. \E m \in {a, b, c} : \A x \in {a, b, c} : m >= x
  OBVIOUS
<1>3. \A x \in {a, b, c} : Min({a, b, c}) <= x
  BY <1>1, Zenon DEF Min
<1>4. \A x \in {a, b, c} : Max({a, b, c}) >= x
  BY <1>2, Zenon DEF Max
<1>5. Min({a, b, c}) \in {a, b, c} /\ Max({a, b, c}) \in {a, b, c}
  BY <1>1, <1>2, Zenon DEF Min, Max
<1>. QED  BY <1>3, <1>4, <1>5

(* A health section the loader takes orders its thresholds as the node     *)
(* needs them.                                                             *)
LEMMA AcceptedHealth ==
  ASSUME NEW health \in [HealthFields -> Int], ~HealthRefused(health)
  PROVE  /\ \A field \in DOMAIN health : health[field] > 0
         /\ \A stale \in {health.odometry_stale_after, health.tracking_stale_after,
                          health.diagnostic_stale_after} :
              health.diagnostic_period < stale /\ stale < health.startup_timeout
         /\ health.maximum_odometry_stamp_gap < health.odometry_stale_after
         /\ health.maximum_odometry_receive_gap < health.odometry_stale_after
         /\ health.maximum_status_odometry_skew < health.tracking_stale_after
         /\ health.odometry_rate_window_samples >= 2
<1>. DEFINE stales == {health.odometry_stale_after, health.tracking_stale_after,
                       health.diagnostic_stale_after}
<1>1. \A field \in HealthFields : health[field] \in Int
  OBVIOUS
<1>2. /\ health.odometry_stale_after \in Int /\ health.tracking_stale_after \in Int
      /\ health.diagnostic_stale_after \in Int
  BY <1>1 DEF HealthFields
<1>3. /\ Min(stales) \in Int /\ Max(stales) \in Int
      /\ \A stale \in stales : Min(stales) <= stale /\ stale <= Max(stales)
  BY <1>2, MinMaxOfThree
<1>4. ~(health.diagnostic_period >= Min(stales)) /\ ~(health.startup_timeout <= Max(stales))
  BY DEF HealthRefused
<1>5. \A field \in DOMAIN health : health[field] > 0
  BY <1>1 DEF HealthRefused
<1>6. \A stale \in stales : health.diagnostic_period < stale /\ stale < health.startup_timeout
  BY <1>1, <1>2, <1>3, <1>4 DEF HealthFields
<1>. QED  BY <1>1, <1>5, <1>6 DEF HealthRefused, HealthFields

(* RunsAsAssumed: whatever files the operator puts in place, a running     *)
(* node's contract is one AdapterNode assumes.                             *)
THEOREM RunsAsAssumed == StartupSpec => []ContractAsAssumed
<1>1. StagesHeld => ContractAsAssumed
  <2>. SUFFICES ASSUME StagesHeld, Running PROVE ContractAsAssumed
    BY DEF ContractAsAssumed
  <2>1. contract \in Documents /\ LoadError(contract) = "none"
    BY DEF StagesHeld, Running
  <2>2. contract.health \in [HealthFields -> Int] /\ ~HealthRefused(contract.health)
    BY <2>1, LoadedPasses, DocumentsAssumption
  <2>3. ~InputRefused(contract.input)
    BY <2>1, LoadedPasses
  <2>. QED  BY <2>2, <2>3, AcceptedHealth DEF ContractAsAssumed, InputRefused
<1>. QED  BY <1>1, StagesAlwaysHeld, PTL

(* RunsAsFingerprinted: a running node reports the fingerprint of the      *)
(* contract it runs with, whenever the file is replaced.                   *)
THEOREM RunsAsFingerprinted == StartupSpec => []FingerprintMatches
<1>1. StagesHeld => FingerprintMatches
  BY DEF StagesHeld, FingerprintMatches, Running
<1>. QED  BY <1>1, StagesAlwaysHeld, PTL

(* RunsWithEarnedApprovals: no running node holds an approval without its  *)
(* evidence.                                                               *)
THEOREM RunsWithEarnedApprovals == StartupSpec => []ApprovalsEarned
<1>1. StagesHeld => ApprovalsEarned
  <2>. SUFFICES ASSUME StagesHeld, Running PROVE ApprovalsEarned
    BY DEF ApprovalsEarned
  <2>1. LoadError(contract) = "none"
    BY DEF StagesHeld, Running
  <2>. QED  BY <2>1, LoadedPasses DEF ApprovalsEarned, ApprovalsOf, ExtrinsicApproved,
        ExtrinsicRefused, EvidenceGateApproved, EvidenceGateRefused
<1>. QED  BY <1>1, StagesAlwaysHeld, PTL

(* RunsWithAgreeingFrames: no frame that OnOdometry accepts meets a frame  *)
(* error in CameraPoseToBasePose.                                          *)
THEOREM RunsWithAgreeingFrames == StartupSpec => []TransformFramesAgree
<1>1. StagesHeld => TransformFramesAgree
  <2>. SUFFICES ASSUME StagesHeld, Running PROVE TransformFramesAgree
    BY DEF TransformFramesAgree
  <2>1. LoadError(contract) = "none"
    BY DEF StagesHeld, Running
  <2>. QED  BY <2>1, LoadedPasses DEF TransformFramesAgree, SchemaOneRefuses
<1>. QED  BY <1>1, StagesAlwaysHeld, PTL

(* RunsIndependently: no running node requires an adapter's own status. *)
THEOREM RunsIndependently == StartupSpec => []NoSelfDependence
<1>1. StagesHeld => NoSelfDependence
  <2>. SUFFICES ASSUME StagesHeld, Running PROVE NoSelfDependence
    BY DEF NoSelfDependence
  <2>1. LoadError(contract) = "none"
    BY DEF StagesHeld, Running
  <2>. QED  BY <2>1, LoadedPasses DEF NoSelfDependence, InputRefused
<1>. QED  BY <1>1, StagesAlwaysHeld, PTL

-----------------------------------------------------------------------------
(* Lines of keys and values. *)
LinesOf(keys, texts) == Seq([key : keys, value : texts])

(* The lines of the section, of its required values and of a status.       *)
EvidenceTypeOK ==
  /\ section \in LinesOf(DiagnosticKeys, Texts \cup {"relay", "/relay", "0"})
  /\ required_values \in LinesOf(Texts, Texts \cup {NoScalar})
  /\ values \in LinesOf(Texts, Texts)

LEMMA EvidenceTypeCorrect == EvidenceSpec => []EvidenceTypeOK
<1>1. EvidenceInit => EvidenceTypeOK
  BY DEF EvidenceInit, EvidenceTypeOK, LinesOf, Line, DiagnosticKeys
<1>2. EvidenceTypeOK /\ [EvidenceNext]_evidenceVars => EvidenceTypeOK'
  <2>. SUFFICES ASSUME EvidenceTypeOK, [EvidenceNext]_evidenceVars PROVE EvidenceTypeOK'
    OBVIOUS
  <2>1. CASE WriteField
    BY <2>1 DEF WriteField, BeforeTheNodeRuns, EvidenceTypeOK, LinesOf, Line, DiagnosticKeys
  <2>2. CASE WriteRequirement
    BY <2>2 DEF WriteRequirement, BeforeTheNodeRuns, EvidenceTypeOK, LinesOf, Line
  <2>3. CASE StartStatus
    BY <2>3 DEF StartStatus, EvidenceTypeOK, LinesOf
  <2>4. CASE AddValue
    BY <2>4 DEF AddValue, EvidenceTypeOK, LinesOf, Line
  <2>5. CASE StartAgain
    <3>1. section \in LinesOf(DiagnosticKeys, Texts \cup {"relay", "/relay", "0"})
      BY DEF EvidenceTypeOK
    <3>2. Len(section) >= 3
      BY <2>5, BoundsAssumption DEF StartAgain
    <3>3. SubSeq(section, 1, 3) \in LinesOf(DiagnosticKeys, Texts \cup {"relay", "/relay", "0"})
      <4>. DEFINE R == [key : DiagnosticKeys, value : Texts \cup {"relay", "/relay", "0"}]
      <4>1. section \in Seq(R)
        BY <3>1 DEF LinesOf
      <4>. HIDE DEF R
      <4>2. 1 \in Int /\ 3 \in Int /\ \A i \in 1..3 : section[i] \in R
        BY <3>2, <4>1
      <4>3. SubSeq(section, 1, 3) \in Seq(R)
        BY <4>2, SubSeqProperties, Zenon
      <4>. QED  BY <4>3 DEF LinesOf, R
    <3>. QED  BY <2>5, <3>3 DEF StartAgain, EvidenceTypeOK, LinesOf
  <2>6. CASE UNCHANGED evidenceVars
    BY <2>6 DEF evidenceVars, EvidenceTypeOK
  <2>. QED  BY <2>1, <2>2, <2>3, <2>4, <2>5, <2>6 DEF EvidenceNext
<1>. QED  BY <1>1, <1>2, PTL DEF EvidenceSpec

(* As many keys as lines: no two lines have the same. *)
LEMMA KeysApart ==
  ASSUME NEW R, NEW lines \in Seq(R)
  PROVE  KeyRepeats(lines) <=> \E i, j \in DOMAIN lines : i # j /\ lines[i].key = lines[j].key
<1>. DEFINE n == Len(lines)
            S == 1..n
            T == KeysOf(lines)
            f == [k \in S |-> lines[k].key]
<1>1. n \in Nat /\ DOMAIN lines = S
  OBVIOUS
<1>2. IsFiniteSet(S) /\ Cardinality(S) = n
  <2>1. 1 \in Int /\ n \in Int /\ (IF 1 > n THEN 0 ELSE n - 1 + 1) = n
    BY <1>1
  <2>. QED  BY <2>1, FS_Interval
<1>3. f \in Surjection(S, T)
  BY <1>1 DEF Surjection, KeysOf
<1>4. Cardinality(T) = Cardinality(S) <=> f \in Injection(S, T)
  BY <1>2, <1>3, FS_Surjection, Zenon
<1>5. f \in Injection(S, T) <=> \A i, j \in S : f[i] = f[j] => i = j
  BY <1>3 DEF Injection, IsInjective, Surjection
<1>. QED  BY <1>1, <1>2, <1>4, <1>5 DEF KeyRepeats

LEMMA LookupUnique ==
  ASSUME NEW R, NEW lines \in Seq(R), ~KeyRepeats(lines), NEW k \in DOMAIN lines
  PROVE  Lookup(lines, lines[k].key) = lines[k].value
<1>. DEFINE I == {i \in 1..Len(lines) : lines[i].key = lines[k].key}
<1>1. I = {k}
  BY KeysApart
<1>2. Min(I) = k
  BY <1>1 DEF Min
<1>3. Lookup(lines, lines[k].key) = lines[IF I # {} THEN Min(I) ELSE 0].value
  BY DEF Lookup, SelectInSeq
<1>. QED  BY <1>1, <1>2, <1>3

(* Keys of lines. *)
LEMMA KeysHeld ==
  ASSUME NEW lines, NEW key \in KeysOf(lines)
  PROVE  \E k \in DOMAIN lines : lines[k].key = key
BY DEF KeysOf

(* An accepted status and an accepted section agree line by line.          *)
LEMMA RequirementsMet ==
  ASSUME EvidenceTypeOK, ~DiagnosticRefused, Evidence(values) = "NONE"
  PROVE  RequirementsHeld
<1>. DEFINE required == StringMap(required_values)
<1>1. /\ ~KeyRepeats(section) /\ ~KeyRepeats(required_values)
  BY DEF DiagnosticRefused, RequireExactKeysRefused, StringMapRefused
<1>2. /\ RequiredDiagnostic.hardware_id = Lookup(section, "hardware_id")
      /\ RequiredDiagnostic.required_values = required
  BY DEF RequiredDiagnostic
<1>3. /\ hardware_id = Lookup(section, "hardware_id")
      /\ ~KeyRepeats(values)
      /\ \A key \in DOMAIN required : /\ key \in KeysOf(values)
                                      /\ Lookup(values, key) = required[key]
  BY <1>2 DEF Evidence, CheckDiagnosticEvidence
<1>4. ASSUME NEW k \in DOMAIN section, section[k].key = "hardware_id"
      PROVE  section[k].value = hardware_id
  BY <1>1, <1>3, <1>4, LookupUnique DEF EvidenceTypeOK, LinesOf
<1>5. \A i, j \in DOMAIN values : i # j => values[i].key # values[j].key
  BY <1>3, KeysApart DEF EvidenceTypeOK, LinesOf
<1>6. ASSUME NEW k \in DOMAIN required_values
      PROVE  {values[j].value : j \in {j \in DOMAIN values :
                                         values[j].key = required_values[k].key}}
               = {required_values[k].value}
  <2>. DEFINE key == required_values[k].key
  <2>1. key \in KeysOf(required_values)
    BY DEF KeysOf
  <2>2. DOMAIN required = KeysOf(required_values) /\ required[key] = Lookup(required_values, key)
    BY <2>1 DEF StringMap
  <2>3. Lookup(required_values, key) = required_values[k].value
    BY <1>1, LookupUnique DEF EvidenceTypeOK, LinesOf
  <2>4. key \in KeysOf(values) /\ Lookup(values, key) = required_values[k].value
    BY <1>3, <2>1, <2>2, <2>3
  <2>5. PICK i \in DOMAIN values : values[i].key = key
    BY <2>4, KeysHeld
  <2>6. Lookup(values, values[i].key) = values[i].value
    BY <1>3, LookupUnique DEF EvidenceTypeOK, LinesOf
  <2>7. values[i].value = required_values[k].value
    BY <2>4, <2>5, <2>6
  <2>8. {j \in DOMAIN values : values[j].key = key} = {i}
    BY <1>5, <2>5
  <2>. QED  BY <2>7, <2>8
<1>. QED  BY <1>4, <1>5, <1>6 DEF RequirementsHeld

(* The lines of a status in another order.                                 *)
LEMMA Reordered ==
  ASSUME NEW R, NEW lines \in Seq(R), NEW order \in Bijection(DOMAIN lines, DOMAIN lines)
  PROVE  LET listed == [k \in DOMAIN lines |-> lines[order[k]]]
         IN  /\ listed \in Seq(R) /\ Len(listed) = Len(lines)
             /\ KeysOf(listed) = KeysOf(lines)
             /\ KeyRepeats(listed) <=> KeyRepeats(lines)
             /\ \A key \in KeysOf(lines) :
                  ~KeyRepeats(lines) => Lookup(listed, key) = Lookup(lines, key)
<1>. DEFINE listed == [k \in DOMAIN lines |-> lines[order[k]]]
            S == DOMAIN lines
            n == Len(lines)
<1>1. /\ S = 1..n /\ n \in Nat /\ \A k \in S : lines[k] \in R
  OBVIOUS
<1>2. order \in [S -> S] /\ \A k \in S : \E j \in S : order[j] = k
  BY DEF Bijection, Surjection
<1>3. listed \in [1..n -> R]
  BY <1>1, <1>2
<1>4. listed \in Seq(R) /\ Len(listed) = n /\ DOMAIN listed = S
  BY <1>1, <1>3
<1>5. KeysOf(listed) = KeysOf(lines)
  BY <1>2 DEF KeysOf
<1>6. KeyRepeats(listed) <=> KeyRepeats(lines)
  BY <1>4, <1>5 DEF KeyRepeats
<1>7. ASSUME NEW key \in KeysOf(lines), ~KeyRepeats(lines)
      PROVE  Lookup(listed, key) = Lookup(lines, key)
  <2>1. PICK j \in S : lines[j].key = key
    BY KeysHeld
  <2>2. PICK k \in S : order[k] = j
    BY <1>2
  <2>3. listed[k] = lines[j]
    BY <2>2
  <2>4. Lookup(lines, lines[j].key) = lines[j].value
    BY <1>7, LookupUnique
  <2>. HIDE DEF listed
  <2>5. Lookup(listed, listed[k].key) = listed[k].value
    BY <1>4, <1>6, <1>7, LookupUnique
  <2>. QED  BY <2>1, <2>3, <2>4, <2>5
<1>. QED  BY <1>4, <1>5, <1>6, <1>7

LEMMA VerdictIsOrderless ==
  ASSUME EvidenceTypeOK
  PROVE  EvidenceIsOrderless
<1>. SUFFICES ASSUME ~DiagnosticRefused, NEW order \in Bijection(DOMAIN values, DOMAIN values)
              PROVE  Evidence([k \in DOMAIN values |-> values[order[k]]]) = Evidence(values)
  BY DEF EvidenceIsOrderless
<1>. DEFINE listed == [k \in DOMAIN values |-> values[order[k]]]
            required == RequiredDiagnostic.required_values
            Wrong(lines) == \E key \in DOMAIN required :
                              \/ key \notin KeysOf(lines)
                              \/ Lookup(lines, key) # required[key]
<1>1. /\ KeysOf(listed) = KeysOf(values)
      /\ KeyRepeats(listed) <=> KeyRepeats(values)
      /\ \A key \in KeysOf(values) :
           ~KeyRepeats(values) => Lookup(listed, key) = Lookup(values, key)
  BY Reordered DEF EvidenceTypeOK, LinesOf
<1>. HIDE DEF listed
<1>2. ~KeyRepeats(values) => (Wrong(listed) <=> Wrong(values))
  BY <1>1
<1>. QED  BY <1>1, <1>2 DEF Evidence, CheckDiagnosticEvidence, listed

(***************************************************************************)
(* A status that passes has met every line of the section, once, and none  *)
(* of its own lines is shadowed, for all texts and any number of lines     *)
(* (contract_config.cpp:101, :167, :656).                                  *)
(***************************************************************************)
THEOREM RequirementsAlwaysHeld == EvidenceSpec => []RequirementsHeld
<1>1. EvidenceTypeOK => RequirementsHeld
  BY RequirementsMet DEF RequirementsHeld
<1>. QED  BY <1>1, EvidenceTypeCorrect, PTL

(***************************************************************************)
(* The verdict does not depend on the order of the status's values         *)
(* (contract_config.cpp:655-665).                                          *)
(***************************************************************************)
THEOREM EvidenceAlwaysOrderless == EvidenceSpec => []EvidenceIsOrderless
BY VerdictIsOrderless, EvidenceTypeCorrect, PTL
=============================================================================
