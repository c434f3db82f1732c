--------------------------- MODULE ContractConfig ---------------------------
(***************************************************************************)
(* LoadContractConfig (cuvslam_localization_adapter/src/                   *)
(* contract_config.cpp)                                                    *)
(* as a function of the contract file.  A document names the sections that *)
(* a key or scalar helper refuses (malformed) and carries the values the   *)
(* later checks compare; lengths of time and space are in ticks and units. *)
(* Every refusal throws; what differs is the section it names.             *)
(***************************************************************************)
EXTENDS Integers, Sequences, FiniteSetsExt, Functions

CONSTANT OwnSuffixed    \* the status names ending in ": localization contract"

(* Slip: only an exact name is compared, in the constructor. *)
InputRefusedForLevels(input) ==
  \/ input.required_diagnostics = <<>>
  \/ \E i \in DOMAIN input.required_diagnostics :
       input.required_diagnostics[i].maximum_level # 0

(* The checks of ParseInput on values its helpers have accepted. *)
InputRefused(input) ==
  \/ input.accepted_vo_states = <<>> \/ ~IsInjective(input.accepted_vo_states)
  \/ \E k \in DOMAIN input.accepted_vo_states : input.accepted_vo_states[k] \notin 0..255
  \/ input.required_diagnostics = <<>>
  \/ \E i, j \in DOMAIN input.required_diagnostics :
       i # j /\ input.required_diagnostics[i].name = input.required_diagnostics[j].name
  \/ \E i \in DOMAIN input.required_diagnostics :
       \/ input.required_diagnostics[i].name \in OwnSuffixed
       \/ input.required_diagnostics[i].maximum_level # 0

(* Slip: the period is held against the largest stale threshold. *)
HealthRefusedByLargest(health) ==
  LET stale == {health.odometry_stale_after, health.tracking_stale_after,
                health.diagnostic_stale_after}
  IN  \/ \E field \in DOMAIN health : health[field] <= 0
      \/ health.diagnostic_period >= Max(stale)
      \/ health.startup_timeout <= Max(stale)
      \/ health.odometry_rate_window_samples < 2

(* ParseHealth. *)
HealthRefused(health) ==
  LET stale == {health.odometry_stale_after, health.tracking_stale_after,
                health.diagnostic_stale_after}
  IN  \/ \E field \in DOMAIN health : health[field] <= 0
      \/ health.diagnostic_period >= Min(stale)
      \/ health.startup_timeout <= Max(stale)
      \/ health.maximum_odometry_stamp_gap >= health.odometry_stale_after
      \/ health.maximum_odometry_receive_gap >= health.odometry_stale_after
      \/ health.maximum_status_odometry_skew >= health.tracking_stale_after
      \/ health.maximum_rotation_step_deg > 180
      \/ health.odometry_rate_window_samples < 2

(* ParseExtrinsic.  The transform is "null" when both its parts are, and   *)
(* "valid" when RigidTransform::Create takes them.                         *)
ExtrinsicRefused(extrinsic) ==
  \/ extrinsic.status \notin {"blocked", "approved"}
  \/ extrinsic.parent_frame = extrinsic.child_frame
  \/ extrinsic.status = "blocked" /\ (extrinsic.transform # "null" \/ extrinsic.provenance)
  \/ extrinsic.status = "approved" /\ (~extrinsic.provenance \/ extrinsic.transform # "valid")

(* Slip: an approval is believed when it has an id. *)
EvidenceGateRefusedWithoutId(gate) ==
  \/ gate.status = "blocked" /\ (gate.policy # "reject" \/ gate.approval_id)
  \/ gate.status = "approved" /\ ~gate.approval_id

(* ParseEvidenceGate. *)
EvidenceGateRefused(gate) ==
  gate.status # "blocked" \/ gate.policy # "reject" \/ gate.approval_id

(* ParsePublication. *)
PublicationRefused(publication) == publication.authorization # "shadow_only"

(* Slip: the frames of the extrinsic are not pinned. *)
SchemaOneRefusesInput(doc) ==
  \/ doc.input.topics.diagnostics # "/diagnostics"
  \/ doc.input.frames # [parent |-> "odom", child |-> "camera_link", status |-> "map"]
  \/ doc.input.accepted_vo_states # <<1>>
  \/ doc.publication.parent_frame # doc.input.frames.parent

(* What LoadContractConfig compares across sections. *)
SchemaOneRefuses(doc) ==
  \/ ~IsInjective(doc.input.topics)
  \/ doc.input.topics.diagnostics # "/diagnostics"
  \/ doc.input.frames # [parent |-> "odom", child |-> "camera_link", status |-> "map"]
  \/ doc.input.accepted_vo_states # <<1>>
  \/ doc.extrinsic.parent_frame # "base_link" \/ doc.extrinsic.child_frame # "camera_link"
  \/ doc.publication.topic # "/localization/odometry"
  \/ doc.publication.parent_frame # "odom" \/ doc.publication.child_frame # "base_link"
  \/ doc.publication.parent_frame # doc.input.frames.parent
  \/ doc.extrinsic.child_frame # doc.input.frames.child
  \/ doc.publication.child_frame # doc.extrinsic.parent_frame

(* LoadContractConfig: the first stage that throws, or "none". *)
LoadError(doc) ==
  IF doc.encoding # "one document" THEN "yaml"
  ELSE IF "contract" \in doc.malformed \/ doc.schema_version # 1 \/ doc.status # "blocked"
    THEN "contract"
  ELSE IF "input" \in doc.malformed \/ InputRefused(doc.input) THEN "input"
  ELSE IF "health" \in doc.malformed \/ HealthRefused(doc.health) THEN "health"
  ELSE IF "extrinsic" \in doc.malformed \/ ExtrinsicRefused(doc.extrinsic) THEN "extrinsic"
  ELSE IF "twist" \in doc.malformed \/ EvidenceGateRefused(doc.twist) THEN "twist"
  ELSE IF "covariance" \in doc.malformed \/ EvidenceGateRefused(doc.covariance)
    THEN "covariance"
  ELSE IF "publication" \in doc.malformed \/ PublicationRefused(doc.publication)
    THEN "publication"
  ELSE IF SchemaOneRefuses(doc) THEN "schema one"
  ELSE "none"

(* ContractConfig::Approvals of a loaded document. *)
ExtrinsicApproved(extrinsic) ==
  extrinsic.status = "approved" /\ extrinsic.transform = "valid" /\ extrinsic.provenance

EvidenceGateApproved(gate) == gate.status = "approved" /\ gate.approval_id

ApprovalsOf(doc) ==
  (IF ExtrinsicApproved(doc.extrinsic) THEN {"extrinsic"} ELSE {})
    \cup (IF EvidenceGateApproved(doc.twist) THEN {"twist"} ELSE {})
    \cup (IF EvidenceGateApproved(doc.covariance) THEN {"covariance"} ELSE {})
=============================================================================
