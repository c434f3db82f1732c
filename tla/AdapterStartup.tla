--------------------------- MODULE AdapterStartup ---------------------------
(***************************************************************************)
(* The life of the adapter's process (main.cpp and the constructor of      *)
(* CuvslamLocalizationAdapter) around the contract file, which an operator *)
(* may replace at any time: the file is read once, parsed, fingerprinted   *)
(* and held to the node's own conditions before the node spins.  What it   *)
(* does while it is running is AdapterNode.                                *)
(***************************************************************************)
EXTENDS ContractConfig

CONSTANTS
  Documents,        \* the contents the contract file may have
  Modes,            \* the values of the parameter mode
  StatusName        \* diagnostic_status_name_

(* The node's own status name is made with the suffix ParseInput refuses.  *)
ASSUME StatusNameAssumption == StatusName \in OwnSuffixed

HealthFields ==
  {"diagnostic_period", "odometry_stale_after", "tracking_stale_after",
   "diagnostic_stale_after", "startup_timeout", "recovery_consecutive_samples",
   "minimum_odometry_rate", "maximum_odometry_stamp_gap",
   "maximum_odometry_receive_gap", "maximum_clock_residual",
   "maximum_status_odometry_skew", "maximum_position_step",
   "maximum_rotation_step_deg", "odometry_rate_window_samples"}

(* A health section whose scalars were parsed has these keys and numbers.  *)
ASSUME DocumentsAssumption ==
  \A doc \in Documents : doc.health \in [HealthFields -> Int]

VARIABLES
  file,             \* the contract file on disk
  process,          \* "down", "opened", "loaded", "running" or "failed"
  mode, content,    \* what the process has read
  contract, source_sha256

NoContract == "no contract"

processVars == <<process, mode, content, contract, source_sha256>>
startupVars == <<file, processVars>>

StartupInit ==
  /\ file \in Documents
  /\ process = "down" /\ mode = "shadow"
  /\ content = file /\ contract = NoContract /\ source_sha256 = NoContract

ReplaceFile ==
  /\ \E doc \in Documents : file' = doc
  /\ UNCHANGED processVars

(* ReadFile. *)
Open ==
  /\ process = "down"
  /\ \E m \in Modes : mode' = m
  /\ content' = file
  /\ process' = IF file.encoding = "unreadable" THEN "failed" ELSE "opened"
  /\ UNCHANGED <<file, contract, source_sha256>>

(* CalculateSha256 tells contents apart. *)
CalculateSha256(doc) == doc

(* Slip: the fingerprint is taken of the file instead of what was parsed. *)
LoadFingerprintingFile ==
  /\ process = "opened"
  /\ LoadError(content) = "none"
  /\ contract' = content
  /\ source_sha256' = CalculateSha256(file)
  /\ process' = "loaded"
  /\ UNCHANGED <<file, mode, content>>

Load ==
  /\ process = "opened"
  /\ LoadError(content) = "none"
  /\ contract' = content
  /\ source_sha256' = CalculateSha256(content)
  /\ process' = "loaded"
  /\ UNCHANGED <<file, mode, content>>

RefuseContract ==
  /\ process = "opened"
  /\ LoadError(content) # "none"
  /\ process' = "failed"
  /\ UNCHANGED <<file, mode, content, contract, source_sha256>>

DependsOnItself ==
  \E k \in DOMAIN contract.input.required_diagnostics :
    contract.input.required_diagnostics[k].name = StatusName

(* The rest of the constructor; a remapped topic is only seen after the    *)
(* publisher and the subscriptions exist.                                  *)
Construct ==
  /\ process = "loaded"
  /\ \E remapped \in BOOLEAN :
       process' = IF mode = "shadow" /\ contract.publication.authorization = "shadow_only"
                       /\ ~DependsOnItself /\ ~remapped
                  THEN "running" ELSE "failed"
  /\ UNCHANGED <<file, mode, content, contract, source_sha256>>

(* The process ends, by a signal, an exception out of a callback or the    *)
(* failed start (main.cpp), and may be launched again.                     *)
Exit ==
  /\ process \in {"running", "failed"}
  /\ process' = "down"
  /\ contract' = NoContract /\ source_sha256' = NoContract
  /\ UNCHANGED <<file, mode, content>>

StartupNext ==
  \/ ReplaceFile
  \/ Open
  \/ Load
  \/ RefuseContract
  \/ Construct
  \/ Exit

StartupSpec == StartupInit /\ [][StartupNext]_startupVars

-----------------------------------------------------------------------------
(***************************************************************************)
(* Properties.                                                             *)
(***************************************************************************)

Running == process = "running"

(***************************************************************************)
(* ContractAsAssumed: what AdapterNode assumes of its contract             *)
(* (HealthContract, RequiredContract, RecoveryAssumption) holds of every   *)
(* contract a node runs with: the loader is the only guard there is.       *)
(***************************************************************************)
ContractAsAssumed ==
  Running =>
    LET health == contract.health
        required == contract.input.required_diagnostics
    IN  /\ \A field \in DOMAIN health : health[field] > 0
        /\ \A stale \in {health.odometry_stale_after, health.tracking_stale_after,
                         health.diagnostic_stale_after} :
             health.diagnostic_period < stale /\ stale < health.startup_timeout
        /\ health.maximum_odometry_stamp_gap < health.odometry_stale_after
        /\ health.maximum_odometry_receive_gap < health.odometry_stale_after
        /\ health.maximum_status_odometry_skew < health.tracking_stale_after
        /\ health.odometry_rate_window_samples >= 2
        /\ required # <<>>
        /\ \A i, j \in DOMAIN required : i # j => required[i].name # required[j].name
        /\ \A i \in DOMAIN required : required[i].maximum_level = 0

(***************************************************************************)
(* FingerprintMatches: the sha256 a running node reports is that of the    *)
(* contents its contract was parsed from, even when the file was replaced  *)
(* while it started.                                                       *)
(***************************************************************************)
FingerprintMatches == Running => source_sha256 = CalculateSha256(contract)

(***************************************************************************)
(* ApprovalsEarned: the only approval a running node can hold is the       *)
(* extrinsic's, with a valid transform and its provenance, and then the    *)
(* twist and covariance reasons alone keep publication blocked.            *)
(***************************************************************************)
ApprovalsEarned ==
  Running =>
    /\ ApprovalsOf(contract) \subseteq {"extrinsic"}
    /\ contract.extrinsic.status = "approved" =>
         contract.extrinsic.provenance /\ contract.extrinsic.transform = "valid"

(***************************************************************************)
(* TransformFramesAgree: the frames CameraPoseToBasePose insists on are    *)
(* those OnOdometry requires of a sample and those of the extrinsic, so    *)
(* that an accepted frame never latches the node for its frames            *)
(* (rigid_transform.cpp:238-249, adapter_node.cpp:386-394).                *)
(***************************************************************************)
TransformFramesAgree ==
  Running =>
    /\ contract.input.frames.parent = "odom"
    /\ contract.input.frames.child = contract.extrinsic.child_frame
    /\ contract.extrinsic.child_frame = "camera_link"
    /\ contract.extrinsic.parent_frame = "base_link"

(***************************************************************************)
(* NoSelfDependence: no running node waits for a status that an adapter    *)
(* publishes on the shared /diagnostics topic, its own included.           *)
(***************************************************************************)
NoSelfDependence ==
  Running =>
    \A k \in DOMAIN contract.input.required_diagnostics :
      contract.input.required_diagnostics[k].name \notin OwnSuffixed
=============================================================================
