----------------------------- MODULE MCStartup -----------------------------
(***************************************************************************)
(* The contract files of the startup run: the two the repository accepts   *)
(* (blocked and approved extrinsic) and files that differ from one of them *)
(* in one place, or in two.                                                *)
(***************************************************************************)
EXTENDS AdapterStartup

Required(name, level) == [name |-> name, maximum_level |-> level]

Blocked ==
  [encoding |-> "one document", malformed |-> {}, schema_version |-> 1,
   status |-> "blocked",
   input |->
     [topics |-> [odometry |-> "/vo", status |-> "/vo_status",
                  diagnostics |-> "/diagnostics"],
      frames |-> [parent |-> "odom", child |-> "camera_link", status |-> "map"],
      accepted_vo_states |-> <<1>>,
      required_diagnostics |-> <<Required("relay", 0), Required("monitor", 0)>>],
   health |->
     [diagnostic_period |-> 1, odometry_stale_after |-> 2,
      tracking_stale_after |-> 2, diagnostic_stale_after |-> 3,
      startup_timeout |-> 4, recovery_consecutive_samples |-> 1,
      minimum_odometry_rate |-> 1, maximum_odometry_stamp_gap |-> 1,
      maximum_odometry_receive_gap |-> 1, maximum_clock_residual |-> 1,
      maximum_status_odometry_skew |-> 1, maximum_position_step |-> 1,
      maximum_rotation_step_deg |-> 45, odometry_rate_window_samples |-> 2],
   extrinsic |->
     [status |-> "blocked", parent_frame |-> "base_link",
      child_frame |-> "camera_link", transform |-> "null", provenance |-> FALSE],
   twist |-> [status |-> "blocked", policy |-> "reject", approval_id |-> FALSE],
   covariance |-> [status |-> "blocked", policy |-> "reject", approval_id |-> FALSE],
   publication |->
     [authorization |-> "shadow_only", topic |-> "/localization/odometry",
      parent_frame |-> "odom", child_frame |-> "base_link"]]

Approved ==
  [Blocked EXCEPT !.extrinsic =
     [@ EXCEPT !.status = "approved", !.transform = "valid", !.provenance = TRUE]]

BadFiles ==
  {[Blocked EXCEPT !.encoding = e] : e \in {"unreadable", "not yaml", "documents"}}
    \cup {[Blocked EXCEPT !.malformed = {section}] :
            section \in {"contract", "input", "health", "extrinsic", "publication"}}
    \cup {[Blocked EXCEPT !.status = "approved"], [Blocked EXCEPT !.schema_version = 2]}

BadInputs ==
  {[Blocked EXCEPT !.input.required_diagnostics = r] :
     r \in {<<>>, <<Required("relay", 1)>>, <<Required("relay", 0), Required("relay", 0)>>,
            <<Required("self: localization contract", 0)>>,
            <<Required("other: localization contract", 0)>>}}
    \cup {[Blocked EXCEPT !.input.accepted_vo_states = s] :
            s \in {<<>>, <<1, 1>>, <<2>>, <<256>>}}
    \cup {[Blocked EXCEPT !.input.topics.status = "/vo"],
          [Blocked EXCEPT !.input.topics.diagnostics = "/diag"],
          [Approved EXCEPT !.input.frames.child = "base_link"],
          [Approved EXCEPT !.input.frames.parent = "map"]}

(* Every health threshold at and just over its limit. *)
BadHealths ==
  {[Blocked EXCEPT !.health[field] = n] : field \in DOMAIN Blocked.health, n \in {0, 2, 3, 181}}

BadGates ==
  {[Approved EXCEPT !.extrinsic.provenance = FALSE],
   [Approved EXCEPT !.extrinsic.transform = "invalid"],
   [Approved EXCEPT !.extrinsic.parent_frame = "imu_link"],
   [Approved EXCEPT !.extrinsic.child_frame = "imu_link"],
   [Blocked EXCEPT !.extrinsic.transform = "valid"],
   [Blocked EXCEPT !.extrinsic.provenance = TRUE],
   [Blocked EXCEPT !.twist.policy = "pass"],
   [Blocked EXCEPT !.twist = [status |-> "approved", policy |-> "pass", approval_id |-> TRUE]],
   [Approved EXCEPT !.covariance.status = "approved"],
   [Blocked EXCEPT !.publication.authorization = "active"],
   [Blocked EXCEPT !.publication.topic = "/odom"],
   [Blocked EXCEPT !.publication.child_frame = "camera_link"]}

AllDocuments ==
  {Blocked, Approved} \cup BadFiles \cup BadInputs \cup BadHealths \cup BadGates
=============================================================================
