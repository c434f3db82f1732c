----------------------------- MODULE HealthGate -----------------------------
(***************************************************************************)
(* RuntimeHealthGate (localization_contracts/src/gate.cpp): the five-state *)
(* health machine every handler of the adapter reports to.  The members    *)
(* state_, reason_ and recovery_progress_ are the variables; each method   *)
(* that changes them is an action.  A definition introduced as a slip is   *)
(* no part of the model: it is a plausible bug in the definition after it, *)
(* kept to show that a property would notice.                              *)
(***************************************************************************)
EXTENDS Integers

CONSTANT RecoveryRequired    \* recovery_consecutive_samples

(* The constructor throws on zero. *)
ASSUME RecoveryAssumption == RecoveryRequired \in Nat \ {0}

VARIABLES health, reason, progress

gateVars == <<health, reason, progress>>

HealthStates ==
  {"starting", "healthy", "transient_fault", "recovering", "latched_fault"}

GateInit ==
  /\ health = "starting"
  /\ reason = "WAITING_FOR_INPUT"
  /\ progress = 0

MarkStarting(why) ==
  \/ /\ health # "starting"
     /\ UNCHANGED gateVars
  \/ /\ health = "starting"
     /\ health' = health
     /\ reason' = why
     /\ progress' = 0

(* Slip: a latched gate is not protected. *)
MarkTransientAlways(why) ==
  /\ health' = "transient_fault"
  /\ reason' = why
  /\ progress' = 0

(* Slip: the reason is noted before the state is looked at. *)
MarkTransientNoting(why) ==
  /\ reason' = why
  /\ health' = IF health = "latched_fault" THEN health ELSE "transient_fault"
  /\ progress' = 0

MarkTransient(why) ==
  \/ /\ health = "latched_fault"
     /\ UNCHANGED gateVars
  \/ /\ health # "latched_fault"
     /\ health' = "transient_fault"
     /\ reason' = why
     /\ progress' = 0

MarkLatched(why) ==
  /\ health' = "latched_fault"
  /\ reason' = why
  /\ progress' = 0

(* Slip: one healthy sample ends a fault. *)
ObserveHealthySampleAtOnce ==
  \/ /\ health \in {"latched_fault", "healthy"}
     /\ UNCHANGED gateVars
  \/ /\ health \notin {"latched_fault", "healthy"}
     /\ health' = "healthy"
     /\ reason' = "INPUT_HEALTHY"
     /\ progress' = 0

(* The first healthy sample trusts a starting gate at once; a faulted gate *)
(* needs RecoveryRequired of them; a healthy or latched gate ignores it.   *)
ObserveHealthySample ==
  \/ /\ health \in {"latched_fault", "healthy"}
     /\ UNCHANGED gateVars
  \/ /\ health = "starting"
     /\ health' = "healthy"
     /\ reason' = "INPUT_HEALTHY"
     /\ progress' = progress
  \/ /\ health \in {"transient_fault", "recovering"}
     /\ progress + 1 < RecoveryRequired
     /\ health' = "recovering"
     /\ reason' = "RECOVERY_IN_PROGRESS"
     /\ progress' = progress + 1
  \/ /\ health \in {"transient_fault", "recovering"}
     /\ progress + 1 >= RecoveryRequired
     /\ health' = "healthy"
     /\ reason' = "INPUT_HEALTHY"
     /\ progress' = 0

(***************************************************************************)
(* EvaluateLocalizationPublishGate: why the adapter may not publish        *)
(* odometry.  The authorization argument is ignored; approvals is the set  *)
(* of contract parts that are approved.                                    *)
(***************************************************************************)
UnapprovedReason ==
  [extrinsic |-> "EXTRINSIC_UNAPPROVED", twist |-> "TWIST_SEMANTICS_UNAPPROVED",
   covariance |-> "COVARIANCE_UNAPPROVED"]

PublishGateReasons(mode, state, approvals) ==
  {"AUTHORIZATION_SHADOW_ONLY"}
    \cup (IF mode # "shadow" THEN {"MODE_NOT_SHADOW"} ELSE {})
    \cup (IF state # "healthy" THEN {"HEALTH_NOT_OK"} ELSE {})
    \cup {UnapprovedReason[part] : part \in DOMAIN UnapprovedReason \ approvals}
=============================================================================
