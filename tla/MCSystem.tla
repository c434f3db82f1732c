------------------------------ MODULE MCSystem ------------------------------
(* Two diagnostics writers, a camera that is covered for a while. *)
EXTENDS AdapterSystem, MCInputs

TwoPublishers == <<relay, monitor>>
Relay == [gid |-> relay, node |-> relay]
Monitor == [gid |-> monitor, node |-> monitor]
BothDiscovered == {<<Relay, Monitor>>}
FrameAndTracking == {{}, {"odometry", "tracking"}}
=============================================================================
