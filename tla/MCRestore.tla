------------------------------ MODULE MCRestore ------------------------------
(* Instances of Restore for TLC: snapshots of either kind, whole or without *)
(* some parts, of the target itself or of another device.                   *)
EXTENDS Restore

MCSnapshots ==
  {s \in SnapshotType :
     /\ s.has \in {PartsOf(s.kind), PartsOf(s.kind) \ {"device_name", "ext_bind_key"}}
     /\ s.kind = "repeater" => s.crypto = "none"
     /\ s.crypto # "none" \/ s.kind = "repeater"}

MCSelections ==
  {ThermometerParts, {"config", "sensor"}, {"device_name"}, {"bind_key"},
   RepeaterParts, {"ext_mac", "ext_bind_key"}}
=============================================================================
