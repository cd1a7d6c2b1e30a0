---------------------------- MODULE MCSensorStream ----------------------------
(* Small instances of SensorStream for TLC. *)
EXTENDS SensorStream

CONSTANT flow

MC_OneSensor == <<flow>>
MC_OneEquipment == [s \in Sensor |-> "tower"]
=============================================================================
