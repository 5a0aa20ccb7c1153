---------------------------- MODULE MCTelemetry ----------------------------
(* An instance of Telemetry for TLC. *)
EXTENDS Telemetry, MCValues

\* A collection every day that has a data type of one that is made more often.
Shared == {{Every(1, {"license"}), Every(2, {"license", "cluster_info"})}}
=============================================================================
