----------------------------- MODULE MCTelemetry -----------------------------
(* Instances of Telemetry for TLC; the cfg files give the bounds. *)
EXTENDS Telemetry
=============================================================================
