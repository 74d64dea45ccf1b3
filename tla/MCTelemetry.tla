----------------------------- MODULE MCTelemetry -----------------------------
(* The instance of Telemetry that TLC checks; a unit of time is about 10 s.  *)
EXTENDS Telemetry
=============================================================================
