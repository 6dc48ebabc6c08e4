--------------------------- MODULE MCTelemetry ---------------------------
(* A small instance of Telemetry for TLC. *)
EXTENDS Telemetry
=============================================================================
