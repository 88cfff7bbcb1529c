---------------------------- MODULE MCTelemetry -----------------------------
(* TLC instance of Telemetry.                                              *)
EXTENDS Telemetry

(* Both ends of the range and beyond, and both sides of zero.              *)
Quarters == {-164, -3, -1, 351, 356}

=============================================================================
