------------------------ MODULE MCGatewaySupervisor ------------------------
(* GatewaySupervisor instantiated for TLC. *)
EXTENDS GatewaySupervisor

CONSTANTS p1, p2, q1

=============================================================================
