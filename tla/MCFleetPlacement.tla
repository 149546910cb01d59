------------------------- MODULE MCFleetPlacement -------------------------
(* Small instances of FleetPlacement for TLC. *)
EXTENDS FleetPlacement
=============================================================================
