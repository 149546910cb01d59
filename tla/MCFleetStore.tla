---------------------------- MODULE MCFleetStore ----------------------------
(* Model-checking instance of FleetStore: a human and the operator seat      *)
(* editing one Operatorapp with a registration and a ratification field,     *)
(* and one node reporting on it.                                             *)
EXTENDS FleetStore
=============================================================================
