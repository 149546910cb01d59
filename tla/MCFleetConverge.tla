-------------------------- MODULE MCFleetConverge --------------------------
(* Model-checking instance of FleetConverge: two services sharing one pass  *)
(* on one node, one operator edit or daemon restart, and units that fail    *)
(* and recover at any time.                                                 *)
EXTENDS FleetConverge
=============================================================================
