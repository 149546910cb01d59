----------------------------- MODULE MCGtdStore -----------------------------
(* Small instances of GtdStore for TLC. *)
EXTENDS GtdStore
=============================================================================
