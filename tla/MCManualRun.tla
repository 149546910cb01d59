----------------------------- MODULE MCManualRun -----------------------------
(* Small instances of ManualRun for TLC. *)
EXTENDS ManualRun
=============================================================================
