------------------------- MODULE MCReviewCheckpoint -------------------------
(* Small instances of ReviewCheckpoint for TLC.  Processes, sources and     *)
(* reviewers are interchangeable, and no property is about liveness.        *)
EXTENDS ReviewCheckpoint, TLC

Interchangeable ==
    Permutations(Procs) \cup Permutations(Sources) \cup Permutations(Reviewers)
=============================================================================
