--------------------------- MODULE MCJobScheduler ---------------------------
(* Model-checking instance of JobScheduler: an interval job and a cron job,  *)
(* two worker threads, and one kill or failed write.                         *)
EXTENDS JobScheduler
=============================================================================
