------------------------------ MODULE Backoff ------------------------------
(***************************************************************************)
(* fleet/backoff.py: the bounded crash-loop backoff of sknoded's healing.   *)
(* A tracker is the number of heal attempts of the current episode and the  *)
(* time since the last of them.  The code keeps a wall-clock last_attempt   *)
(* and compares "now - last_attempt" with a threshold; here that difference *)
(* itself is kept, saturated at MaxAge, which no threshold exceeds, so      *)
(* every comparison the code makes has the same outcome.  last_attempt =    *)
(* 0.0 (the epoch, the value of a fresh tracker) is an age of MaxAge.       *)
(***************************************************************************)
EXTENDS Naturals

CONSTANTS BackoffBase,     \* BACKOFF_BASE_S
          BackoffCap,      \* BACKOFF_CAP_S
          CrashLoopAfter,  \* CRASH_LOOP_AFTER
          HealthyReset,    \* HEALTHY_RESET_S
          MaxAge           \* bound: ages saturate here

ASSUME BackoffAssumption ==
    /\ BackoffBase \in Nat /\ BackoffCap \in Nat
    /\ CrashLoopAfter \in Nat \ {0}
    /\ HealthyReset \in Nat
    /\ MaxAge \in Nat
    /\ BackoffCap <= MaxAge /\ HealthyReset <= MaxAge

Ages == 0..MaxAge

\* One unit of time later, saturated.
Older(a) == IF a < MaxAge THEN a + 1 ELSE MaxAge

\* Seconds to wait before the next attempt: none before the first, then
\* doubling from the base up to the cap.
next_delay(n) ==
    IF n = 0 THEN 0
    ELSE IF BackoffBase * 2^(n - 1) < BackoffCap
         THEN BackoffBase * 2^(n - 1) ELSE BackoffCap

\* The backoff window of the next attempt has passed.
allowed(n, a) == a >= next_delay(n)

\* The attempt budget of the episode is spent.
is_crash_looping(n) == n >= CrashLoopAfter

\* A healthy observation ends the episode once the last attempt is
\* HealthyReset old.
ends_episode(n, a) == n > 0 /\ a >= HealthyReset
=============================================================================
