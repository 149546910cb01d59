--------------------------- MODULE ActionLifecycle ---------------------------
(***************************************************************************)
(* What the operator seat promises about a governed action, as             *)
(* docs/architecture/atlas-action-lifecycle.md draws it: an intent climbs   *)
(* one rung at a time to executing, touches the system at most once and     *)
(* only while it is executing, is verified only after it has touched the    *)
(* system, and never leaves a terminal state.  No pass, lock, crash or      *)
(* retry appears here; OperatorLoop is shown to implement it.               *)
(***************************************************************************)
EXTENDS Naturals

CONSTANT Intents

VARIABLES state,    \* the last lifecycle state on record, "none" before the first
          effects   \* how often the action was carried out

vars == <<state, effects>>

Init == /\ state = [i \in Intents |-> "none"]
        /\ effects = [i \in Intents |-> 0]

Move(i, from, to) ==
    /\ state[i] = from
    /\ state' = [state EXCEPT ![i] = to]
    /\ UNCHANGED effects

\* The rungs before the action may run.
Climb(i) ==
    \/ Move(i, "none", "observed")
    \/ Move(i, "observed", "diagnosed")
    \/ Move(i, "diagnosed", "proposed")
    \/ Move(i, "proposed", "authorized")
    \/ Move(i, "authorized", "executing")

\* The one time the action touches the system.
CarryOut(i) ==
    /\ state[i] = "executing" /\ effects[i] = 0
    /\ effects' = [effects EXCEPT ![i] = 1]
    /\ UNCHANGED state

Verify(i) == effects[i] = 1 /\ Move(i, "executing", "verified")

Fail(i) == Move(i, "executing", "failed")

Conclude(i) == \/ Move(i, "failed", "rolled_back")
               \/ Move(i, "failed", "escalated")

Next == \E i \in Intents :
            Climb(i) \/ CarryOut(i) \/ Verify(i) \/ Fail(i) \/ Conclude(i)

Spec == Init /\ [][Next]_vars
=============================================================================
