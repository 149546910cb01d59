--------------------------- MODULE FleetConverge ---------------------------
(***************************************************************************)
(* fleet/converge.py and fleet/sknoded.py: the converge pass of the node    *)
(* daemon on one node, over that node's replica of the fleet tree.          *)
(*                                                                          *)
(* A pass reads the freeze flag, the node's opt-in, the placements and the  *)
(* specs ONCE, one file after the other, and then converges the services it *)
(* found one by one: it observes the unit (state_of) and later acts on what *)
(* it observed.  Meanwhile operators edit the tree, Syncthing moves         *)
(* placements, units fail and recover, and the daemon may be restarted,     *)
(* which forgets the backoff trackers and the pass in flight.               *)
(***************************************************************************)
EXTENDS Backoff, FiniteSets

CONSTANTS Services,      \* names of Service objects
          NoService,     \* "no service is being converged"
          SpecClasses,   \* what converge_service tells apart in a spec file
          UnitStates,    \* the unit states of this instance
          FreezeFiles,   \* the states of objects/_freeze.json
          MaxEdits       \* bound: operator edits and daemon restarts

AllSpecClasses == {"unreadable", "invalid", "deleted", "paused", "never",
                   "refused", "managed"}
AllUnitStates  == {"active", "hung", "activating", "unknown",
                   "failed", "inactive", "missing"}
AllFreezeFiles == {"absent", "off", "on", "unreadable"}

ASSUME ConvergeAssumption ==
    /\ NoService \notin Services
    /\ SpecClasses \subseteq AllSpecClasses /\ "managed" \in SpecClasses
    /\ UnitStates \subseteq AllUnitStates /\ "active" \in UnitStates
    /\ FreezeFiles \subseteq AllFreezeFiles /\ FreezeFiles # {}
    /\ MaxEdits \in Nat

VARIABLES
    \* the node's replica of the fleet tree, and the node itself
    freezeFile,  \* objects/_freeze.json
    actuate,     \* spec.actuate of this node's Node object
    placed,      \* the services whose placement names this node
    spec,        \* spec[s]: class of objects/service/<s>.json
    unit,        \* unit[s]: the state of the service's unit
    \* the daemon's memory: backoff trackers
    attempts, age,
    \* the daemon's memory: the pass in flight
    stage,       \* what converge_once reads next, or "converge"
    unread,      \* the services whose file of that stage is still to be read
    mode,        \* "frozen" | "actuate" | "report-only"
    todo,        \* entries of the pass not yet converged
    snap,        \* spec_payload of each entry, as it was read
    age0,        \* now - last_attempt of each entry, "now" being the pass's
    elapsed,     \* time since the pass read its "now"
    cur, seen,   \* the service being converged and the unit state observed
    \* status/<node>/service/<s>.json
    status,
    \* history and bounds
    late,        \* late[g][s]: heals of s since gate g closed for it
    spree,       \* heals of s since a healthy observation or daemon start
    edits        \* operator edits and restarts so far

tree    == <<freezeFile, actuate, placed, spec>>
tracker == <<attempts, age>>
reading == <<stage, unread>>
pass    == <<reading, mode, todo, snap, age0, elapsed, cur, seen>>
vars    == <<freezeFile, actuate, placed, spec, unit, attempts, age, stage, unread, mode,
             todo, snap, age0, elapsed, cur, seen, status, late, spree, edits>>

Gates == {"freeze", "opt-in", "placement", "spec"}
Stages == {"opt-in", "placements", "specs", "converge"}
Modes == {"frozen", "actuate", "report-only"}
NoStatus == [written |-> FALSE, state |-> "unknown", ready |-> FALSE,
             crashLooping |-> FALSE]
StatusFiles == [written : BOOLEAN, state : AllUnitStates, ready : BOOLEAN,
                crashLooping : BOOLEAN]

\* store.is_frozen: a file that exists and does not parse counts as frozen.
is_frozen(f) == f \in {"on", "unreadable"}

\* The unit states converge_service takes for a unit that is down.
Down == {"failed", "inactive", "missing"}

\* Spec classes for which converge_service returns before it looks at the unit.
Skipped == {"unreadable", "invalid", "deleted"}

\* What a human closes to keep the daemon off s.
Open(g, s) ==
    \/ g = "freeze"    /\ ~is_frozen(freezeFile)
    \/ g = "opt-in"    /\ actuate
    \/ g = "placement" /\ s \in placed
    \/ g = "spec"      /\ spec[s] = "managed"

\* What the tree as it stands now allows a converge pass to heal.
Healable(s) == \A g \in Gates : Open(g, s)

Init ==
    /\ freezeFile \in FreezeFiles
    /\ actuate = TRUE
    /\ placed = Services
    /\ spec = [s \in Services |-> "managed"]
    /\ unit = [s \in Services |-> "active"]
    /\ attempts = [s \in Services |-> 0]
    /\ age = [s \in Services |-> MaxAge]
    /\ stage = "converge" /\ unread = {}
    /\ mode = "report-only"
    /\ todo = {}
    /\ snap = [s \in Services |-> "managed"]
    /\ age0 = [s \in Services |-> MaxAge]
    /\ elapsed = 0
    /\ cur = NoService
    /\ seen = "unknown"
    /\ status = [s \in Services |-> NoStatus]
    /\ late = [g \in Gates |-> [s \in Services |-> 0]]
    /\ spree = [s \in Services |-> 0]
    /\ edits = 0

----------------------------------------------------------------------------
(* The daemon.                                                             *)

\* Seeded fault: the pass looks only at the node's opt-in.
FreezeUnread == FALSE

\* not store.actuation_allowed.
FoundFrozen == is_frozen(freezeFile)

\* converge_once takes its "now" and reads the freeze flag; a frozen pass does not
\* ask for the opt-in.
StartPass ==
    /\ stage = "converge" /\ todo = {} /\ cur = NoService
    /\ age0' = age /\ elapsed' = 0
    /\ IF FoundFrozen THEN mode' = "frozen" /\ stage' = "placements"
                      ELSE mode' = "report-only" /\ stage' = "opt-in"
    /\ unread' = Services
    /\ UNCHANGED <<tree, unit, tracker, todo, cur, seen, snap, status, late, spree, edits>>

\* actuation_enabled.
ReadOptIn ==
    /\ stage = "opt-in"
    /\ mode' = IF actuate THEN "actuate" ELSE "report-only"
    /\ stage' = "placements"
    /\ UNCHANGED <<tree, unit, tracker, unread, todo, snap, age0, elapsed, cur, seen,
                   status, late, spree, edits>>

\* list_placements, a file at a time; what names another node is left out.
ReadPlacement(s) ==
    /\ stage = "placements" /\ s \in unread
    /\ unread' = unread \ {s}
    /\ todo' = IF s \in placed THEN todo \cup {s} ELSE todo
    /\ UNCHANGED <<tree, unit, tracker, stage, mode, snap, age0, elapsed, cur, seen,
                   status, late, spree, edits>>

\* local_services reads the spec of each entry.
ReadSpec(s) ==
    /\ stage = "specs" /\ s \in unread
    /\ unread' = unread \ {s}
    /\ snap' = [snap EXCEPT ![s] = spec[s]]
    /\ UNCHANGED <<tree, unit, tracker, stage, mode, todo, age0, elapsed, cur, seen,
                   status, late, spree, edits>>

\* From the placements to the specs of the entries, and to the loop over them.
ReadOn ==
    /\ unread = {}
    /\ \/ stage = "placements" /\ stage' = "specs" /\ unread' = todo
       \/ stage = "specs" /\ stage' = "converge" /\ UNCHANGED unread
    /\ UNCHANGED <<tree, unit, tracker, mode, todo, snap, age0, elapsed, cur, seen,
                   status, late, spree, edits>>

\* A file cannot be read (OSError): the pass is over, "degraded".
Degrade ==
    /\ stage # "converge" /\ edits < MaxEdits
    /\ edits' = edits + 1
    /\ stage' = "converge" /\ unread' = {} /\ todo' = {}
    /\ UNCHANGED <<tree, unit, tracker, mode, snap, age0, elapsed, cur, seen,
                   status, late, spree>>

\* converge_service of an entry whose spec is unreadable, invalid or
\* tombstoned: the unit is left alone and no status is written.
SkipEntry(s) ==
    /\ stage = "converge" /\ cur = NoService /\ s \in todo
    /\ snap[s] \in Skipped
    /\ todo' = todo \ {s}
    /\ UNCHANGED <<tree, unit, tracker, reading, mode, snap, age0, elapsed, cur, seen,
                   status, late, spree, edits>>

\* converge_service up to and including actuation.state_of and the probe.
ObserveUnit(s) ==
    /\ stage = "converge" /\ cur = NoService /\ s \in todo
    /\ snap[s] \notin Skipped
    /\ cur' = s
    /\ seen' = unit[s]
    /\ UNCHANGED <<tree, unit, tracker, reading, mode, todo, snap, age0, elapsed,
                   status, late, spree, edits>>

\* may_heal of converge_service.
may_heal(s) == /\ mode = "actuate"
               /\ snap[s] = "managed"
               /\ seen \in Down

\* The episode's attempts after backoff.record_healthy, run on a healthy
\* observation only.
AfterHealthy(s) ==
    IF seen = "active" /\ ends_episode(attempts[s], age0[s])
    THEN 0 ELSE attempts[s]

\* Seeded fault: the attempt budget is not consulted.
HealsWithoutBudget(s) == may_heal(s) /\ allowed(attempts[s], age0[s])

\* A heal is run: the budget is not spent and its window has passed.
Heals(s) == /\ may_heal(s)
            /\ ~is_crash_looping(attempts[s])
            /\ allowed(attempts[s], age0[s])

\* Seeded fault: the condition is computed before the attempt is recorded.
ReportStale(s, n) ==
    status' = [status EXCEPT ![s] =
                 [written |-> TRUE, state |-> seen, ready |-> seen = "active",
                  crashLooping |-> is_crash_looping(attempts[s])]]

\* _write_service_status: the state that was observed, not the one the heal
\* led to.
Report(s, n) ==
    status' = [status EXCEPT ![s] =
                 [written |-> TRUE, state |-> seen, ready |-> seen = "active",
                  crashLooping |-> is_crash_looping(n)]]

\* Seeded fault: the loop over the entries ends at the first one.
LeaveEarly(s) == /\ todo' = {}
                 /\ cur' = NoService
                 /\ UNCHANGED <<reading, mode, snap, age0, elapsed, seen>>

\* converge_service returns to the loop of converge_once.
Leave(s) == /\ todo' = todo \ {s}
            /\ cur' = NoService
            /\ UNCHANGED <<reading, mode, snap, age0, elapsed, seen>>

\* _heal: start or restart the unit (which may bring it up or not, or fail), then
\* backoff.record_attempt with the pass's "now", whatever came of it.
Heal(s) ==
    /\ cur = s /\ Heals(s)
    /\ \E u \in (UnitStates \cap {"active", "hung", "failed", "activating"}) \cup {unit[s]} :
          unit' = [unit EXCEPT ![s] = u]
    /\ attempts' = [attempts EXCEPT ![s] = @ + 1]
    /\ age' = [age EXCEPT ![s] = elapsed]
    /\ Report(s, attempts[s] + 1)
    /\ late' = [g \in Gates |-> [late[g] EXCEPT ![s] = IF Open(g, s) THEN 0 ELSE @ + 1]]
    /\ spree' = [spree EXCEPT ![s] = @ + 1]
    /\ Leave(s)
    /\ UNCHANGED <<tree, edits>>

\* The rest of converge_service when nothing is healed.
LeaveAlone(s) ==
    /\ cur = s /\ ~Heals(s)
    /\ attempts' = [attempts EXCEPT ![s] = AfterHealthy(s)]
    /\ age' = [age EXCEPT ![s] =
                 IF AfterHealthy(s) = attempts[s] THEN @ ELSE MaxAge]
    /\ Report(s, AfterHealthy(s))
    /\ spree' = [spree EXCEPT ![s] = IF seen = "active" THEN 0 ELSE @]
    /\ Leave(s)
    /\ UNCHANGED <<tree, unit, late, edits>>

\* sknoded is killed and started again: its memory is new.
DaemonRestart ==
    /\ edits < MaxEdits
    /\ edits' = edits + 1
    /\ attempts' = [s \in Services |-> 0]
    /\ age' = [s \in Services |-> MaxAge]
    /\ spree' = [s \in Services |-> 0]
    /\ stage' = "converge" /\ unread' = {} /\ todo' = {} /\ cur' = NoService
    /\ UNCHANGED <<tree, unit, mode, snap, age0, elapsed, seen, status, late>>

----------------------------------------------------------------------------
(* The environment: operators through skfleet, Syncthing, systemd, time.   *)

\* late counts from the moment a gate closes.
Recount == late' = [g \in Gates |-> [s \in Services |-> IF Open(g, s)' THEN 0 ELSE late[g][s]]]

Edit ==
    /\ edits < MaxEdits
    /\ edits' = edits + 1
    /\ \/ /\ freezeFile' \in FreezeFiles \ {freezeFile}
          /\ UNCHANGED <<actuate, placed, spec>>
       \/ /\ actuate' = ~actuate
          /\ UNCHANGED <<freezeFile, placed, spec>>
       \/ /\ \E s \in Services :
                placed' = IF s \in placed THEN placed \ {s} ELSE placed \cup {s}
          /\ UNCHANGED <<freezeFile, actuate, spec>>
       \/ /\ \E s \in Services : \E c \in SpecClasses \ {spec[s]} :
                spec' = [spec EXCEPT ![s] = c]
          /\ UNCHANGED <<freezeFile, actuate, placed>>
    /\ Recount
    /\ UNCHANGED <<unit, tracker, pass, status, spree>>

\* The unit changes by itself: it dies, systemd or a human starts or stops it.
UnitChanges(s) ==
    /\ \E u \in UnitStates \ {unit[s]} : unit' = [unit EXCEPT ![s] = u]
    /\ UNCHANGED <<tree, tracker, pass, status, late, spree, edits>>

Tick ==
    /\ age' = [s \in Services |-> Older(age[s])]
    /\ elapsed' = Older(elapsed)
    /\ UNCHANGED <<tree, unit, attempts, reading, mode, todo, snap, age0, cur, seen,
                   status, late, spree, edits>>

Daemon == \/ StartPass \/ ReadOptIn \/ ReadOn
          \/ \E s \in Services : ReadPlacement(s) \/ ReadSpec(s)
          \/ \E s \in Services : SkipEntry(s) \/ ObserveUnit(s) \/ Heal(s)
                                 \/ LeaveAlone(s)

Next == \/ Daemon
        \/ Degrade \/ DaemonRestart
        \/ Edit
        \/ \E s \in Services : UnitChanges(s)
        \/ Tick

Spec == Init /\ [][Next]_vars

\* main_loop never returns and time passes.
Fairness == WF_vars(Daemon) /\ WF_vars(Tick)

FairSpec == Spec /\ Fairness

----------------------------------------------------------------------------
(* Properties.                                                             *)

TypeOK ==
    /\ freezeFile \in FreezeFiles
    /\ actuate \in BOOLEAN
    /\ placed \in SUBSET Services
    /\ spec \in [Services -> SpecClasses]
    /\ unit \in [Services -> UnitStates]
    /\ attempts \in [Services -> 0..CrashLoopAfter]
    /\ age \in [Services -> Ages]
    /\ stage \in Stages /\ unread \in SUBSET Services
    /\ mode \in Modes
    /\ todo \in SUBSET Services
    /\ snap \in [Services -> SpecClasses]
    /\ age0 \in [Services -> Ages]
    /\ elapsed \in Ages
    /\ cur \in todo \cup {NoService}
    /\ seen \in AllUnitStates
    /\ status \in [Services -> StatusFiles]
    /\ late \in [Gates -> [Services -> Nat]]
    /\ spree \in [Services -> Nat]
    /\ edits \in 0..MaxEdits

\* The pass in flight has read gate g, found it open for s, and may still heal s.
Passed(g, s) ==
    /\ stage # "converge" \/ s \in todo
    /\ \/ g = "freeze"    /\ mode # "frozen"
       \/ g = "opt-in"    /\ mode = "actuate"
       \/ g = "placement" /\ s \in todo
       \/ /\ g = "spec" /\ stage \in {"specs", "converge"}
          /\ s \in todo \ unread /\ snap[s] = "managed"

\* What AtMostOneLateHeal rests on: a service healed after a gate closed was not let
\* through that gate by the pass in flight, or has been taken off it.
LateInv ==
    \A g \in Gates, s \in Services :
        /\ Open(g, s) => late[g][s] = 0
        /\ late[g][s] <= 1
        /\ late[g][s] # 0 => ~Passed(g, s)

\* A pass reads before it converges, and does not ask for the opt-in when it is frozen.
ReadingInv ==
    /\ IF stage = "converge" THEN unread = {} ELSE cur = NoService
    /\ stage = "opt-in" => mode # "frozen"

\* What HealBudget rests on: the tracker counts every heal of the spree.
BudgetInv == \A s \in Services : spree[s] <= attempts[s]

\* From the moment the operator freezes the fleet, opts the node out, moves the
\* service away, or pauses or retires it, and as long as that one gate stays closed,
\* this node heals the service at most once more, whatever is done to the other gates
\* while passes read them one after the other (converge.py:415-423).
AtMostOneLateHeal == \A g \in Gates, s \in Services : late[g][s] <= 1

\* However passes, failures, edits and time interleave, a unit that has not
\* been seen healthy is healed at most CRASH_LOOP_AFTER times in one daemon
\* life: the episode's budget cannot be refilled by anything else
\* (backoff.py:42-57, converge.py:295-317).
HealBudget == \A s \in Services : spree[s] <= CrashLoopAfter

\* While the tracker holds a spent budget, the node's own status file says
\* CrashLooping: no pass, edit or observation in between takes the report back
\* while healing stays stopped (converge.py:354-392).
CrashLoopReported ==
    \A s \in Services :
        is_crash_looping(attempts[s]) => status[s].written /\ status[s].crashLooping

\* The inductive invariant.
IInv == TypeOK /\ ReadingInv /\ LateInv /\ BudgetInv /\ CrashLoopReported

\* A unit that is down and stays healable is in the end brought out of that
\* state or its budget is spent: no combination of backoff ages and pass
\* starts leaves it waiting for ever (converge.py:295-317).
EventuallyHealedOrGivenUp ==
    \A s \in Services :
        (Healable(s) /\ unit[s] \in Down)
            ~> (~Healable(s) \/ unit[s] \notin Down \/ is_crash_looping(attempts[s]))
=============================================================================
