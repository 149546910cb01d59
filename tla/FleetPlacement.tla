--------------------------- MODULE FleetPlacement ---------------------------
(***************************************************************************)
(* fleet/service_controller.py, scheduler.py and node_controller.py with    *)
(* sknoded.py: where services run.                                          *)
(*                                                                          *)
(* Each node's daemon writes a heartbeat file and takes up the services     *)
(* placed on it.  On the control node a pass of the service controller      *)
(* judges nodes by the age of the heartbeats it has and places services, or *)
(* moves them off a node it takes for dead.  Both sides see the other's     *)
(* files through Syncthing, late, and not at all while a node is cut off.   *)
(* Rounds and deliveries may take any time; a heartbeat that comes too late  *)
(* is a fault like any other.                                               *)
(***************************************************************************)
EXTENDS Integers

CONSTANTS Nodes, NoNode, Services,
          Controllers,     \* processes that run a controller pass on the control node
          NoWrite,
          BeatInterval,    \* the interval of sknoded
          NotReadyAfter,   \* NOT_READY_AFTER_S
          DeadAfter,       \* DEAD_AFTER_S
          MaxUpsets        \* bound: daemons stopped, nodes cut off, late heartbeats
                           \* and edits

ASSUME PlacementAssumption ==
    /\ NoNode \notin Nodes
    /\ BeatInterval \in Nat \ {0} /\ NotReadyAfter \in Nat /\ DeadAfter \in Nat
    /\ MaxUpsets \in Nat
    /\ NotReadyAfter <= DeadAfter

MaxAge == DeadAfter + 1
Older(age, max) == IF age < max THEN age + 1 ELSE max

Writes == [service : Services, to : Nodes]
ASSUME NoWriteAssumption == NoWrite \notin Writes

VARIABLES
    beat,       \* heartbeat.json on its node: its age, MaxAge if there is none
    seen,       \* the age of the control node's copy
    daemon,     \* sknoded: stopped, booting (not yet a heartbeat), running
    todo,       \* the services its converge pass has still to take up
    cut,        \* nodes cut off from the control node
    placement,  \* placements/service/<s>.json on the control node
    copy,       \* the services a node's copies of them place on it
    spec,       \* the service's spec: auto, manual, or deleted
    fits,       \* nodes that pass the filters other than the phase
    frozen,     \* objects/_freeze.json
    plan,       \* a controller pass: what it read of each spec, or done
    dead,       \* the nodes its views call Dead
    ready,      \* the nodes its views call Ready and that fit
    write,      \* the placement it is about to write
    units,      \* the nodes on which the service's unit runs
    steady,     \* history: nodes up, connected, and heard from in time since they are
    doubt,      \* history: the nodes not steady when the pass read its views
    ghosts,     \* history: the nodes a service was moved off while in doubt
    moves,      \* history: how often a service was moved
    touched,    \* history: services another pass has placed during this one
    clash,      \* history: a pass has written what another pass had touched
    faults, edits

clocks == <<beat, seen, daemon, cut>>
tree == <<placement, copy, spec, fits, frozen>>
pass == <<plan, dead, ready, write>>
history == <<steady, doubt, ghosts, moves, touched, clash>>
vars == <<clocks, todo, tree, pass, units, history, faults, edits>>

Init ==
    /\ beat = [n \in Nodes |-> MaxAge] /\ seen = [n \in Nodes |-> MaxAge]
    /\ daemon = [n \in Nodes |-> "booting"]
    /\ todo = [n \in Nodes |-> {}]
    /\ cut = {}
    /\ placement = [s \in Services |-> NoNode]
    /\ copy = [n \in Nodes |-> {}]
    /\ spec \in [Services -> {"auto", "manual"}]
    /\ fits = Nodes
    /\ frozen = FALSE
    /\ plan = [c \in Controllers |-> [s \in Services |-> "done"]]
    /\ dead = [c \in Controllers |-> {}] /\ ready = [c \in Controllers |-> {}]
    /\ write = [c \in Controllers |-> NoWrite]
    /\ units = [s \in Services |-> {}]
    /\ steady = {}
    /\ doubt = [c \in Controllers |-> {}]
    /\ ghosts = [s \in Services |-> {}]
    /\ moves = [s \in Services |-> 0]
    /\ touched = [c \in Controllers |-> {}]
    /\ clash = FALSE /\ faults = 0 /\ edits = 0

Upset == faults + edits < MaxUpsets
Fault == Upset /\ faults' = faults + 1

----------------------------------------------------------------------------
(* The node's daemon.                                                      *)

\* main_loop comes round: a heartbeat if one is due, then the placements that
\* name this node.
StartRound(n) ==
    /\ \/ daemon[n] = "booting"
       \/ daemon[n] = "running" /\ todo[n] = {}
    /\ beat' = IF daemon[n] = "booting" \/ beat[n] >= BeatInterval
               THEN [beat EXCEPT ![n] = 0] ELSE beat
    /\ daemon' = [daemon EXCEPT ![n] = "running"]
    /\ todo' = [todo EXCEPT ![n] = copy[n]]
    /\ UNCHANGED <<seen, cut, tree, pass, units, history, faults, edits>>

\* converge_service: the unit is started, or left as it is (FleetConverge says
\* when).  No path stops a unit.
Converge(n, s) ==
    /\ s \in todo[n]
    /\ todo' = [todo EXCEPT ![n] = @ \ {s}]
    /\ \/ units' = [units EXCEPT ![s] = @ \cup {n}]
       \/ UNCHANGED units
    /\ UNCHANGED <<clocks, tree, pass, history, faults, edits>>

UnitFails(n, s) ==
    /\ n \in units[s]
    /\ units' = [units EXCEPT ![s] = @ \ {n}]
    /\ UNCHANGED <<clocks, todo, tree, pass, history, faults, edits>>

\* The node is no longer steady.
Unsettled(n) == /\ steady' = steady \ {n}
                /\ UNCHANGED <<doubt, ghosts, moves, touched, clash>>

\* sknoded stops, alone or with its host; the units are a matter of UnitFails.
StopDaemon(n) ==
    /\ daemon[n] # "stopped" /\ Fault
    /\ daemon' = [daemon EXCEPT ![n] = "stopped"]
    /\ todo' = [todo EXCEPT ![n] = {}]
    /\ Unsettled(n)
    /\ UNCHANGED <<beat, seen, cut, tree, pass, units, edits>>

StartDaemon(n) ==
    /\ daemon[n] = "stopped"
    /\ daemon' = [daemon EXCEPT ![n] = "booting"]
    /\ UNCHANGED <<beat, seen, cut, todo, tree, pass, units, history, faults, edits>>

----------------------------------------------------------------------------
(* The tree between the nodes, and time.                                   *)

CutOff(n) ==
    /\ n \notin cut /\ Fault
    /\ cut' = cut \cup {n}
    /\ Unsettled(n)
    /\ UNCHANGED <<beat, seen, daemon, todo, tree, pass, units, edits>>

Reconnect(n) ==
    /\ n \in cut
    /\ cut' = cut \ {n}
    /\ UNCHANGED <<beat, seen, daemon, todo, tree, pass, units, history, faults, edits>>

SyncBeat(n) ==
    /\ n \notin cut /\ seen[n] # beat[n]
    /\ seen' = [seen EXCEPT ![n] = beat[n]]
    /\ steady' = IF daemon[n] = "running" /\ beat[n] <= DeadAfter
                 THEN steady \cup {n} ELSE steady
    /\ UNCHANGED <<beat, daemon, cut, todo, tree, pass, units, doubt, ghosts,
                   moves, touched, clash, faults, edits>>

SyncPlacement(n, s) ==
    /\ n \notin cut /\ (s \in copy[n]) # (placement[s] = n)
    /\ copy' = [copy EXCEPT ![n] = IF placement[s] = n THEN @ \cup {s} ELSE @ \ {s}]
    /\ UNCHANGED <<clocks, todo, placement, spec, fits, frozen, pass, units, history,
                   faults, edits>>

\* The control node's copy is as old as it may be, and the next heartbeat is due,
\* or on its way.
Awaited(n) == /\ n \notin cut /\ seen[n] = DeadAfter
              /\ n \in steady \/ seen[n] # beat[n]

\* The heartbeat comes too late: the sleep, the pass before it or Syncthing took
\* too long.
Lapse(n) ==
    /\ Awaited(n) /\ Fault
    /\ seen' = [seen EXCEPT ![n] = MaxAge]
    /\ Unsettled(n)
    /\ UNCHANGED <<beat, daemon, cut, todo, tree, pass, units, edits>>

\* Time passes: any number of rounds of a daemon fit between two ticks.  A daemon
\* that starts beats at once.
Tick ==
    /\ \A n \in Nodes : daemon[n] # "booting" /\ ~Awaited(n)
    /\ beat' = [n \in Nodes |-> Older(beat[n], MaxAge)]
    /\ seen' = [n \in Nodes |-> Older(seen[n], MaxAge)]
    /\ UNCHANGED <<daemon, cut, todo, tree, pass, units, history, faults, edits>>

----------------------------------------------------------------------------
(* The controller pass on the control node.                                *)

phase(age) ==
    IF age > DeadAfter THEN "Dead"
    ELSE IF age > NotReadyAfter THEN "NotReady" ELSE "Ready"

\* Seeded fault: the phase is not a filter.
FeasibleAnyPhase(n) == n \in fits

feasible(n) == n \in fits /\ phase(seen[n]) = "Ready"

\* reconcile_once: node views and specs are read here and used to the end.
StartReconcile(c) ==
    /\ write[c] = NoWrite /\ \A s \in Services : plan[c][s] = "done"
    /\ plan' = [plan EXCEPT ![c] = [s \in Services |->
                    IF spec[s] = "deleted" THEN "done" ELSE spec[s]]]
    /\ dead' = [dead EXCEPT ![c] = {n \in Nodes : phase(seen[n]) = "Dead"}]
    /\ ready' = [ready EXCEPT ![c] = {n \in Nodes : feasible(n)}]
    /\ doubt' = [doubt EXCEPT ![c] = Nodes \ steady]
    /\ touched' = [touched EXCEPT ![c] = {}]
    /\ UNCHANGED <<clocks, todo, tree, write, units, steady, ghosts, moves, clash,
                   faults, edits>>

Done(c, s) == plan' = [plan EXCEPT ![c][s] = "done"]

\* What the pass has read is gone once its last service is settled.
Return(c) == IF write'[c] = NoWrite /\ \A s \in Services : plan'[c][s] = "done"
             THEN /\ dead' = [dead EXCEPT ![c] = {}]
                  /\ ready' = [ready EXCEPT ![c] = {}]
                  /\ doubt' = [doubt EXCEPT ![c] = {}]
             ELSE UNCHANGED <<dead, ready, doubt>>

\* Seeded fault: a service with failover auto is placed anew in every pass.
WantedAlways(c, s) == placement[s] = NoNode \/ plan[c][s] = "auto"

\* Seeded fault: only services without a placement are placed.
WantedUnplaced(c, s) == placement[s] = NoNode

Wanted(c, s) == \/ placement[s] = NoNode
                \/ placement[s] \in dead[c] /\ plan[c][s] = "auto"

\* Placed on a node that is not Dead; or place, frozen or without a candidate.
Keep(c, s) ==
    /\ write[c] = NoWrite /\ plan[c][s] # "done"
    /\ \/ placement[s] # NoNode /\ placement[s] \notin dead[c]
       \/ Wanted(c, s) /\ (frozen \/ ready[c] = {})
    /\ UNCHANGED write /\ Done(c, s) /\ Return(c)
    /\ UNCHANGED <<clocks, todo, tree, units, steady, ghosts, moves, touched, clash,
                   faults, edits>>

\* Seeded fault: the decision is recorded when there is no candidate, too.
SelectNobody(c, s) ==
    /\ write[c] = NoWrite /\ plan[c][s] # "done"
    /\ Wanted(c, s) /\ ~frozen
    /\ \E n \in ready[c] \cup {NoNode} :
          write' = [write EXCEPT ![c] = [service |-> s, to |-> n]]
    /\ Done(c, s)
    /\ UNCHANGED <<clocks, todo, tree, dead, ready, units, history, faults, edits>>

\* place: the freeze is checked, and a candidate selected; any of them may be the
\* least loaded.
Select(c, s) ==
    /\ write[c] = NoWrite /\ plan[c][s] # "done"
    /\ Wanted(c, s) /\ ~frozen
    /\ \E n \in ready[c] :
          write' = [write EXCEPT ![c] = [service |-> s, to |-> n]]
    /\ Done(c, s)
    /\ UNCHANGED <<clocks, todo, tree, dead, ready, units, history, faults, edits>>

\* Failover manual: an alert is sent, and nothing is moved.
Alert(c, s) ==
    /\ write[c] = NoWrite /\ plan[c][s] = "manual"
    /\ placement[s] # NoNode /\ placement[s] \in dead[c]
    /\ UNCHANGED write /\ Done(c, s) /\ Return(c)
    /\ UNCHANGED <<clocks, todo, tree, units, steady, ghosts, moves, touched, clash,
                   faults, edits>>

write_placement(c) ==
    /\ write[c] # NoWrite
    /\ LET s == write[c].service  old == placement[write[c].service]  new == write[c].to
           moved == old \notin {NoNode, new}
       IN /\ placement' = [placement EXCEPT ![s] = new]
          /\ moves' = IF moved THEN [moves EXCEPT ![s] = @ + 1] ELSE moves
          /\ clash' = (clash \/ s \in touched[c])
          /\ ghosts' = [ghosts EXCEPT ![s] =
                          IF moved /\ (old \in doubt[c] \/ s \in touched[c])
                          THEN @ \cup {old} ELSE @]
          /\ touched' = [k \in Controllers |->
                           IF k = c THEN touched[k] ELSE touched[k] \cup {s}]
    /\ write' = [write EXCEPT ![c] = NoWrite] /\ UNCHANGED plan /\ Return(c)
    /\ UNCHANGED <<clocks, todo, copy, spec, fits, frozen, units, steady, faults, edits>>

----------------------------------------------------------------------------

\* The operators: failover mode, tombstone, cordons and taints, freeze.
Edit ==
    /\ Upset /\ edits' = edits + 1
    /\ \/ /\ \E s \in Services, v \in {"auto", "manual", "deleted"} :
                spec' = [spec EXCEPT ![s] = v]
          /\ UNCHANGED <<fits, frozen>>
       \/ /\ \E n \in Nodes : fits' \in {fits \cup {n}, fits \ {n}}
          /\ UNCHANGED <<spec, frozen>>
       \/ frozen' = ~frozen /\ UNCHANGED <<spec, fits>>
    /\ UNCHANGED <<clocks, todo, placement, copy, pass, units, history, faults>>

DaemonStep(n) == StartRound(n) \/ \E s \in Services : Converge(n, s)
Sync(n) == SyncBeat(n) \/ \E s \in Services : SyncPlacement(n, s)
PassGoesOn(c) == \/ write_placement(c)
                 \/ \E s \in Services : Keep(c, s) \/ Select(c, s) \/ Alert(c, s)
PassStep(c) == StartReconcile(c) \/ PassGoesOn(c)

Next ==
    \/ \E n \in Nodes :
          \/ DaemonStep(n) \/ Sync(n)
          \/ StopDaemon(n) \/ StartDaemon(n) \/ CutOff(n) \/ Reconnect(n)
          \/ Lapse(n)
          \/ \E s \in Services : UnitFails(n, s)
    \/ \E c \in Controllers : PassStep(c)
    \/ Tick \/ Edit

Spec == Init /\ [][Next]_vars

\* Running daemons and Syncthing between connected nodes go on, a controller pass
\* that was started comes to its end, and time passes.
FairSpec == /\ Spec
            /\ \A n \in Nodes : WF_vars(DaemonStep(n))
            /\ \A n \in Nodes : SF_vars(SyncBeat(n))
            /\ \A n \in Nodes, s \in Services : WF_vars(SyncPlacement(n, s))
            /\ \A c \in Controllers : WF_vars(PassGoesOn(c))
            /\ WF_vars(Tick)

----------------------------------------------------------------------------
(* Properties.                                                             *)

TypeOK ==
    /\ beat \in [Nodes -> 0 .. MaxAge] /\ seen \in [Nodes -> 0 .. MaxAge]
    /\ daemon \in [Nodes -> {"stopped", "booting", "running"}]
    /\ todo \in [Nodes -> SUBSET Services]
    /\ cut \subseteq Nodes
    /\ placement \in [Services -> Nodes \cup {NoNode}]
    /\ copy \in [Nodes -> SUBSET Services]
    /\ spec \in [Services -> {"auto", "manual", "deleted"}]
    /\ fits \subseteq Nodes /\ frozen \in BOOLEAN
    /\ plan \in [Controllers -> [Services -> {"auto", "manual", "done"}]]
    /\ dead \in [Controllers -> SUBSET Nodes] /\ ready \in [Controllers -> SUBSET Nodes]
    /\ write \in [Controllers -> Writes \cup {NoWrite}]
    /\ units \in [Services -> SUBSET Nodes]
    /\ steady \subseteq Nodes /\ doubt \in [Controllers -> SUBSET Nodes]
    /\ ghosts \in [Services -> SUBSET Nodes]
    /\ moves \in [Services -> Nat]
    /\ touched \in [Controllers -> SUBSET Services] /\ clash \in BOOLEAN
    /\ faults \in 0 .. MaxUpsets /\ edits \in 0 .. MaxUpsets

\* A service runs outside its placement only on nodes it was moved off while they
\* were stopped, cut off or late with a heartbeat, or by two passes that overlapped:
\* there is no other way to run twice.
DoubleRunExplained ==
    \A s \in Services : units[s] \subseteq {placement[s]} \cup ghosts[s]

\* A service does not wander: unless two passes write about it at once, each move
\* has a daemon that stopped, a node cut off or a late heartbeat of its own.
MovesHaveCauses == ~clash => \A s \in Services : moves[s] <= faults

\* A service with failover auto ends up where a daemon takes it up again and again,
\* once the fleet stays unfrozen and the operator keeps starting passes that find
\* the service so and a node ready for it.
AutoFailoverCompletes ==
    \A s \in Services :
        (/\ <>[](spec[s] = "auto" /\ ~frozen)
         /\ []<>(\E c \in Controllers : plan[c][s] = "auto" /\ ready[c] # {}))
            => []<>(placement[s] # NoNode /\ s \in todo[placement[s]])
=============================================================================
