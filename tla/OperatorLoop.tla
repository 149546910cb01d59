---------------------------- MODULE OperatorLoop ----------------------------
(***************************************************************************)
(* operator_seat/loop.py with action_ledger.py, safety.py, decisions.py,    *)
(* plan.py and policy.py: passes of the operator loop over the durable      *)
(* action ledger, execution state and decision store.                       *)
(*                                                                          *)
(* A pass takes the single-flight lock, plans the proposals it was given    *)
(* and handles them one by one; every file it writes is a step of its own,  *)
(* and the process may die, or the ledger's signer fail, between any two.   *)
(* The pass runs report-only, with --execute (annotations, no ledger) or    *)
(* with --execute --honor (ledger, physical action, verification).          *)
(***************************************************************************)
EXTENDS Integers

CONSTANTS Runners,        \* processes that may run a pass (timer, manual)
          NoRunner,
          Proposals,      \* an app, condition, object and action: a fingerprint
          Catalog,        \* the action catalog's entry for each proposal
          Undoable,       \* the proposals that carry a typed rollback
          NoWork,
          RetryBudget,    \* ExecutionState.retry_budget
          MaxGeneration,  \* bound: generations of the signed catalog
          MaxFaults       \* bound: crashes and signer failures

BlastRadius == {"low", "delete", "drain_always_on", "fleet_restart"}

ASSUME OperatorAssumption ==
    /\ NoRunner \notin Runners
    /\ Catalog \in [Proposals -> [reversible : BOOLEAN, blast : BlastRadius]]
    /\ Undoable \subseteq Proposals
    /\ RetryBudget \in Nat \ {0} /\ MaxGeneration \in Nat /\ MaxFaults \in Nat

Modes   == {"report", "execute", "honor"}
Intents == Proposals \X (0 .. MaxGeneration)
Work    == [prop : Proposals, gen : 0 .. MaxGeneration, disp : {"auto", "escalate"}]

ASSUME NoWorkAssumption == NoWork \notin Work

VARIABLES
    generation,  \* of the signed OperatorApp record; 0: none is verified yet
    cores,       \* ActionLedger: intents/<id>.json
    ledger,      \* events/<id>.jsonl: the state of its last event, "none" if empty
    torn,        \* the streams whose last line is cut short
    failures,    \* execution-state.json: consecutive_failures
    attempted,   \* the fingerprints with a last_attempt
    decision,    \* the decision store: the record parked for a proposal
    lock,        \* operator.lock
    pc, mode, todo, cur, attempt, undone, late,   \* the passes
    effects,     \* history: how often an intent was physically carried out
    tries,       \* history: attempts since the last recorded success
    faults

disk == <<cores, ledger, torn, failures, attempted, decision>>
vars == <<generation, cores, ledger, torn, failures, attempted, decision, lock,
           pc, mode, todo, cur, attempt, undone, late, effects, tries, faults>>

Init ==
    /\ generation = 0
    /\ cores = {} /\ torn = {}
    /\ ledger = [i \in Intents |-> "none"]
    /\ failures = [p \in Proposals |-> 0]
    /\ attempted = {}
    /\ decision = [p \in Proposals |-> "none"]
    /\ lock = NoRunner
    /\ pc = [r \in Runners |-> "idle"]
    /\ mode = [r \in Runners |-> "report"]
    /\ todo = [r \in Runners |-> {}]
    /\ cur = [r \in Runners |-> NoWork]
    /\ attempt = [r \in Runners |-> FALSE]
    /\ undone = [r \in Runners |-> FALSE]
    /\ late = [r \in Runners |-> FALSE]
    /\ effects = [i \in Intents |-> 0]
    /\ tries = [p \in Proposals |-> 0]
    /\ faults = 0

Prop(r)   == cur[r].prop
Intent(r) == <<cur[r].prop, cur[r].gen>>
Goto(r, l) == pc' = [pc EXCEPT ![r] = l]
Fault == faults < MaxFaults /\ faults' = faults + 1

\* The pass is over, however it ended: its locals are gone and flock lets go.
EndPass(r) ==
    /\ Goto(r, "idle")
    /\ mode' = [mode EXCEPT ![r] = "report"]
    /\ todo' = [todo EXCEPT ![r] = {}]
    /\ cur' = [cur EXCEPT ![r] = NoWork]
    /\ attempt' = [attempt EXCEPT ![r] = FALSE]
    /\ undone' = [undone EXCEPT ![r] = FALSE]
    /\ late' = [late EXCEPT ![r] = FALSE]
    /\ lock' = NoRunner

local == <<mode, todo, cur, attempt, undone, late>>

----------------------------------------------------------------------------
(* The ledger.                                                             *)

States == {"none", "observed", "diagnosed", "proposed", "authorized", "executing",
           "verified", "failed", "rolled_back", "escalated"}

\* _TRANSITIONS, and observed as the first state.
TRANSITIONS(s) ==
    CASE s = "none" -> {"observed"}
      [] s = "observed" -> {"diagnosed"}
      [] s = "diagnosed" -> {"proposed"}
      [] s = "proposed" -> {"authorized"}
      [] s = "authorized" -> {"executing"}
      [] s = "executing" -> {"verified", "failed"}
      [] s = "failed" -> {"rolled_back", "escalated"}
      [] OTHER -> {}

\* append reads the whole stream and admits only a documented transition.
may_append(i, s) == i \notin torn /\ s \in TRANSITIONS(ledger[i])

AppendEvent(i, s) == ledger' = [ledger EXCEPT ![i] = s]

----------------------------------------------------------------------------
(* A pass: run_once, the plan, the next proposal.                          *)

IRREVERSIBLE_BLAST_RADII == {"delete", "drain_always_on", "fleet_restart"}

\* classify_change as plan_actions calls it: risk is high and there is no
\* rollback plan exactly when the catalog calls the action not reversible.
auto_approvable(p) ==
    /\ Catalog[p].blast \notin IRREVERSIBLE_BLAST_RADII
    /\ Catalog[p].reversible

\* plan_actions: a known target and, to honor, the ratified signed catalog entry.
Disposition(m, p, known, ratified) ==
    IF auto_approvable(p) /\ known /\ (m = "honor" => ratified /\ generation > 0)
    THEN "auto" ELSE "escalate"

\* Seeded fault: a pass does not ask whether another one is running.
StartAnyway(r, m) ==
    /\ pc[r] = "idle"
    /\ lock' = r
    /\ mode' = [mode EXCEPT ![r] = m]
    /\ Goto(r, "plan")
    /\ UNCHANGED <<generation, disk, todo, cur, attempt, undone, late, effects, tries, faults>>

\* run_once: the lock is free.  Otherwise, or if the fleet is frozen, the pass
\* raises or stands down and nothing changes.
StartPass(r, m) ==
    /\ pc[r] = "idle" /\ lock = NoRunner
    /\ lock' = r
    /\ mode' = [mode EXCEPT ![r] = m]
    /\ Goto(r, "plan")
    /\ UNCHANGED <<generation, disk, todo, cur, attempt, undone, late, effects, tries, faults>>

\* Observe, propose and plan: the model proposes for any of the conditions that
\* fire, bound to the catalog generation of the moment, in any order.
Plan(r) ==
    /\ pc[r] = "plan"
    /\ \E T, known, ratified \in SUBSET Proposals :
          todo' = [todo EXCEPT ![r] =
                     {[prop |-> p, gen |-> generation,
                       disp |-> Disposition(mode[r], p, p \in known, p \in ratified)] : p \in T}]
    /\ Goto(r, "next")
    /\ UNCHANGED <<generation, disk, lock, mode, cur, attempt, undone, late, effects, tries, faults>>

\* The deadline has passed or the model call raises: the pass ends here.
PlanRaises(r) ==
    /\ pc[r] = "plan"
    /\ EndPass(r)
    /\ UNCHANGED <<generation, disk, effects, tries, faults>>

TakeUp(r) ==
    /\ pc[r] = "next"
    /\ \E w \in todo[r] :
          /\ todo' = [todo EXCEPT ![r] = @ \ {w}]
          /\ cur' = [cur EXCEPT ![r] = w]
    /\ attempt' = [attempt EXCEPT ![r] = FALSE]
    /\ undone' = [undone EXCEPT ![r] = FALSE]
    /\ Goto(r, IF mode[r] = "honor" THEN "create" ELSE "dispatch")
    /\ UNCHANGED <<generation, disk, lock, mode, late, effects, tries, faults>>

Finish(r) ==
    /\ pc[r] = "next" /\ todo[r] = {}
    /\ EndPass(r)
    /\ UNCHANGED <<generation, disk, effects, tries, faults>>

----------------------------------------------------------------------------
(* One proposal: its intent, up to proposed.                               *)

\* create: the core file of a new intent.
CreateCore(r) ==
    /\ pc[r] = "create" /\ Intent(r) \notin cores
    /\ cores' = cores \cup {Intent(r)}
    /\ Goto(r, "observe")
    /\ UNCHANGED <<generation, ledger, torn, failures, attempted, decision, lock, local, effects,
                   tries, faults>>

\* create, the core exists: its first event is read.
CreateAgain(r) ==
    /\ pc[r] = "create" /\ Intent(r) \in cores
    /\ Intent(r) \notin torn /\ ledger[Intent(r)] # "none"
    /\ Goto(r, "advance")
    /\ UNCHANGED <<generation, disk, lock, local, effects, tries, faults>>

\* create, the core exists and its stream has no first event or cannot be read:
\* the exception leaves the pass.
CreateRaises(r) ==
    /\ pc[r] = "create" /\ Intent(r) \in cores
    /\ Intent(r) \in torn \/ ledger[Intent(r)] = "none"
    /\ EndPass(r)
    /\ UNCHANGED <<generation, disk, effects, tries, faults>>

AppendObserved(r) ==
    /\ pc[r] = "observe" /\ may_append(Intent(r), "observed")
    /\ AppendEvent(Intent(r), "observed")
    /\ Goto(r, "advance")
    /\ UNCHANGED <<generation, cores, torn, failures, attempted, decision, lock, local, effects,
                   tries, faults>>

\* diagnosed, then proposed, from wherever the intent stands.
AdvanceIntent(r) ==
    /\ pc[r] = "advance"
    /\ \/ \E s \in {"diagnosed", "proposed"} :
             /\ may_append(Intent(r), s)
             /\ AppendEvent(Intent(r), s)
             /\ UNCHANGED pc
       \/ /\ ledger[Intent(r)] \notin {"observed", "diagnosed"}
          /\ Goto(r, "dispatch")
          /\ UNCHANGED ledger
    /\ UNCHANGED <<generation, cores, torn, failures, attempted, decision, lock, local, effects,
                   tries, faults>>

\* park: create or skip.
park(d) == IF d = "none" THEN "pending" ELSE d

Park(r) == decision' = [decision EXCEPT ![Prop(r)] = park(@)]

Dispatch(r) ==
    /\ pc[r] = "dispatch"
    /\ \/ /\ cur[r].disp = "auto" /\ mode[r] # "report"
          /\ Goto(r, "gate") /\ UNCHANGED decision
       \/ /\ cur[r].disp = "auto" /\ mode[r] = "report"
          /\ Goto(r, "next") /\ UNCHANGED decision
       \/ /\ cur[r].disp = "escalate"
          /\ Goto(r, "next") /\ Park(r)
    /\ UNCHANGED <<generation, cores, ledger, torn, failures, attempted, lock, local, effects, tries,
                   faults>>

----------------------------------------------------------------------------
(* One proposal: the execution path.                                       *)

\* Seeded fault: the circuit opens one failure too late.
LateCircuit(p) == failures[p] > RetryBudget

circuit_open(p) == failures[p] >= RetryBudget

\* The deadline and the execution state let the proposal through.
GatePasses(r) ==
    /\ pc[r] = "gate" /\ ~late[r] /\ ~circuit_open(Prop(r))
    /\ \/ mode[r] = "honor" /\ Goto(r, "authorize") /\ UNCHANGED attempt
       \/ mode[r] # "honor" /\ Goto(r, "apply") /\ attempt' = [attempt EXCEPT ![r] = TRUE]
    /\ UNCHANGED <<generation, disk, lock, mode, todo, cur, undone, late, effects, tries, faults>>

\* The pass is past its deadline (and stays so), the circuit is open, or the last
\* attempt was less than cooldown_seconds ago: on to the handler.
GateRefuses(r) ==
    /\ pc[r] = "gate"
    /\ \/ late' = [late EXCEPT ![r] = TRUE]
       \/ circuit_open(Prop(r)) /\ UNCHANGED late
       \/ Prop(r) \in attempted /\ UNCHANGED late
    /\ Goto(r, "failed")
    /\ UNCHANGED <<generation, disk, lock, mode, todo, cur, attempt, undone, effects, tries, faults>>

\* Only a proposed intent can be authorized; for any other the append raises.
Authorize(r) ==
    /\ pc[r] = "authorize"
    /\ IF may_append(Intent(r), "authorized")
       THEN AppendEvent(Intent(r), "authorized") /\ Goto(r, "execute")
       ELSE Goto(r, "failed") /\ UNCHANGED ledger
    /\ UNCHANGED <<generation, cores, torn, failures, attempted, decision, lock, local, effects,
                   tries, faults>>

AppendExecuting(r) ==
    /\ pc[r] = "execute" /\ may_append(Intent(r), "executing")
    /\ AppendEvent(Intent(r), "executing")
    /\ attempt' = [attempt EXCEPT ![r] = TRUE]
    /\ Goto(r, "apply")
    /\ UNCHANGED <<generation, cores, torn, failures, attempted, decision, lock, mode, todo, cur,
                   undone, late, effects, tries, faults>>

\* apply_fn raises before it touches anything: the act verbs refuse a frozen
\* fleet, an action nothing maps, a target that is gone.
ApplyRefused(r) ==
    /\ pc[r] = "apply"
    /\ Goto(r, "failed")
    /\ UNCHANGED <<generation, disk, lock, local, effects, tries, faults>>

\* apply_fn acts: with --honor it restarts the unit and reports performed or
\* not; without, it annotates the object's spec, and no proof is asked for.
Apply(r) ==
    /\ pc[r] = "apply"
    /\ tries' = [tries EXCEPT ![Prop(r)] = @ + 1]
    /\ \/ /\ mode[r] = "honor"
          /\ effects' = [effects EXCEPT ![Intent(r)] = @ + 1]
          /\ \E performed \in BOOLEAN : Goto(r, IF performed THEN "verify" ELSE "failed")
       \/ /\ mode[r] # "honor"
          /\ Goto(r, "record")
          /\ UNCHANGED effects
    /\ UNCHANGED <<generation, disk, lock, local, faults>>

\* _verify_postcondition: the owning app is observed again.  The condition may
\* have cleared, still fire or be gone, and the observer may raise.
VerifyPostcondition(r) ==
    /\ pc[r] = "verify"
    /\ \E verified \in BOOLEAN : Goto(r, IF verified THEN "record" ELSE "failed")
    /\ UNCHANGED <<generation, disk, lock, local, effects, tries, faults>>

RecordSuccess(r) ==
    /\ pc[r] = "record"
    /\ failures' = [failures EXCEPT ![Prop(r)] = 0]
    /\ attempted' = attempted \cup {Prop(r)}
    /\ tries' = [tries EXCEPT ![Prop(r)] = 0]
    /\ Goto(r, IF mode[r] = "honor" THEN "settle" ELSE "next")
    /\ UNCHANGED <<generation, cores, ledger, torn, decision, lock, local, effects, faults>>

AppendVerified(r) ==
    /\ pc[r] = "settle"
    /\ IF may_append(Intent(r), "verified")
       THEN AppendEvent(Intent(r), "verified") /\ Goto(r, "next")
       ELSE Goto(r, "failed") /\ UNCHANGED ledger
    /\ UNCHANGED <<generation, cores, torn, failures, attempted, decision, lock, local, effects,
                   tries, faults>>

----------------------------------------------------------------------------
(* One proposal: the exception handler.                                    *)

\* Seeded fault: a failed attempt is not recorded.
ForgetFailure(r) ==
    /\ pc[r] = "failed"
    /\ Goto(r, "park")
    /\ UNCHANGED <<generation, disk, lock, local, effects, tries, faults>>

RecordFailure(r) ==
    /\ pc[r] = "failed"
    /\ IF attempt[r]
       THEN /\ failures' = [failures EXCEPT ![Prop(r)] = @ + 1]
            /\ attempted' = attempted \cup {Prop(r)}
       ELSE UNCHANGED <<failures, attempted>>
    /\ Goto(r, "park")
    /\ UNCHANGED <<generation, cores, ledger, torn, decision, lock, local, effects, tries, faults>>

\* Seeded fault: a decision is parked only for an attempt that began.
ParkAttempt(r) ==
    /\ pc[r] = "park"
    /\ IF attempt[r] THEN Park(r) ELSE UNCHANGED decision
    /\ Goto(r, "rollback")
    /\ UNCHANGED <<generation, cores, ledger, torn, failures, attempted, lock, local, effects, tries,
                   faults>>

ParkFailure(r) ==
    /\ pc[r] = "park"
    /\ Park(r)
    /\ Goto(r, "rollback")
    /\ UNCHANGED <<generation, cores, ledger, torn, failures, attempted, lock, local, effects, tries,
                   faults>>

\* A typed rollback runs once an attempt has begun; the act verbs refuse a
\* frozen fleet, and only performed=True counts.
Rollback(r) ==
    /\ pc[r] = "rollback"
    /\ \/ UNCHANGED undone
       \/ /\ attempt[r] /\ mode[r] = "honor" /\ Prop(r) \in Undoable
          /\ undone' = [undone EXCEPT ![r] = TRUE]
    /\ Goto(r, IF mode[r] = "honor" THEN "mark" ELSE "next")
    /\ UNCHANGED <<generation, disk, lock, mode, todo, cur, attempt, late, effects, tries, faults>>

\* Seeded fault: only the pass that began the attempt marks it failed.
MarkOwnFailure(r) ==
    /\ pc[r] = "mark"
    /\ IF may_append(Intent(r), "failed") /\ attempt[r]
       THEN AppendEvent(Intent(r), "failed") /\ Goto(r, "conclude")
       ELSE Goto(r, "next") /\ UNCHANGED ledger
    /\ UNCHANGED <<generation, cores, torn, failures, attempted, decision, lock, local, effects,
                   tries, faults>>

\* An intent found executing is failed, whichever pass began it.
MarkFailed(r) ==
    /\ pc[r] = "mark"
    /\ IF may_append(Intent(r), "failed")
       THEN AppendEvent(Intent(r), "failed") /\ Goto(r, "conclude")
       ELSE Goto(r, "next") /\ UNCHANGED ledger
    /\ UNCHANGED <<generation, cores, torn, failures, attempted, decision, lock, local, effects,
                   tries, faults>>

AppendConclusion(r) ==
    LET s == IF undone[r] THEN "rolled_back" ELSE "escalated"
    IN /\ pc[r] = "conclude" /\ may_append(Intent(r), s)
       /\ AppendEvent(Intent(r), s)
       /\ Goto(r, "next")
       /\ UNCHANGED <<generation, cores, torn, failures, attempted, decision, lock, local, effects,
                      tries, faults>>

----------------------------------------------------------------------------
(* Faults and the world outside.                                           *)

\* The events a pass may be about to append.
Appends(l) ==
    CASE l = "observe" -> {"observed"}
      [] l = "advance" -> {"diagnosed", "proposed"}
      [] l = "authorize" -> {"authorized"}
      [] l = "execute" -> {"executing"}
      [] l = "settle" -> {"verified"}
      [] l = "mark" -> {"failed"}
      [] l = "conclude" -> {"rolled_back", "escalated"}
      [] OTHER -> {}

Writing(r) == \E s \in Appends(pc[r]) : may_append(Intent(r), s)

\* The process dies; while it writes an event it may leave part of a line.
Crash(r) ==
    /\ pc[r] # "idle" /\ Fault
    /\ EndPass(r)
    /\ \/ UNCHANGED torn
       \/ Writing(r) /\ torn' = torn \cup {Intent(r)}
    /\ UNCHANGED <<generation, cores, ledger, failures, attempted, decision, effects, tries>>

\* The signer raises.  Inside the try block that is a failed proposal, anywhere
\* else the exception leaves the pass.
SignerFails(r) ==
    /\ Writing(r) /\ Fault
    /\ IF pc[r] \in {"authorize", "execute", "settle"}
       THEN Goto(r, "failed") /\ UNCHANGED <<lock, local>>
       ELSE EndPass(r)
    /\ UNCHANGED <<generation, disk, effects, tries>>

\* A human ratifies, or the seat registers again: a new signed generation.
NewGeneration ==
    /\ generation < MaxGeneration
    /\ generation' = generation + 1
    /\ UNCHANGED <<disk, lock, pc, local, effects, tries, faults>>

\* resolve: a human approves or rejects a pending decision.
Resolve(p) ==
    /\ decision[p] = "pending"
    /\ decision' = [decision EXCEPT ![p] = "resolved"]
    /\ UNCHANGED <<generation, cores, ledger, torn, failures, attempted, lock, pc, local, effects,
                   tries, faults>>

\* The steps of a pass, the deadline and the faults aside.
PassStep(r) ==
    \/ Plan(r) \/ PlanRaises(r) \/ TakeUp(r) \/ Finish(r)
    \/ CreateCore(r) \/ CreateAgain(r) \/ CreateRaises(r) \/ AppendObserved(r)
    \/ AdvanceIntent(r) \/ Dispatch(r) \/ GatePasses(r) \/ GateRefuses(r) \/ Authorize(r) \/ AppendExecuting(r)
    \/ ApplyRefused(r) \/ Apply(r) \/ VerifyPostcondition(r) \/ RecordSuccess(r)
    \/ AppendVerified(r) \/ RecordFailure(r) \/ ParkFailure(r) \/ Rollback(r)
    \/ MarkFailed(r) \/ AppendConclusion(r)

Next ==
    \/ \E r \in Runners :
          \/ \E m \in Modes : StartPass(r, m)
          \/ PassStep(r) \/ Crash(r) \/ SignerFails(r)
    \/ NewGeneration
    \/ \E p \in Proposals : Resolve(p)

Spec == Init /\ [][Next]_vars

\* A running pass takes its next step: its probes and commands have timeouts.
FairSpec == Spec /\ \A r \in Runners : WF_vars(PassStep(r))

----------------------------------------------------------------------------
(* Properties.                                                             *)

Labels == {"idle", "plan", "next", "create", "observe", "advance", "dispatch", "gate",
           "authorize", "execute", "apply", "verify", "record", "settle", "failed", "park",
           "rollback", "mark", "conclude"}

TypeOK ==
    /\ generation \in 0 .. MaxGeneration
    /\ cores \subseteq Intents /\ torn \subseteq Intents
    /\ ledger \in [Intents -> States]
    /\ failures \in [Proposals -> 0 .. RetryBudget]
    /\ attempted \subseteq Proposals
    /\ decision \in [Proposals -> {"none", "pending", "resolved"}]
    /\ lock \in Runners \cup {NoRunner}
    /\ pc \in [Runners -> Labels] /\ mode \in [Runners -> Modes]
    /\ todo \in [Runners -> SUBSET Work] /\ cur \in [Runners -> Work \cup {NoWork}]
    /\ attempt \in [Runners -> BOOLEAN] /\ undone \in [Runners -> BOOLEAN]
    /\ late \in [Runners -> BOOLEAN]
    /\ effects \in [Intents -> Nat] /\ tries \in [Proposals -> Nat]
    /\ faults \in 0 .. MaxFaults

Lifecycle == INSTANCE ActionLifecycle WITH state <- ledger

\* Whatever passes crash, overlap or repeat, the ledger and the system together
\* follow the documented lifecycle: an intent is carried out at most once, only
\* while it is on record as executing, and verified only after that.
ImplementsLifecycle == Lifecycle!Spec

\* An intent on record as escalated has a decision for the human, parked or
\* already resolved: the handler parks before it appends.
EscalatedIsParked ==
    \A i \in Intents : ledger[i] = "escalated" => decision[i[1]] # "none"

\* Attempts since the last success never exceed the retry budget by more than
\* the attempts whose outcome a crash kept from being recorded.
RetryBudgetHolds == \A p \in Proposals : tries[p] <= RetryBudget + faults

\* The pass takes up an automatic proposal whose intent is i.
TakenUp(i) == \E r \in Runners :
                 pc[r] = "create" /\ Intent(r) = i /\ cur[r].disp = "auto"

\* An action that a dead pass left executing does not stay so: if its proposal
\* keeps coming up, some pass puts its end on record, unless the stream is torn.
CrashedActionsClose ==
    \A i \in Intents :
        []<>TakenUp(i) =>
            [](ledger[i] = "executing" => <>(ledger[i] # "executing" \/ i \in torn))

\* One bad proposal does not end the pass: without a crash or a failing signer a
\* pass that has planned ends with nothing left to do.
PassIsolated ==
    [][\A r \in Runners :
          pc[r] # "idle" /\ pc'[r] = "idle" /\ faults' = faults => todo[r] = {}]_vars
=============================================================================
