------------------------ MODULE OperatorLoop_proofs ------------------------
(***************************************************************************)
(* Proofs about OperatorLoop: its type invariant, that an escalated intent  *)
(* has its decision, that the retry budget holds, and that the loop         *)
(* implements ActionLifecycle, for any number of processes, proposals,      *)
(* catalog generations and faults.                                          *)
(*                                                                          *)
(* The single-flight lock makes the argument local: only its holder is not  *)
(* idle (Flight), so what the pass relies on between two of its steps       *)
(* (Local) can be disturbed by nobody else.                                 *)
(***************************************************************************)
EXTENDS OperatorLoop, TLAPS

\* Only the holder of operator.lock is inside a pass.
Flight == \A r \in Runners : pc[r] # "idle" => lock = r

HonorLabels == {"create", "observe", "advance", "authorize", "execute", "verify", "settle",
                "mark", "conclude"}

\* What a pass may rely on at each label.
Local(r) ==
    /\ pc[r] \in HonorLabels => mode[r] = "honor"
    /\ pc[r] \notin {"idle", "plan", "next"} => cur[r] \in Work
    /\ pc[r] = "observe" => ledger[Intent(r)] = "none" /\ Intent(r) \in cores
    /\ pc[r] = "execute" => ledger[Intent(r)] = "authorized"
    /\ pc[r] = "apply" /\ mode[r] = "honor" =>
          ledger[Intent(r)] = "executing" /\ effects[Intent(r)] = 0
    /\ pc[r] = "verify" \/ pc[r] = "settle" \/ (pc[r] = "record" /\ mode[r] = "honor") =>
          ledger[Intent(r)] = "executing" /\ effects[Intent(r)] = 1
    /\ pc[r] = "conclude" => ledger[Intent(r)] = "failed"
    /\ pc[r] \in {"rollback", "mark", "conclude"} => decision[Prop(r)] # "none"

\* The attempt has begun and its outcome is not in the execution state yet.
Begun(r) ==
    /\ pc[r] \in {"create", "observe", "advance", "dispatch", "gate", "authorize", "execute"} =>
          attempt[r] = FALSE
    /\ pc[r] \in {"apply", "verify", "record", "settle"} => attempt[r] = TRUE
    /\ pc[r] \in {"authorize", "execute", "apply", "verify", "record", "settle"} =>
          failures[Prop(r)] < RetryBudget
    /\ pc[r] = "failed" /\ attempt[r] = TRUE => failures[Prop(r)] < RetryBudget

\* Nothing is carried out before it is on record as executing.
Fresh ==
    \A i \in Intents :
        ledger[i] \in {"none", "observed", "diagnosed", "proposed", "authorized"} =>
            effects[i] = 0

\* A stream has events only once the intent's core is written.
CoreFirst == \A i \in Intents : ledger[i] # "none" => i \in cores

\* An attempt of p that is neither a recorded failure nor a fault.
Pending(p) == \E r \in Runners : /\ pc[r] \in {"verify", "record", "failed"}
                                 /\ attempt[r] = TRUE /\ Prop(r) = p

TriesCounted ==
    \A p \in Proposals :
        tries[p] <= failures[p] + faults + (IF Pending(p) THEN 1 ELSE 0)

IInv ==
    /\ TypeOK /\ Flight
    /\ \A r \in Runners : Local(r) /\ Begun(r)
    /\ Fresh /\ EscalatedIsParked /\ CoreFirst /\ TriesCounted

----------------------------------------------------------------------------
USE OperatorAssumption, NoWorkAssumption

\* What append admits, read off the transition table.
LEMMA MayAppend ==
    ASSUME NEW i, NEW s, may_append(i, s)
    PROVE  /\ s = "observed" => ledger[i] = "none"
           /\ s = "diagnosed" => ledger[i] = "observed"
           /\ s = "proposed" => ledger[i] = "diagnosed"
           /\ s = "authorized" => ledger[i] = "proposed"
           /\ s = "executing" => ledger[i] = "authorized"
           /\ s = "verified" => ledger[i] = "executing"
           /\ s = "failed" => ledger[i] = "executing"
           /\ s = "rolled_back" => ledger[i] = "failed"
           /\ s = "escalated" => ledger[i] = "failed"
  BY DEF may_append, TRANSITIONS

\* The intent of the proposal in hand, and its parts.
LEMMA IntentType ==
    ASSUME NEW r \in Runners, cur[r] \in Work
    PROVE  Intent(r) \in Intents /\ Prop(r) \in Proposals /\ Intent(r)[1] = Prop(r)
  BY DEF Intent, Intents, Prop, Work

\* A pass about to append is at a label where it has work in hand.
LEMMA WritingLabel ==
    ASSUME NEW r, Writing(r)
    PROVE  pc[r] \in {"observe", "advance", "authorize", "execute", "settle", "mark",
                      "conclude"}
  BY DEF Writing, Appends

\* Every step preserves the types.
LEMMA TypeStep ==
    ASSUME IInv, [Next]_vars
    PROVE  TypeOK'
<1>1. ASSUME NEW r \in Runners, NEW m \in Modes, StartPass(r, m)
      PROVE  TypeOK'
  BY <1>1, IntentType, WritingLabel DEF StartPass, disk, local, Goto, TypeOK, Labels, Modes,
     States, IInv, Local, Begun, HonorLabels
<1>2. ASSUME NEW r \in Runners, Plan(r)
      PROVE  TypeOK'
  BY <1>2, IntentType, WritingLabel DEF Plan, disk, local, Goto, Disposition, Work, TypeOK,
     Labels, Modes, States, IInv, Local, Begun, HonorLabels
<1>3. ASSUME NEW r \in Runners, PlanRaises(r)
      PROVE  TypeOK'
  BY <1>3, IntentType, WritingLabel DEF PlanRaises, disk, local, Goto, EndPass, TypeOK,
     Labels, Modes, States, IInv, Local, Begun, HonorLabels
<1>4. ASSUME NEW r \in Runners, TakeUp(r)
      PROVE  TypeOK'
  BY <1>4, IntentType, WritingLabel DEF TakeUp, disk, local, Goto, TypeOK, Labels, Modes,
     States, IInv, Local, Begun, HonorLabels
<1>5. ASSUME NEW r \in Runners, Finish(r)
      PROVE  TypeOK'
  BY <1>5, IntentType, WritingLabel DEF Finish, disk, local, Goto, EndPass, TypeOK, Labels,
     Modes, States, IInv, Local, Begun, HonorLabels
<1>6. ASSUME NEW r \in Runners, CreateCore(r)
      PROVE  TypeOK'
  BY <1>6, IntentType, WritingLabel DEF CreateCore, disk, local, Goto, TypeOK, Labels,
     Modes, States, IInv, Local, Begun, HonorLabels
<1>7. ASSUME NEW r \in Runners, CreateAgain(r)
      PROVE  TypeOK'
  BY <1>7, IntentType, WritingLabel DEF CreateAgain, disk, local, Goto, TypeOK, Labels,
     Modes, States, IInv, Local, Begun, HonorLabels
<1>8. ASSUME NEW r \in Runners, CreateRaises(r)
      PROVE  TypeOK'
  BY <1>8, IntentType, WritingLabel DEF CreateRaises, disk, local, Goto, EndPass, TypeOK,
     Labels, Modes, States, IInv, Local, Begun, HonorLabels
<1>9. ASSUME NEW r \in Runners, AppendObserved(r)
      PROVE  TypeOK'
  BY <1>9, IntentType, WritingLabel DEF AppendObserved, disk, local, Goto, AppendEvent,
     TypeOK, Labels, Modes, States, IInv, Local, Begun, HonorLabels
<1>10. ASSUME NEW r \in Runners, AdvanceIntent(r)
      PROVE  TypeOK'
  <2>1. TypeOK /\ Intent(r) \in Intents
    BY <1>10, IntentType DEF AdvanceIntent, IInv, Local
  <2>2. ledger' \in [Intents -> States]
    BY <1>10, <2>1 DEF AdvanceIntent, AppendEvent, TypeOK, States
  <2>3. pc' \in [Runners -> Labels]
    BY <1>10, <2>1 DEF AdvanceIntent, Goto, TypeOK, Labels
  <2>. QED  BY <1>10, <2>1, <2>2, <2>3 DEF AdvanceIntent, disk, local, TypeOK
<1>11. ASSUME NEW r \in Runners, Dispatch(r)
      PROVE  TypeOK'
  BY <1>11, IntentType, WritingLabel DEF Dispatch, disk, local, Goto, Park, park, TypeOK,
     Labels, Modes, States, IInv, Local, Begun, HonorLabels
<1>12. ASSUME NEW r \in Runners, GatePasses(r)
      PROVE  TypeOK'
  BY <1>12, IntentType, WritingLabel DEF GatePasses, disk, local, Goto, circuit_open,
     TypeOK, Labels, Modes, States, IInv, Local, Begun, HonorLabels
<1>13. ASSUME NEW r \in Runners, GateRefuses(r)
      PROVE  TypeOK'
  BY <1>13, IntentType, WritingLabel DEF GateRefuses, disk, local, Goto, circuit_open,
     TypeOK, Labels, Modes, States, IInv, Local, Begun, HonorLabels
<1>14. ASSUME NEW r \in Runners, Authorize(r)
      PROVE  TypeOK'
  BY <1>14, IntentType, WritingLabel DEF Authorize, disk, local, Goto, AppendEvent, TypeOK,
     Labels, Modes, States, IInv, Local, Begun, HonorLabels
<1>15. ASSUME NEW r \in Runners, AppendExecuting(r)
      PROVE  TypeOK'
  BY <1>15, IntentType, WritingLabel DEF AppendExecuting, disk, local, Goto, AppendEvent,
     TypeOK, Labels, Modes, States, IInv, Local, Begun, HonorLabels
<1>16. ASSUME NEW r \in Runners, ApplyRefused(r)
      PROVE  TypeOK'
  BY <1>16, IntentType, WritingLabel DEF ApplyRefused, disk, local, Goto, TypeOK, Labels,
     Modes, States, IInv, Local, Begun, HonorLabels
<1>17. ASSUME NEW r \in Runners, Apply(r)
      PROVE  TypeOK'
  <2>1. /\ TypeOK /\ cur[r] \in Work
        /\ Intent(r) \in Intents /\ Prop(r) \in Proposals
    BY <1>17, IntentType DEF Apply, IInv, Local
  <2>2. tries' \in [Proposals -> Nat] /\ effects' \in [Intents -> Nat]
    BY <1>17, <2>1 DEF Apply, TypeOK
  <2>3. pc' \in [Runners -> Labels]
    <3>1. \E l \in {"verify", "failed", "record"} : Goto(r, l)
      BY <1>17, Zenon DEF Apply
    <3>. QED  BY <2>1, <3>1 DEF Goto, TypeOK, Labels
  <2>. QED  BY <1>17, <2>1, <2>2, <2>3 DEF Apply, disk, local, TypeOK
<1>18. ASSUME NEW r \in Runners, VerifyPostcondition(r)
      PROVE  TypeOK'
  BY <1>18, IntentType, WritingLabel DEF VerifyPostcondition, disk, local, Goto, TypeOK,
     Labels, Modes, States, IInv, Local, Begun, HonorLabels
<1>19. ASSUME NEW r \in Runners, RecordSuccess(r)
      PROVE  TypeOK'
  BY <1>19, IntentType, WritingLabel DEF RecordSuccess, disk, local, Goto, TypeOK, Labels,
     Modes, States, IInv, Local, Begun, HonorLabels
<1>20. ASSUME NEW r \in Runners, AppendVerified(r)
      PROVE  TypeOK'
  BY <1>20, IntentType, WritingLabel DEF AppendVerified, disk, local, Goto, AppendEvent,
     TypeOK, Labels, Modes, States, IInv, Local, Begun, HonorLabels
<1>21. ASSUME NEW r \in Runners, RecordFailure(r)
      PROVE  TypeOK'
  BY <1>21, IntentType, WritingLabel DEF RecordFailure, disk, local, Goto, TypeOK, Labels,
     Modes, States, IInv, Local, Begun, HonorLabels
<1>22. ASSUME NEW r \in Runners, ParkFailure(r)
      PROVE  TypeOK'
  BY <1>22, IntentType, WritingLabel DEF ParkFailure, disk, local, Goto, Park, park, TypeOK,
     Labels, Modes, States, IInv, Local, Begun, HonorLabels
<1>23. ASSUME NEW r \in Runners, Rollback(r)
      PROVE  TypeOK'
  BY <1>23, IntentType, WritingLabel DEF Rollback, disk, local, Goto, TypeOK, Labels, Modes,
     States, IInv, Local, Begun, HonorLabels
<1>24. ASSUME NEW r \in Runners, MarkFailed(r)
      PROVE  TypeOK'
  BY <1>24, IntentType, WritingLabel DEF MarkFailed, disk, local, Goto, AppendEvent, TypeOK,
     Labels, Modes, States, IInv, Local, Begun, HonorLabels
<1>25. ASSUME NEW r \in Runners, AppendConclusion(r)
      PROVE  TypeOK'
  BY <1>25, IntentType, WritingLabel DEF AppendConclusion, disk, local, Goto, AppendEvent,
     TypeOK, Labels, Modes, States, IInv, Local, Begun, HonorLabels
<1>26. ASSUME NEW r \in Runners, Crash(r)
      PROVE  TypeOK'
  BY <1>26, IntentType, WritingLabel DEF Crash, disk, local, Goto, EndPass, Fault, TypeOK,
     Labels, Modes, States, IInv, Local, Begun, HonorLabels
<1>27. ASSUME NEW r \in Runners, SignerFails(r)
      PROVE  TypeOK'
  <2>1. CASE pc[r] \in {"authorize", "execute", "settle"}
    BY <1>27, <2>1 DEF SignerFails, Goto, disk, local, Fault, IInv, TypeOK, Labels
  <2>2. CASE pc[r] \notin {"authorize", "execute", "settle"}
    <3>1. EndPass(r) /\ Fault /\ UNCHANGED <<generation, disk, effects, tries>>
      BY <1>27, <2>2 DEF SignerFails
    <3>. QED  BY <3>1 DEF EndPass, Goto, disk, Fault, IInv, TypeOK, Labels, Modes
  <2>. QED  BY <2>1, <2>2
<1>28. CASE NewGeneration
  BY <1>28, IntentType, WritingLabel DEF NewGeneration, disk, local, Goto, TypeOK, Labels,
     Modes, States, IInv, Local, Begun, HonorLabels
<1>29. ASSUME NEW p \in Proposals, Resolve(p)
      PROVE  TypeOK'
  BY <1>29, IntentType, WritingLabel DEF Resolve, disk, local, Goto, TypeOK, Labels, Modes,
     States, IInv, Local, Begun, HonorLabels
<1>30. CASE UNCHANGED vars
  BY <1>30, IntentType, WritingLabel DEF vars, TypeOK, Labels, Modes, States, IInv, Local,
     Begun, HonorLabels
<1>. QED
  BY <1>1, <1>2, <1>3, <1>4, <1>5, <1>6, <1>7, <1>8, <1>9, <1>10, <1>11, <1>12, <1>13,
     <1>14, <1>15, <1>16, <1>17, <1>18, <1>19, <1>20, <1>21, <1>22, <1>23, <1>24, <1>25,
     <1>26, <1>27, <1>28, <1>29, <1>30 DEF Next, PassStep

\* A step of the process r.
RunnerStep(r) == \/ \E m \in Modes : StartPass(r, m)
                 \/ PassStep(r) \/ Crash(r) \/ SignerFails(r)

\* The intent a pass works on stays an intent while no step takes up another
\* proposal: Intent(r) depends on cur[r] alone.
LEMMA IntentKept ==
    ASSUME NEW r, UNCHANGED cur
    PROVE  Intent(r)' = Intent(r) /\ Prop(r)' = Prop(r)
  BY DEF Intent, Prop

\* Only r moves, and it holds the lock or leaves the pass.
LEMMA PassMoves ==
    ASSUME IInv, NEW r \in Runners, RunnerStep(r)
    PROVE  /\ pc[r] = "idle" => lock = NoRunner
           /\ pc'[r] = "idle" \/ lock' = r
           /\ \A s \in Runners : s # r => pc'[s] = pc[s]
<1>1. CASE \E m \in Modes : StartPass(r, m)
  BY <1>1 DEF StartPass, disk, local, Goto, IInv, Flight, TypeOK
<1>2. CASE Plan(r)
  BY <1>2 DEF Plan, disk, local, Goto, Disposition, Work, IInv, Flight, TypeOK
<1>3. CASE PlanRaises(r)
  BY <1>3 DEF PlanRaises, disk, local, Goto, EndPass, IInv, Flight, TypeOK
<1>4. CASE TakeUp(r)
  BY <1>4 DEF TakeUp, disk, local, Goto, IInv, Flight, TypeOK
<1>5. CASE Finish(r)
  BY <1>5 DEF Finish, disk, local, Goto, EndPass, IInv, Flight, TypeOK
<1>6. CASE CreateCore(r)
  BY <1>6 DEF CreateCore, disk, local, Goto, IInv, Flight, TypeOK
<1>7. CASE CreateAgain(r)
  BY <1>7 DEF CreateAgain, disk, local, Goto, IInv, Flight, TypeOK
<1>8. CASE CreateRaises(r)
  BY <1>8 DEF CreateRaises, disk, local, Goto, EndPass, IInv, Flight, TypeOK
<1>9. CASE AppendObserved(r)
  BY <1>9 DEF AppendObserved, disk, local, Goto, AppendEvent, IInv, Flight, TypeOK
<1>10. CASE AdvanceIntent(r)
  BY <1>10 DEF AdvanceIntent, disk, local, Goto, AppendEvent, IInv, Flight, TypeOK
<1>11. CASE Dispatch(r)
  BY <1>11 DEF Dispatch, disk, local, Goto, Park, park, IInv, Flight, TypeOK
<1>12. CASE GatePasses(r)
  BY <1>12 DEF GatePasses, disk, local, Goto, circuit_open, IInv, Flight, TypeOK
<1>13. CASE GateRefuses(r)
  BY <1>13 DEF GateRefuses, disk, local, Goto, circuit_open, IInv, Flight, TypeOK
<1>14. CASE Authorize(r)
  BY <1>14 DEF Authorize, disk, local, Goto, AppendEvent, IInv, Flight, TypeOK
<1>15. CASE AppendExecuting(r)
  BY <1>15 DEF AppendExecuting, disk, local, Goto, AppendEvent, IInv, Flight, TypeOK
<1>16. CASE ApplyRefused(r)
  BY <1>16 DEF ApplyRefused, disk, local, Goto, IInv, Flight, TypeOK
<1>17. CASE Apply(r)
  <2>1. \E l \in {"verify", "failed", "record"} : Goto(r, l)
    BY <1>17, Zenon DEF Apply
  <2>. QED  BY <1>17, <2>1 DEF Apply, Goto, IInv, Flight, TypeOK
<1>18. CASE VerifyPostcondition(r)
  BY <1>18 DEF VerifyPostcondition, disk, local, Goto, IInv, Flight, TypeOK
<1>19. CASE RecordSuccess(r)
  BY <1>19 DEF RecordSuccess, disk, local, Goto, IInv, Flight, TypeOK
<1>20. CASE AppendVerified(r)
  BY <1>20 DEF AppendVerified, disk, local, Goto, AppendEvent, IInv, Flight, TypeOK
<1>21. CASE RecordFailure(r)
  BY <1>21 DEF RecordFailure, disk, local, Goto, IInv, Flight, TypeOK
<1>22. CASE ParkFailure(r)
  BY <1>22 DEF ParkFailure, disk, local, Goto, Park, park, IInv, Flight, TypeOK
<1>23. CASE Rollback(r)
  BY <1>23 DEF Rollback, disk, local, Goto, IInv, Flight, TypeOK
<1>24. CASE MarkFailed(r)
  BY <1>24 DEF MarkFailed, disk, local, Goto, AppendEvent, IInv, Flight, TypeOK
<1>25. CASE AppendConclusion(r)
  BY <1>25 DEF AppendConclusion, disk, local, Goto, AppendEvent, IInv, Flight, TypeOK
<1>26. CASE Crash(r)
  BY <1>26 DEF Crash, disk, local, Goto, EndPass, Fault, IInv, Flight, TypeOK
<1>27. CASE SignerFails(r)
  <2>1. CASE EndPass(r)
    BY <1>27, <2>1, WritingLabel DEF SignerFails, EndPass, Goto, IInv, TypeOK
  <2>2. CASE Goto(r, "failed") /\ UNCHANGED lock
    BY <1>27, <2>2, WritingLabel DEF SignerFails, Goto, IInv, Flight, TypeOK
  <2>. QED  BY <1>27, <2>1, <2>2 DEF SignerFails
<1>. QED
  BY <1>1, <1>2, <1>3, <1>4, <1>5, <1>6, <1>7, <1>8, <1>9, <1>10, <1>11, <1>12, <1>13,
     <1>14, <1>15, <1>16, <1>17, <1>18, <1>19, <1>20, <1>21, <1>22, <1>23, <1>24, <1>25,
     <1>26, <1>27 DEF RunnerStep, PassStep

\* So while r steps every other process is outside a pass.
LEMMA OthersIdle ==
    ASSUME IInv, NEW r \in Runners, RunnerStep(r), NEW s \in Runners, s # r
    PROVE  pc[s] = "idle" /\ pc'[s] = "idle"
  BY PassMoves DEF IInv, Flight

\* What the pass relies on when it is r that steps.
LEMMA LocalStep ==
    ASSUME IInv, NEW r \in Runners, RunnerStep(r)
    PROVE  Local(r)'
<1>1. CASE \E m \in Modes : StartPass(r, m)
  BY <1>1, IntentKept, IntentType, MayAppend DEF StartPass, disk, local, Goto, IInv, TypeOK,
     Local, HonorLabels, Fresh, CoreFirst
<1>2. CASE Plan(r)
  BY <1>2, IntentKept, IntentType, MayAppend DEF Plan, disk, local, Goto, Disposition, Work,
     IInv, TypeOK, Local, HonorLabels, Fresh, CoreFirst
<1>3. CASE PlanRaises(r)
  BY <1>3, IntentKept, IntentType, MayAppend DEF PlanRaises, disk, local, Goto, EndPass,
     IInv, TypeOK, Local, HonorLabels, Fresh, CoreFirst
<1>4. CASE TakeUp(r)
  BY <1>4, IntentKept, IntentType, MayAppend DEF TakeUp, disk, local, Goto, IInv, TypeOK,
     Local, HonorLabels, Fresh, CoreFirst
<1>5. CASE Finish(r)
  BY <1>5, IntentKept, IntentType, MayAppend DEF Finish, disk, local, Goto, EndPass, IInv,
     TypeOK, Local, HonorLabels, Fresh, CoreFirst
<1>6. CASE CreateCore(r)
  BY <1>6, IntentKept, IntentType, MayAppend DEF CreateCore, disk, local, Goto, IInv,
     TypeOK, Local, HonorLabels, Fresh, CoreFirst
<1>7. CASE CreateAgain(r)
  BY <1>7, IntentKept, IntentType, MayAppend DEF CreateAgain, disk, local, Goto, IInv,
     TypeOK, Local, HonorLabels, Fresh, CoreFirst
<1>8. CASE CreateRaises(r)
  BY <1>8, IntentKept, IntentType, MayAppend DEF CreateRaises, disk, local, Goto, EndPass,
     IInv, TypeOK, Local, HonorLabels, Fresh, CoreFirst
<1>9. CASE AppendObserved(r)
  BY <1>9, IntentKept, IntentType, MayAppend DEF AppendObserved, disk, local, Goto,
     AppendEvent, IInv, TypeOK, Local, HonorLabels, Fresh, CoreFirst
<1>10. CASE AdvanceIntent(r)
  BY <1>10, IntentKept, IntentType, MayAppend DEF AdvanceIntent, disk, local, Goto,
     AppendEvent, IInv, TypeOK, Local, HonorLabels, Fresh, CoreFirst
<1>11. CASE Dispatch(r)
  BY <1>11, IntentKept, IntentType, MayAppend DEF Dispatch, disk, local, Goto, Park, park,
     IInv, TypeOK, Local, HonorLabels, Fresh, CoreFirst
<1>12. CASE GatePasses(r)
  BY <1>12, IntentKept, IntentType, MayAppend DEF GatePasses, disk, local, Goto,
     circuit_open, IInv, TypeOK, Local, HonorLabels, Fresh, CoreFirst
<1>13. CASE GateRefuses(r)
  BY <1>13, IntentKept, IntentType, MayAppend DEF GateRefuses, disk, local, Goto,
     circuit_open, IInv, TypeOK, Local, HonorLabels, Fresh, CoreFirst
<1>14. CASE Authorize(r)
  BY <1>14, IntentKept, IntentType, MayAppend DEF Authorize, disk, local, Goto, AppendEvent,
     IInv, TypeOK, Local, HonorLabels, Fresh, CoreFirst
<1>15. CASE AppendExecuting(r)
  BY <1>15, IntentKept, IntentType, MayAppend DEF AppendExecuting, disk, local, Goto,
     AppendEvent, IInv, TypeOK, Local, HonorLabels, Fresh, CoreFirst
<1>16. CASE ApplyRefused(r)
  BY <1>16, IntentKept, IntentType, MayAppend DEF ApplyRefused, disk, local, Goto, IInv,
     TypeOK, Local, HonorLabels, Fresh, CoreFirst
<1>17. CASE Apply(r)
  BY <1>17, IntentKept, IntentType, MayAppend DEF Apply, disk, local, Goto, IInv, TypeOK,
     Local, HonorLabels, Fresh, CoreFirst
<1>18. CASE VerifyPostcondition(r)
  BY <1>18, IntentKept, IntentType, MayAppend DEF VerifyPostcondition, disk, local, Goto,
     IInv, TypeOK, Local, HonorLabels, Fresh, CoreFirst
<1>19. CASE RecordSuccess(r)
  BY <1>19, IntentKept, IntentType, MayAppend DEF RecordSuccess, disk, local, Goto, IInv,
     TypeOK, Local, HonorLabels, Fresh, CoreFirst
<1>20. CASE AppendVerified(r)
  BY <1>20, IntentKept, IntentType, MayAppend DEF AppendVerified, disk, local, Goto,
     AppendEvent, IInv, TypeOK, Local, HonorLabels, Fresh, CoreFirst
<1>21. CASE RecordFailure(r)
  BY <1>21, IntentKept, IntentType, MayAppend DEF RecordFailure, disk, local, Goto, IInv,
     TypeOK, Local, HonorLabels, Fresh, CoreFirst
<1>22. CASE ParkFailure(r)
  BY <1>22, IntentKept, IntentType, MayAppend DEF ParkFailure, disk, local, Goto, Park,
     park, IInv, TypeOK, Local, HonorLabels, Fresh, CoreFirst
<1>23. CASE Rollback(r)
  BY <1>23, IntentKept, IntentType, MayAppend DEF Rollback, disk, local, Goto, IInv, TypeOK,
     Local, HonorLabels, Fresh, CoreFirst
<1>24. CASE MarkFailed(r)
  BY <1>24, IntentKept, IntentType, MayAppend DEF MarkFailed, disk, local, Goto,
     AppendEvent, IInv, TypeOK, Local, HonorLabels, Fresh, CoreFirst
<1>25. CASE AppendConclusion(r)
  BY <1>25, IntentKept, IntentType, MayAppend DEF AppendConclusion, disk, local, Goto,
     AppendEvent, IInv, TypeOK, Local, HonorLabels, Fresh, CoreFirst
<1>26. CASE Crash(r)
  BY <1>26, IntentKept, IntentType, MayAppend DEF Crash, disk, local, Goto, EndPass, Fault,
     IInv, TypeOK, Local, HonorLabels, Fresh, CoreFirst
<1>27. CASE SignerFails(r)
  <2>1. CASE EndPass(r)
    BY <1>27, <2>1 DEF EndPass, Goto, IInv, TypeOK, Local, HonorLabels
  <2>2. CASE Goto(r, "failed") /\ UNCHANGED local
    BY <1>27, <2>2, WritingLabel DEF SignerFails, Goto, local, IInv, TypeOK, Local, HonorLabels
  <2>. QED  BY <1>27, <2>1, <2>2 DEF SignerFails
<1>. QED
  BY <1>1, <1>2, <1>3, <1>4, <1>5, <1>6, <1>7, <1>8, <1>9, <1>10, <1>11, <1>12, <1>13,
     <1>14, <1>15, <1>16, <1>17, <1>18, <1>19, <1>20, <1>21, <1>22, <1>23, <1>24, <1>25,
     <1>26, <1>27 DEF RunnerStep, PassStep

\* The attempt and its circuit when it is r that steps.
LEMMA BegunStep ==
    ASSUME IInv, NEW r \in Runners, RunnerStep(r)
    PROVE  Begun(r)'
<1>1. CASE \E m \in Modes : StartPass(r, m)
  BY <1>1, IntentKept, IntentType DEF StartPass, disk, local, Goto, circuit_open, IInv,
     TypeOK, Local, HonorLabels, Begun
<1>2. CASE Plan(r)
  BY <1>2, IntentKept, IntentType DEF Plan, disk, local, Goto, Disposition, Work,
     circuit_open, IInv, TypeOK, Local, HonorLabels, Begun
<1>3. CASE PlanRaises(r)
  BY <1>3, IntentKept, IntentType DEF PlanRaises, disk, local, Goto, EndPass, circuit_open,
     IInv, TypeOK, Local, HonorLabels, Begun
<1>4. CASE TakeUp(r)
  BY <1>4, IntentKept, IntentType DEF TakeUp, disk, local, Goto, circuit_open, IInv, TypeOK,
     Local, HonorLabels, Begun
<1>5. CASE Finish(r)
  BY <1>5, IntentKept, IntentType DEF Finish, disk, local, Goto, EndPass, circuit_open,
     IInv, TypeOK, Local, HonorLabels, Begun
<1>6. CASE CreateCore(r)
  BY <1>6, IntentKept, IntentType DEF CreateCore, disk, local, Goto, circuit_open, IInv,
     TypeOK, Local, HonorLabels, Begun
<1>7. CASE CreateAgain(r)
  BY <1>7, IntentKept, IntentType DEF CreateAgain, disk, local, Goto, circuit_open, IInv,
     TypeOK, Local, HonorLabels, Begun
<1>8. CASE CreateRaises(r)
  BY <1>8, IntentKept, IntentType DEF CreateRaises, disk, local, Goto, EndPass,
     circuit_open, IInv, TypeOK, Local, HonorLabels, Begun
<1>9. CASE AppendObserved(r)
  BY <1>9, IntentKept, IntentType DEF AppendObserved, disk, local, Goto, AppendEvent,
     circuit_open, IInv, TypeOK, Local, HonorLabels, Begun
<1>10. CASE AdvanceIntent(r)
  BY <1>10, IntentKept, IntentType DEF AdvanceIntent, disk, local, Goto, AppendEvent,
     circuit_open, IInv, TypeOK, Local, HonorLabels, Begun
<1>11. CASE Dispatch(r)
  BY <1>11, IntentKept, IntentType DEF Dispatch, disk, local, Goto, Park, park,
     circuit_open, IInv, TypeOK, Local, HonorLabels, Begun
<1>12. CASE GatePasses(r)
  BY <1>12, IntentKept, IntentType DEF GatePasses, disk, local, Goto, circuit_open,
     circuit_open, IInv, TypeOK, Local, HonorLabels, Begun
<1>13. CASE GateRefuses(r)
  BY <1>13, IntentKept, IntentType DEF GateRefuses, disk, local, Goto, circuit_open,
     circuit_open, IInv, TypeOK, Local, HonorLabels, Begun
<1>14. CASE Authorize(r)
  BY <1>14, IntentKept, IntentType DEF Authorize, disk, local, Goto, AppendEvent,
     circuit_open, IInv, TypeOK, Local, HonorLabels, Begun
<1>15. CASE AppendExecuting(r)
  BY <1>15, IntentKept, IntentType DEF AppendExecuting, disk, local, Goto, AppendEvent,
     circuit_open, IInv, TypeOK, Local, HonorLabels, Begun
<1>16. CASE ApplyRefused(r)
  BY <1>16, IntentKept, IntentType DEF ApplyRefused, disk, local, Goto, circuit_open, IInv,
     TypeOK, Local, HonorLabels, Begun
<1>17. CASE Apply(r)
  BY <1>17, IntentKept, IntentType DEF Apply, disk, local, Goto, circuit_open, IInv, TypeOK,
     Local, HonorLabels, Begun
<1>18. CASE VerifyPostcondition(r)
  BY <1>18, IntentKept, IntentType DEF VerifyPostcondition, disk, local, Goto, circuit_open,
     IInv, TypeOK, Local, HonorLabels, Begun
<1>19. CASE RecordSuccess(r)
  BY <1>19, IntentKept, IntentType DEF RecordSuccess, disk, local, Goto, circuit_open, IInv,
     TypeOK, Local, HonorLabels, Begun
<1>20. CASE AppendVerified(r)
  BY <1>20, IntentKept, IntentType DEF AppendVerified, disk, local, Goto, AppendEvent,
     circuit_open, IInv, TypeOK, Local, HonorLabels, Begun
<1>21. CASE RecordFailure(r)
  BY <1>21, IntentKept, IntentType DEF RecordFailure, disk, local, Goto, circuit_open, IInv,
     TypeOK, Local, HonorLabels, Begun
<1>22. CASE ParkFailure(r)
  BY <1>22, IntentKept, IntentType DEF ParkFailure, disk, local, Goto, Park, park,
     circuit_open, IInv, TypeOK, Local, HonorLabels, Begun
<1>23. CASE Rollback(r)
  BY <1>23, IntentKept, IntentType DEF Rollback, disk, local, Goto, circuit_open, IInv,
     TypeOK, Local, HonorLabels, Begun
<1>24. CASE MarkFailed(r)
  BY <1>24, IntentKept, IntentType DEF MarkFailed, disk, local, Goto, AppendEvent,
     circuit_open, IInv, TypeOK, Local, HonorLabels, Begun
<1>25. CASE AppendConclusion(r)
  BY <1>25, IntentKept, IntentType DEF AppendConclusion, disk, local, Goto, AppendEvent,
     circuit_open, IInv, TypeOK, Local, HonorLabels, Begun
<1>26. CASE Crash(r)
  BY <1>26, IntentKept, IntentType DEF Crash, disk, local, Goto, EndPass, Fault,
     circuit_open, IInv, TypeOK, Local, HonorLabels, Begun
<1>27. CASE SignerFails(r)
  <2>1. CASE EndPass(r)
    BY <1>27, <2>1 DEF EndPass, Goto, IInv, TypeOK, Begun
  <2>2. CASE pc[r] \in {"authorize", "execute", "settle"}
    BY <1>27, <2>2, IntentKept DEF SignerFails, Goto, local, disk, IInv, TypeOK, Begun
  <2>. QED  BY <1>27, <2>1, <2>2 DEF SignerFails
<1>. QED
  BY <1>1, <1>2, <1>3, <1>4, <1>5, <1>6, <1>7, <1>8, <1>9, <1>10, <1>11, <1>12, <1>13,
     <1>14, <1>15, <1>16, <1>17, <1>18, <1>19, <1>20, <1>21, <1>22, <1>23, <1>24, <1>25,
     <1>26, <1>27 DEF RunnerStep, PassStep

\* A process that stays outside a pass has nothing to rely on.
LEMMA IdleRelies ==
    ASSUME NEW s \in Runners, pc'[s] = "idle"
    PROVE  Local(s)' /\ Begun(s)'
  BY DEF Local, Begun, HonorLabels

\* Steps outside a pass leave what a pass relies on.
LEMMA PassesKept ==
    ASSUME IInv, NewGeneration \/ (\E p \in Proposals : Resolve(p)) \/ UNCHANGED vars
    PROVE  /\ Flight'
           /\ \A s \in Runners : Local(s)' /\ Begun(s)'
  <1>1. UNCHANGED <<lock, pc, mode, cur, attempt, cores, ledger, failures, effects>>
    BY DEF NewGeneration, Resolve, vars, disk, local
  <1>2. \A p \in Proposals : decision[p] # "none" => decision'[p] # "none"
    BY DEF NewGeneration, Resolve, vars, disk, IInv, TypeOK
  <1>3. ASSUME NEW s \in Runners
        PROVE  Local(s)' /\ Begun(s)'
    BY <1>1, <1>2, <1>3, IntentKept, IntentType DEF IInv, Local, Begun, HonorLabels
  <1>. QED  BY <1>1, <1>3 DEF IInv, Flight

\* Every step keeps the lock and what the passes rely on.
LEMMA PassesStep ==
    ASSUME IInv, [Next]_vars
    PROVE  /\ Flight'
           /\ \A s \in Runners : Local(s)' /\ Begun(s)'
  <1>1. ASSUME NEW r \in Runners, RunnerStep(r)
        PROVE  /\ Flight'
               /\ \A s \in Runners : Local(s)' /\ Begun(s)'
    <2>1. \A s \in Runners : s # r => pc'[s] = "idle"
      BY <1>1, OthersIdle
    <2>2. Flight'
      BY <1>1, <2>1, PassMoves DEF Flight
    <2>3. ASSUME NEW s \in Runners
          PROVE  Local(s)' /\ Begun(s)'
      BY <1>1, <2>1, <2>3, LocalStep, BegunStep, IdleRelies
    <2>. QED  BY <2>2, <2>3
  <1>2. CASE NewGeneration \/ (\E p \in Proposals : Resolve(p)) \/ UNCHANGED vars
    BY <1>2, PassesKept
  <1>. QED  BY <1>1, <1>2 DEF Next, RunnerStep

\* The three facts about the files that hold whichever pass wrote them.
RecordsOK == Fresh /\ EscalatedIsParked /\ CoreFirst

\* The pass that steps keeps them.
LEMMA RecordsKept ==
    ASSUME IInv, NEW r \in Runners, RunnerStep(r)
    PROVE  RecordsOK'
<1>1. CASE \E m \in Modes : StartPass(r, m)
  BY <1>1, IntentType, MayAppend DEF StartPass, disk, local, Goto, IInv, TypeOK, Local,
     HonorLabels, Fresh, EscalatedIsParked, CoreFirst, RecordsOK
<1>2. CASE Plan(r)
  BY <1>2, IntentType, MayAppend DEF Plan, disk, local, Goto, Disposition, Work, IInv,
     TypeOK, Local, HonorLabels, Fresh, EscalatedIsParked, CoreFirst, RecordsOK
<1>3. CASE PlanRaises(r)
  BY <1>3, IntentType, MayAppend DEF PlanRaises, disk, local, Goto, EndPass, IInv, TypeOK,
     Local, HonorLabels, Fresh, EscalatedIsParked, CoreFirst, RecordsOK
<1>4. CASE TakeUp(r)
  BY <1>4, IntentType, MayAppend DEF TakeUp, disk, local, Goto, IInv, TypeOK, Local,
     HonorLabels, Fresh, EscalatedIsParked, CoreFirst, RecordsOK
<1>5. CASE Finish(r)
  BY <1>5, IntentType, MayAppend DEF Finish, disk, local, Goto, EndPass, IInv, TypeOK,
     Local, HonorLabels, Fresh, EscalatedIsParked, CoreFirst, RecordsOK
<1>6. CASE CreateCore(r)
  BY <1>6, IntentType, MayAppend DEF CreateCore, disk, local, Goto, IInv, TypeOK, Local,
     HonorLabels, Fresh, EscalatedIsParked, CoreFirst, RecordsOK
<1>7. CASE CreateAgain(r)
  BY <1>7, IntentType, MayAppend DEF CreateAgain, disk, local, Goto, IInv, TypeOK, Local,
     HonorLabels, Fresh, EscalatedIsParked, CoreFirst, RecordsOK
<1>8. CASE CreateRaises(r)
  BY <1>8, IntentType, MayAppend DEF CreateRaises, disk, local, Goto, EndPass, IInv, TypeOK,
     Local, HonorLabels, Fresh, EscalatedIsParked, CoreFirst, RecordsOK
<1>9. CASE AppendObserved(r)
  BY <1>9, IntentType, MayAppend DEF AppendObserved, disk, local, Goto, AppendEvent, IInv,
     TypeOK, Local, HonorLabels, Fresh, EscalatedIsParked, CoreFirst, RecordsOK
<1>10. CASE AdvanceIntent(r)
  <2>1. CASE UNCHANGED ledger
    BY <1>10, <2>1 DEF AdvanceIntent, IInv, RecordsOK, Fresh, EscalatedIsParked, CoreFirst
  <2>2. ASSUME NEW s \in {"diagnosed", "proposed"}, may_append(Intent(r), s),
               AppendEvent(Intent(r), s)
        PROVE  RecordsOK'
    <3>1. /\ ledger[Intent(r)] \in {"observed", "diagnosed"}
          /\ Intent(r) \in Intents
      BY <1>10, <2>2, MayAppend, IntentType DEF AdvanceIntent, IInv, Local
    <3>. QED
      BY <1>10, <2>2, <3>1 DEF AdvanceIntent, AppendEvent, IInv, TypeOK, RecordsOK, Fresh,
         EscalatedIsParked, CoreFirst
  <2>. QED  BY <1>10, <2>1, <2>2 DEF AdvanceIntent
<1>11. CASE Dispatch(r)
  <2>1. \A p \in Proposals : decision[p] # "none" => decision'[p] # "none"
    BY <1>11 DEF Dispatch, Park, park, IInv, TypeOK
  <2>2. UNCHANGED <<ledger, effects, cores>>
    BY <1>11 DEF Dispatch
  <2>. QED
    BY <2>1, <2>2 DEF IInv, RecordsOK, Fresh, EscalatedIsParked, CoreFirst, Intents
<1>12. CASE GatePasses(r)
  BY <1>12, IntentType, MayAppend DEF GatePasses, disk, local, Goto, circuit_open, IInv,
     TypeOK, Local, HonorLabels, Fresh, EscalatedIsParked, CoreFirst, RecordsOK
<1>13. CASE GateRefuses(r)
  BY <1>13, IntentType, MayAppend DEF GateRefuses, disk, local, Goto, circuit_open, IInv,
     TypeOK, Local, HonorLabels, Fresh, EscalatedIsParked, CoreFirst, RecordsOK
<1>14. CASE Authorize(r)
  BY <1>14, IntentType, MayAppend DEF Authorize, disk, local, Goto, AppendEvent, IInv,
     TypeOK, Local, HonorLabels, Fresh, EscalatedIsParked, CoreFirst, RecordsOK
<1>15. CASE AppendExecuting(r)
  BY <1>15, IntentType, MayAppend DEF AppendExecuting, disk, local, Goto, AppendEvent, IInv,
     TypeOK, Local, HonorLabels, Fresh, EscalatedIsParked, CoreFirst, RecordsOK
<1>16. CASE ApplyRefused(r)
  BY <1>16, IntentType, MayAppend DEF ApplyRefused, disk, local, Goto, IInv, TypeOK, Local,
     HonorLabels, Fresh, EscalatedIsParked, CoreFirst, RecordsOK
<1>17. CASE Apply(r)
  BY <1>17, IntentType, MayAppend DEF Apply, disk, local, Goto, IInv, TypeOK, Local,
     HonorLabels, Fresh, EscalatedIsParked, CoreFirst, RecordsOK
<1>18. CASE VerifyPostcondition(r)
  BY <1>18, IntentType, MayAppend DEF VerifyPostcondition, disk, local, Goto, IInv, TypeOK,
     Local, HonorLabels, Fresh, EscalatedIsParked, CoreFirst, RecordsOK
<1>19. CASE RecordSuccess(r)
  BY <1>19, IntentType, MayAppend DEF RecordSuccess, disk, local, Goto, IInv, TypeOK, Local,
     HonorLabels, Fresh, EscalatedIsParked, CoreFirst, RecordsOK
<1>20. CASE AppendVerified(r)
  BY <1>20, IntentType, MayAppend DEF AppendVerified, disk, local, Goto, AppendEvent, IInv,
     TypeOK, Local, HonorLabels, Fresh, EscalatedIsParked, CoreFirst, RecordsOK
<1>21. CASE RecordFailure(r)
  BY <1>21, IntentType, MayAppend DEF RecordFailure, disk, local, Goto, IInv, TypeOK, Local,
     HonorLabels, Fresh, EscalatedIsParked, CoreFirst, RecordsOK
<1>22. CASE ParkFailure(r)
  BY <1>22, IntentType, MayAppend DEF ParkFailure, disk, local, Goto, Park, park, IInv,
     TypeOK, Local, HonorLabels, Fresh, EscalatedIsParked, CoreFirst, RecordsOK
<1>23. CASE Rollback(r)
  BY <1>23, IntentType, MayAppend DEF Rollback, disk, local, Goto, IInv, TypeOK, Local,
     HonorLabels, Fresh, EscalatedIsParked, CoreFirst, RecordsOK
<1>24. CASE MarkFailed(r)
  BY <1>24, IntentType, MayAppend DEF MarkFailed, disk, local, Goto, AppendEvent, IInv,
     TypeOK, Local, HonorLabels, Fresh, EscalatedIsParked, CoreFirst, RecordsOK
<1>25. CASE AppendConclusion(r)
  BY <1>25, IntentType, MayAppend DEF AppendConclusion, disk, local, Goto, AppendEvent,
     IInv, TypeOK, Local, HonorLabels, Fresh, EscalatedIsParked, CoreFirst, RecordsOK
<1>26. CASE Crash(r)
  BY <1>26, IntentType, MayAppend DEF Crash, disk, local, Goto, EndPass, Fault, IInv,
     TypeOK, Local, HonorLabels, Fresh, EscalatedIsParked, CoreFirst, RecordsOK
<1>27. CASE SignerFails(r)
  <2>1. UNCHANGED <<ledger, effects, decision, cores>>
    BY <1>27 DEF SignerFails, disk
  <2>. QED  BY <2>1 DEF IInv, RecordsOK, Fresh, EscalatedIsParked, CoreFirst
<1>. QED
  BY <1>1, <1>2, <1>3, <1>4, <1>5, <1>6, <1>7, <1>8, <1>9, <1>10, <1>11, <1>12, <1>13,
     <1>14, <1>15, <1>16, <1>17, <1>18, <1>19, <1>20, <1>21, <1>22, <1>23, <1>24, <1>25,
     <1>26, <1>27 DEF RunnerStep, PassStep

\* Every step of a pass or of a human keeps an escalated intent's decision in the
\* store, and parks one before the event is appended.
LEMMA RecordsStep ==
    ASSUME IInv, [Next]_vars
    PROVE  RecordsOK'
<1>1. ASSUME NEW r \in Runners, RunnerStep(r)
      PROVE  RecordsOK'
  BY <1>1, RecordsKept
<1>2. ASSUME NewGeneration \/ UNCHANGED vars
      PROVE  RecordsOK'
  BY <1>2 DEF NewGeneration, vars, disk, IInv, RecordsOK, Fresh, EscalatedIsParked, CoreFirst
<1>3. ASSUME NEW p \in Proposals, Resolve(p)
      PROVE  RecordsOK'
  BY <1>3 DEF Resolve, IInv, TypeOK, RecordsOK, Fresh, EscalatedIsParked, CoreFirst, Intents
<1>. QED  BY <1>1, <1>2, <1>3 DEF Next, RunnerStep

\* Pending is about the process that steps, for no other is in a pass.
LEMMA PendingIs ==
    ASSUME IInv, NEW r \in Runners, RunnerStep(r), NEW p
    PROVE  /\ Pending(p) <=> (/\ pc[r] \in {"verify", "record", "failed"}
                              /\ attempt[r] = TRUE /\ Prop(r) = p)
           /\ Pending(p)' <=> (/\ pc'[r] \in {"verify", "record", "failed"}
                               /\ attempt'[r] = TRUE /\ Prop(r)' = p)
  BY OthersIdle DEF Pending

\* A step that counts nothing and settles no pending attempt.
LEMMA TriesFrame ==
    ASSUME IInv, UNCHANGED <<tries, failures, faults>>,
           \A p \in Proposals : Pending(p) => Pending(p)'
    PROVE  TriesCounted'
  BY DEF IInv, TypeOK, TriesCounted

\* The pass that steps keeps the count of attempts.
LEMMA TriesKept ==
    ASSUME IInv, NEW r \in Runners, RunnerStep(r)
    PROVE  TriesCounted'
<1>1. CASE \E m \in Modes : StartPass(r, m)
  <2>1. \A p \in Proposals : Pending(p) => Pending(p)'
    BY <1>1, PendingIs, IntentKept DEF StartPass, Goto, local, IInv, TypeOK
  <2>2. UNCHANGED <<tries, failures, faults>>
    BY <1>1 DEF StartPass, disk
  <2>. QED  BY <2>1, <2>2, TriesFrame
<1>2. CASE Plan(r)
  <2>1. \A p \in Proposals : Pending(p) => Pending(p)'
    BY <1>2, PendingIs, IntentKept DEF Plan, Goto, local, IInv, TypeOK
  <2>2. UNCHANGED <<tries, failures, faults>>
    BY <1>2 DEF Plan, disk
  <2>. QED  BY <2>1, <2>2, TriesFrame
<1>3. CASE PlanRaises(r)
  <2>1. \A p \in Proposals : ~Pending(p)
    BY <1>3, PendingIs DEF PlanRaises
  <2>2. UNCHANGED <<tries, failures, faults>>
    BY <1>3 DEF PlanRaises, disk
  <2>. QED  BY <2>1, <2>2, TriesFrame
<1>4. CASE TakeUp(r)
  <2>1. \A p \in Proposals : Pending(p) => Pending(p)'
    BY <1>4, PendingIs, IntentKept DEF TakeUp, Goto, local, IInv, TypeOK
  <2>2. UNCHANGED <<tries, failures, faults>>
    BY <1>4 DEF TakeUp, disk
  <2>. QED  BY <2>1, <2>2, TriesFrame
<1>5. CASE Finish(r)
  <2>1. \A p \in Proposals : ~Pending(p)
    BY <1>5, PendingIs DEF Finish
  <2>2. UNCHANGED <<tries, failures, faults>>
    BY <1>5 DEF Finish, disk
  <2>. QED  BY <2>1, <2>2, TriesFrame
<1>6. CASE CreateCore(r)
  <2>1. \A p \in Proposals : Pending(p) => Pending(p)'
    BY <1>6, PendingIs, IntentKept DEF CreateCore, Goto, local, IInv, TypeOK
  <2>2. UNCHANGED <<tries, failures, faults>>
    BY <1>6 DEF CreateCore, disk
  <2>. QED  BY <2>1, <2>2, TriesFrame
<1>7. CASE CreateAgain(r)
  <2>1. \A p \in Proposals : Pending(p) => Pending(p)'
    BY <1>7, PendingIs, IntentKept DEF CreateAgain, Goto, local, IInv, TypeOK
  <2>2. UNCHANGED <<tries, failures, faults>>
    BY <1>7 DEF CreateAgain, disk
  <2>. QED  BY <2>1, <2>2, TriesFrame
<1>8. CASE CreateRaises(r)
  <2>1. \A p \in Proposals : ~Pending(p)
    BY <1>8, PendingIs DEF CreateRaises
  <2>2. UNCHANGED <<tries, failures, faults>>
    BY <1>8 DEF CreateRaises, disk
  <2>. QED  BY <2>1, <2>2, TriesFrame
<1>9. CASE AppendObserved(r)
  <2>1. \A p \in Proposals : Pending(p) => Pending(p)'
    BY <1>9, PendingIs, IntentKept DEF AppendObserved, Goto, local, IInv, TypeOK
  <2>2. UNCHANGED <<tries, failures, faults>>
    BY <1>9 DEF AppendObserved, disk
  <2>. QED  BY <2>1, <2>2, TriesFrame
<1>10. CASE AdvanceIntent(r)
  <2>1. \A p \in Proposals : Pending(p) => Pending(p)'
    BY <1>10, PendingIs, IntentKept DEF AdvanceIntent, Goto, local, IInv, TypeOK
  <2>2. UNCHANGED <<tries, failures, faults>>
    BY <1>10 DEF AdvanceIntent, disk
  <2>. QED  BY <2>1, <2>2, TriesFrame
<1>11. CASE Dispatch(r)
  <2>1. \A p \in Proposals : Pending(p) => Pending(p)'
    BY <1>11, PendingIs, IntentKept DEF Dispatch, Goto, local, IInv, TypeOK
  <2>2. UNCHANGED <<tries, failures, faults>>
    BY <1>11 DEF Dispatch, disk
  <2>. QED  BY <2>1, <2>2, TriesFrame
<1>12. CASE GatePasses(r)
  <2>1. \A p \in Proposals : Pending(p) => Pending(p)'
    BY <1>12, PendingIs, IntentKept DEF GatePasses, Goto, local, IInv, TypeOK
  <2>2. UNCHANGED <<tries, failures, faults>>
    BY <1>12 DEF GatePasses, disk
  <2>. QED  BY <2>1, <2>2, TriesFrame
<1>13. CASE GateRefuses(r)
  <2>1. \A p \in Proposals : Pending(p) => Pending(p)'
    BY <1>13, PendingIs, IntentKept DEF GateRefuses, Goto, local, IInv, TypeOK
  <2>2. UNCHANGED <<tries, failures, faults>>
    BY <1>13 DEF GateRefuses, disk
  <2>. QED  BY <2>1, <2>2, TriesFrame
<1>14. CASE Authorize(r)
  <2>1. \A p \in Proposals : Pending(p) => Pending(p)'
    BY <1>14, PendingIs, IntentKept DEF Authorize, Goto, local, IInv, TypeOK
  <2>2. UNCHANGED <<tries, failures, faults>>
    BY <1>14 DEF Authorize, disk
  <2>. QED  BY <2>1, <2>2, TriesFrame
<1>15. CASE AppendExecuting(r)
  <2>1. \A p \in Proposals : Pending(p) => Pending(p)'
    BY <1>15, PendingIs, IntentKept DEF AppendExecuting, Goto, local, IInv, TypeOK
  <2>2. UNCHANGED <<tries, failures, faults>>
    BY <1>15 DEF AppendExecuting, disk
  <2>. QED  BY <2>1, <2>2, TriesFrame
<1>16. CASE ApplyRefused(r)
  <2>1. \A p \in Proposals : Pending(p) => Pending(p)'
    BY <1>16, PendingIs, IntentKept DEF ApplyRefused, Goto, local, IInv, TypeOK
  <2>2. UNCHANGED <<tries, failures, faults>>
    BY <1>16 DEF ApplyRefused, disk
  <2>. QED  BY <2>1, <2>2, TriesFrame
<1>17. CASE Apply(r)
  <2>1. /\ Prop(r) \in Proposals /\ Prop(r)' = Prop(r)
        /\ \A p \in Proposals : Pending(p) => p = Prop(r)
        /\ \A p \in Proposals : Pending(p)' => p = Prop(r)
    BY <1>17, PendingIs, IntentKept, IntentType DEF Apply, local, IInv, Local
  <2>2. ~Pending(Prop(r)) /\ Pending(Prop(r))'
    <3>1. pc[r] = "apply" /\ pc'[r] \in {"verify", "failed", "record"}
      <4>1. \E l \in {"verify", "failed", "record"} : Goto(r, l)
        BY <1>17, Zenon DEF Apply
      <4>. QED  BY <1>17, <4>1 DEF Apply, Goto, IInv, TypeOK
    <3>2. attempt'[r] = TRUE
      BY <1>17 DEF Apply, local, IInv, Begun
    <3>. QED  BY <2>1, <3>1, <3>2, PendingIs
  <2>3. \A p \in Proposals : tries'[p] = IF p = Prop(r) THEN tries[p] + 1 ELSE tries[p]
    BY <1>17 DEF Apply, IInv, TypeOK
  <2>. QED
    BY <1>17, <2>1, <2>2, <2>3 DEF Apply, disk, IInv, TypeOK, TriesCounted
<1>18. CASE VerifyPostcondition(r)
  <2>1. \A p \in Proposals : Pending(p) => Pending(p)'
    BY <1>18, PendingIs, IntentKept DEF VerifyPostcondition, Goto, local, IInv, TypeOK
  <2>2. UNCHANGED <<tries, failures, faults>>
    BY <1>18 DEF VerifyPostcondition, disk
  <2>. QED  BY <2>1, <2>2, TriesFrame
<1>19. CASE RecordSuccess(r)
  <2>1. /\ Prop(r) \in Proposals /\ Prop(r)' = Prop(r)
        /\ \A p \in Proposals : Pending(p) => p = Prop(r)
        /\ \A p \in Proposals : Pending(p)' => p = Prop(r)
    BY <1>19, PendingIs, IntentKept, IntentType DEF RecordSuccess, local, IInv, Local
  <2>2. \A p \in Proposals :
          /\ tries'[p] = IF p = Prop(r) THEN 0 ELSE tries[p]
          /\ failures'[p] = IF p = Prop(r) THEN 0 ELSE failures[p]
    BY <1>19 DEF RecordSuccess, IInv, TypeOK
  <2>. QED
    BY <1>19, <2>1, <2>2 DEF RecordSuccess, IInv, TypeOK, TriesCounted
<1>20. CASE AppendVerified(r)
  <2>1. \A p \in Proposals : Pending(p) => Pending(p)'
    BY <1>20, PendingIs, IntentKept DEF AppendVerified, Goto, local, IInv, TypeOK
  <2>2. UNCHANGED <<tries, failures, faults>>
    BY <1>20 DEF AppendVerified, disk
  <2>. QED  BY <2>1, <2>2, TriesFrame
<1>21. CASE RecordFailure(r)
  <2>1. /\ Prop(r) \in Proposals /\ Prop(r)' = Prop(r)
        /\ \A p \in Proposals : Pending(p) => p = Prop(r)
        /\ \A p \in Proposals : Pending(p)' => p = Prop(r)
    BY <1>21, PendingIs, IntentKept, IntentType DEF RecordFailure, local, IInv, Local
  <2>2. CASE attempt[r] = TRUE
    <3>1. \A p \in Proposals :
            failures'[p] = IF p = Prop(r) THEN failures[p] + 1 ELSE failures[p]
      BY <1>21, <2>2 DEF RecordFailure, IInv, TypeOK
    <3>. QED
      BY <1>21, <2>1, <3>1 DEF RecordFailure, IInv, TypeOK, TriesCounted
  <2>3. CASE attempt[r] = FALSE
    <3>1. UNCHANGED <<tries, failures, faults>>
      BY <1>21, <2>3 DEF RecordFailure
    <3>2. \A p \in Proposals : ~Pending(p)
      BY <2>3, PendingIs
    <3>. QED  BY <3>1, <3>2, TriesFrame
  <2>. QED  BY <2>2, <2>3 DEF IInv, TypeOK
<1>22. CASE ParkFailure(r)
  <2>1. \A p \in Proposals : Pending(p) => Pending(p)'
    BY <1>22, PendingIs, IntentKept DEF ParkFailure, Goto, local, IInv, TypeOK
  <2>2. UNCHANGED <<tries, failures, faults>>
    BY <1>22 DEF ParkFailure, disk
  <2>. QED  BY <2>1, <2>2, TriesFrame
<1>23. CASE Rollback(r)
  <2>1. \A p \in Proposals : Pending(p) => Pending(p)'
    BY <1>23, PendingIs, IntentKept DEF Rollback, Goto, local, IInv, TypeOK
  <2>2. UNCHANGED <<tries, failures, faults>>
    BY <1>23 DEF Rollback, disk
  <2>. QED  BY <2>1, <2>2, TriesFrame
<1>24. CASE MarkFailed(r)
  <2>1. \A p \in Proposals : Pending(p) => Pending(p)'
    BY <1>24, PendingIs, IntentKept DEF MarkFailed, Goto, local, IInv, TypeOK
  <2>2. UNCHANGED <<tries, failures, faults>>
    BY <1>24 DEF MarkFailed, disk
  <2>. QED  BY <2>1, <2>2, TriesFrame
<1>25. CASE AppendConclusion(r)
  <2>1. \A p \in Proposals : Pending(p) => Pending(p)'
    BY <1>25, PendingIs, IntentKept DEF AppendConclusion, Goto, local, IInv, TypeOK
  <2>2. UNCHANGED <<tries, failures, faults>>
    BY <1>25 DEF AppendConclusion, disk
  <2>. QED  BY <2>1, <2>2, TriesFrame
<1>26. CASE Crash(r)
  <2>1. \A p \in Proposals : tries'[p] = tries[p] /\ failures'[p] = failures[p]
    BY <1>26 DEF Crash, disk
  <2>2. faults' = faults + 1
    BY <1>26 DEF Crash, Fault
  <2>. QED  BY <2>1, <2>2 DEF IInv, TypeOK, TriesCounted
<1>27. CASE SignerFails(r)
  <2>1. \A p \in Proposals : tries'[p] = tries[p] /\ failures'[p] = failures[p]
    BY <1>27 DEF SignerFails, disk
  <2>2. faults' = faults + 1
    BY <1>27 DEF SignerFails, Fault
  <2>. QED  BY <2>1, <2>2 DEF IInv, TypeOK, TriesCounted
<1>. QED
  BY <1>1, <1>2, <1>3, <1>4, <1>5, <1>6, <1>7, <1>8, <1>9, <1>10, <1>11, <1>12, <1>13,
     <1>14, <1>15, <1>16, <1>17, <1>18, <1>19, <1>20, <1>21, <1>22, <1>23, <1>24, <1>25,
     <1>26, <1>27 DEF RunnerStep, PassStep

\* Every step keeps the count of unrecorded attempts within the faults so far.
LEMMA TriesStep ==
    ASSUME IInv, [Next]_vars
    PROVE  TriesCounted'
<1>1. ASSUME NEW r \in Runners, RunnerStep(r)
      PROVE  TriesCounted'
  BY <1>1, TriesKept
<1>2. CASE NewGeneration \/ (\E p \in Proposals : Resolve(p)) \/ UNCHANGED vars
  <2>1. UNCHANGED <<tries, failures, faults, pc, attempt, cur>>
    BY <1>2 DEF NewGeneration, Resolve, vars, disk, local
  <2>2. \A p : Pending(p) => Pending(p)'
    BY <2>1, IntentKept DEF Pending
  <2>. QED  BY <2>1, <2>2, TriesFrame
<1>. QED  BY <1>1, <1>2 DEF Next, RunnerStep

\* IInv is inductive: the initial states satisfy it and every step keeps it.
THEOREM Inductive == Spec => []IInv
<1>1. Init => IInv
  <2>1. Init => TypeOK
    BY DEF Init, TypeOK, States, Labels, Modes
  <2>2. Init => Flight /\ \A r \in Runners : Local(r) /\ Begun(r)
    BY DEF Init, Flight, Local, Begun, HonorLabels
  <2>3. Init => Fresh /\ EscalatedIsParked /\ CoreFirst
    BY DEF Init, Fresh, EscalatedIsParked, CoreFirst
  <2>4. Init => TriesCounted
    BY DEF Init, TriesCounted, Pending
  <2>. QED  BY <2>1, <2>2, <2>3, <2>4 DEF IInv
<1>2. IInv /\ [Next]_vars => IInv'
  BY TypeStep, PassesStep, RecordsStep, TriesStep DEF IInv, RecordsOK
<1>. QED  BY <1>1, <1>2, PTL DEF Spec

\* TypeOK: every file and every pass has its type; in particular a recorded
\* failure count never passes the budget.
THEOREM TypeCorrect == Spec => []TypeOK
<1>1. IInv => TypeOK
  BY DEF IInv
<1>. QED  BY <1>1, Inductive, PTL

\* The handler has parked the human's decision before the ledger says escalated,
\* whatever crashes in between.
THEOREM EscalationsParked == Spec => []EscalatedIsParked
<1>1. IInv => EscalatedIsParked
  BY DEF IInv
<1>. QED  BY <1>1, Inductive, PTL

\* The circuit bounds the attempts: at most retry_budget since the last success,
\* and one more for every fault.
THEOREM RetryBudgetKept == Spec => []RetryBudgetHolds
<1>1. IInv => RetryBudgetHolds
  <2> SUFFICES ASSUME IInv, NEW p \in Proposals
               PROVE  tries[p] <= RetryBudget + faults
    BY DEF RetryBudgetHolds
  <2>1. CASE Pending(p)
    <3>1. failures[p] < RetryBudget
      BY <2>1 DEF Pending, IInv, Begun
    <3>. QED  BY <3>1 DEF IInv, TypeOK, TriesCounted
  <2>2. CASE ~Pending(p)
    BY <2>2 DEF IInv, TypeOK, TriesCounted
  <2>. QED  BY <2>1, <2>2
<1>. QED  BY <1>1, Inductive, PTL

\* Each step of a pass is a step of the lifecycle or leaves it alone.
LEMMA PassImplements ==
    ASSUME IInv, NEW r \in Runners, RunnerStep(r)
    PROVE  [Lifecycle!Next]_(Lifecycle!vars)
<1>1. CASE \E m \in Modes : StartPass(r, m)
  BY <1>1 DEF StartPass, disk, Lifecycle!vars
<1>2. CASE Plan(r)
  BY <1>2 DEF Plan, disk, Lifecycle!vars
<1>3. CASE PlanRaises(r)
  BY <1>3 DEF PlanRaises, disk, Lifecycle!vars
<1>4. CASE TakeUp(r)
  BY <1>4 DEF TakeUp, disk, Lifecycle!vars
<1>5. CASE Finish(r)
  BY <1>5 DEF Finish, disk, Lifecycle!vars
<1>6. CASE CreateCore(r)
  BY <1>6 DEF CreateCore, disk, Lifecycle!vars
<1>7. CASE CreateAgain(r)
  BY <1>7 DEF CreateAgain, disk, Lifecycle!vars
<1>8. CASE CreateRaises(r)
  BY <1>8 DEF CreateRaises, disk, Lifecycle!vars
<1>9. CASE AppendObserved(r)
  BY <1>9, IntentType, MayAppend
     DEF AppendObserved, AppendEvent, IInv, Local, HonorLabels, Lifecycle!Next, Lifecycle!vars,
         Lifecycle!Climb, Lifecycle!Move, Lifecycle!Fail, Lifecycle!Verify, Lifecycle!Conclude
<1>10. CASE AdvanceIntent(r)
  <2>1. CASE UNCHANGED ledger
    BY <1>10, <2>1 DEF AdvanceIntent, Lifecycle!vars
  <2>2. CASE may_append(Intent(r), "diagnosed") /\ AppendEvent(Intent(r), "diagnosed")
    BY <1>10, <2>2, IntentType, MayAppend
       DEF AdvanceIntent, AppendEvent, IInv, Local, Lifecycle!Next, Lifecycle!Climb,
           Lifecycle!Move
  <2>3. CASE may_append(Intent(r), "proposed") /\ AppendEvent(Intent(r), "proposed")
    BY <1>10, <2>3, IntentType, MayAppend
       DEF AdvanceIntent, AppendEvent, IInv, Local, Lifecycle!Next, Lifecycle!Climb,
           Lifecycle!Move
  <2>. QED  BY <1>10, <2>1, <2>2, <2>3 DEF AdvanceIntent
<1>11. CASE Dispatch(r)
  BY <1>11 DEF Dispatch, disk, Lifecycle!vars
<1>12. CASE GatePasses(r)
  BY <1>12 DEF GatePasses, disk, Lifecycle!vars
<1>13. CASE GateRefuses(r)
  BY <1>13 DEF GateRefuses, disk, Lifecycle!vars
<1>14. CASE Authorize(r)
  BY <1>14, IntentType, MayAppend
     DEF Authorize, AppendEvent, IInv, Local, HonorLabels, Lifecycle!Next, Lifecycle!vars,
         Lifecycle!Climb, Lifecycle!Move, Lifecycle!Fail, Lifecycle!Verify, Lifecycle!Conclude
<1>15. CASE AppendExecuting(r)
  BY <1>15, IntentType, MayAppend
     DEF AppendExecuting, AppendEvent, IInv, Local, HonorLabels, Lifecycle!Next, Lifecycle!vars,
         Lifecycle!Climb, Lifecycle!Move, Lifecycle!Fail, Lifecycle!Verify, Lifecycle!Conclude
<1>16. CASE ApplyRefused(r)
  BY <1>16 DEF ApplyRefused, disk, Lifecycle!vars
<1>17. CASE Apply(r)
  <2>1. CASE mode[r] # "honor"
    BY <1>17, <2>1 DEF Apply, disk, Lifecycle!vars
  <2>2. CASE mode[r] = "honor"
    <3>1. /\ Intent(r) \in Intents /\ UNCHANGED ledger
          /\ ledger[Intent(r)] = "executing" /\ effects[Intent(r)] = 0
          /\ effects' = [effects EXCEPT ![Intent(r)] = effects[Intent(r)] + 1]
      BY <1>17, <2>2, IntentType DEF Apply, disk, IInv, Local
    <3>2. effects' = [effects EXCEPT ![Intent(r)] = 1]
      BY <3>1
    <3>3. Lifecycle!CarryOut(Intent(r))
      BY <3>1, <3>2 DEF Lifecycle!CarryOut
    <3>. QED  BY <3>1, <3>3 DEF Lifecycle!Next
  <2>. QED  BY <2>1, <2>2
<1>18. CASE VerifyPostcondition(r)
  BY <1>18 DEF VerifyPostcondition, disk, Lifecycle!vars
<1>19. CASE RecordSuccess(r)
  BY <1>19 DEF RecordSuccess, disk, Lifecycle!vars
<1>20. CASE AppendVerified(r)
  BY <1>20, IntentType, MayAppend
     DEF AppendVerified, AppendEvent, IInv, Local, HonorLabels, Lifecycle!Next, Lifecycle!vars,
         Lifecycle!Climb, Lifecycle!Move, Lifecycle!Fail, Lifecycle!Verify, Lifecycle!Conclude
<1>21. CASE RecordFailure(r)
  BY <1>21 DEF RecordFailure, disk, Lifecycle!vars
<1>22. CASE ParkFailure(r)
  BY <1>22 DEF ParkFailure, disk, Lifecycle!vars
<1>23. CASE Rollback(r)
  BY <1>23 DEF Rollback, disk, Lifecycle!vars
<1>24. CASE MarkFailed(r)
  BY <1>24, IntentType, MayAppend
     DEF MarkFailed, AppendEvent, IInv, Local, HonorLabels, Lifecycle!Next, Lifecycle!vars,
         Lifecycle!Climb, Lifecycle!Move, Lifecycle!Fail, Lifecycle!Verify, Lifecycle!Conclude
<1>25. CASE AppendConclusion(r)
  <2>1. /\ Intent(r) \in Intents /\ UNCHANGED effects
        /\ \E s \in {"rolled_back", "escalated"} : AppendEvent(Intent(r), s)
        /\ ledger[Intent(r)] = "failed"
    BY <1>25, IntentType DEF AppendConclusion, IInv, Local
  <2>. QED
    BY <2>1 DEF AppendEvent, Lifecycle!Next, Lifecycle!Conclude, Lifecycle!Move
<1>26. CASE Crash(r)
  BY <1>26 DEF Crash, disk, Lifecycle!vars
<1>27. CASE SignerFails(r)
  BY <1>27 DEF SignerFails, disk, Lifecycle!vars
<1>. QED
  BY <1>1, <1>2, <1>3, <1>4, <1>5, <1>6, <1>7, <1>8, <1>9, <1>10, <1>11, <1>12, <1>13,
     <1>14, <1>15, <1>16, <1>17, <1>18, <1>19, <1>20, <1>21, <1>22, <1>23, <1>24, <1>25,
     <1>26, <1>27 DEF RunnerStep, PassStep

\* The loop, with its locks, crashes and retries, implements the lifecycle the
\* architecture document draws: no intent is carried out twice, or before it is
\* on record as executing, or recorded as verified without having been.
THEOREM LifecycleImplemented == Spec => ImplementsLifecycle
<1>1. Init => Lifecycle!Init
  BY DEF Init, Lifecycle!Init
<1>2. IInv /\ [Next]_vars => [Lifecycle!Next]_(Lifecycle!vars)
  <2> SUFFICES ASSUME IInv, [Next]_vars
               PROVE  [Lifecycle!Next]_(Lifecycle!vars)
    OBVIOUS
  <2>1. ASSUME NEW r \in Runners, RunnerStep(r)
        PROVE  [Lifecycle!Next]_(Lifecycle!vars)
    BY <2>1, PassImplements
  <2>2. CASE NewGeneration \/ (\E p \in Proposals : Resolve(p)) \/ UNCHANGED vars
    BY <2>2 DEF NewGeneration, Resolve, vars, disk, Lifecycle!vars
  <2>. QED  BY <2>1, <2>2 DEF Next, RunnerStep
<1>. QED  BY <1>1, <1>2, Inductive, PTL DEF Spec, ImplementsLifecycle, Lifecycle!Spec
=============================================================================
