------------------------ MODULE FleetConverge_proofs ------------------------
(***************************************************************************)
(* Proofs about FleetConverge, for every set of services, every backoff     *)
(* parameter and any number of edits and restarts.                          *)
(***************************************************************************)
EXTENDS FleetConverge, TLAPS

\* Ages stay ages when time passes.
LEMMA OlderType == \A a \in Ages : Older(a) \in Ages
BY BackoffAssumption DEF Ages, Older

\* A fresh tree and a fresh daemon satisfy the inductive invariant.
LEMMA InitIInv == Init => IInv
<1> SUFFICES ASSUME Init PROVE IInv
  OBVIOUS
<1>1. TypeOK
  BY BackoffAssumption, ConvergeAssumption
  DEF Init, TypeOK, Ages, Gates, Stages, Modes, StatusFiles, NoStatus, AllUnitStates
<1>2. LateInv /\ ReadingInv /\ BudgetInv
  BY DEF Init, LateInv, Passed, ReadingInv, BudgetInv
<1>3. CrashLoopReported
  BY BackoffAssumption DEF Init, CrashLoopReported, is_crash_looping
<1> QED
  BY <1>1, <1>2, <1>3 DEF IInv

----------------------------------------------------------------------------
(* Types.                                                                  *)

\* Every step keeps the types; in particular the attempts of an episode never
\* exceed CRASH_LOOP_AFTER, and the entry being converged is still to do.
LEMMA NextTypeOK == TypeOK /\ ReadingInv /\ [Next]_vars => TypeOK'
<1> SUFFICES ASSUME TypeOK, ReadingInv, [Next]_vars PROVE TypeOK'
  OBVIOUS
<1> USE BackoffAssumption, ConvergeAssumption DEF TypeOK
<1>1. CASE StartPass
  BY <1>1 DEF StartPass, tree, tracker, Modes, Stages, Ages
<1>2. ASSUME NEW s \in Services, SkipEntry(s) PROVE TypeOK'
  BY <1>2 DEF SkipEntry, tree, tracker, reading
<1>3. ASSUME NEW s \in Services, ObserveUnit(s) PROVE TypeOK'
  BY <1>3 DEF ObserveUnit, tree, tracker, reading
<1>11. CASE ReadOptIn
  BY <1>11 DEF ReadOptIn, tree, tracker, Modes, Stages
<1>12. ASSUME NEW s \in Services, ReadPlacement(s) PROVE TypeOK'
  BY <1>12 DEF ReadPlacement, tree, tracker
<1>13. ASSUME NEW s \in Services, ReadSpec(s) PROVE TypeOK'
  BY <1>13 DEF ReadSpec, tree, tracker
<1>14. CASE ReadOn
  BY <1>14 DEF ReadOn, tree, tracker, Stages
<1>15. CASE Degrade
  BY <1>15 DEF Degrade, tree, tracker, Stages, ReadingInv
<1>4. ASSUME NEW s \in Services, Heal(s) PROVE TypeOK'
  <2>1. attempts[s] \in 0..(CrashLoopAfter - 1)
    BY <1>4 DEF Heal, Heals, is_crash_looping
  <2>2. attempts' \in [Services -> 0..CrashLoopAfter] /\ age' \in [Services -> Ages]
    BY <1>4, <2>1 DEF Heal
  <2>3. status' \in [Services -> StatusFiles]
    BY <1>4 DEF Heal, Report, StatusFiles, is_crash_looping
  <2>4. late' \in [Gates -> [Services -> Nat]] /\ spree' \in [Services -> Nat]
    BY <1>4 DEF Heal
  <2> QED
    BY <1>4, <2>2, <2>3, <2>4 DEF Heal, Leave, reading, tree
<1>5. ASSUME NEW s \in Services, LeaveAlone(s) PROVE TypeOK'
  <2>1. attempts' \in [Services -> 0..CrashLoopAfter] /\ age' \in [Services -> Ages]
    BY <1>5 DEF LeaveAlone, AfterHealthy, Ages
  <2>2. status' \in [Services -> StatusFiles]
    BY <1>5 DEF LeaveAlone, Report, StatusFiles, is_crash_looping
  <2>3. spree' \in [Services -> Nat]
    BY <1>5 DEF LeaveAlone
  <2> QED
    BY <1>5, <2>1, <2>2, <2>3 DEF LeaveAlone, Leave, reading, tree
<1>6. CASE DaemonRestart
  BY <1>6 DEF DaemonRestart, tree, Ages, Stages
<1>7. CASE Edit
  <2>1. late' \in [Gates -> [Services -> Nat]]
    BY <1>7 DEF Edit, Recount
  <2>2. freezeFile' \in FreezeFiles /\ spec' \in [Services -> SpecClasses]
    BY <1>7 DEF Edit
  <2>3. actuate' \in BOOLEAN
    BY <1>7, Zenon DEF Edit
  <2>4. placed' \in SUBSET Services
    BY <1>7 DEF Edit
  <2> QED
    BY <1>7, <2>1, <2>2, <2>3, <2>4 DEF Edit, tracker, pass, reading
<1>8. ASSUME NEW s \in Services, UnitChanges(s) PROVE TypeOK'
  BY <1>8 DEF UnitChanges, tree, tracker, pass, reading
<1>9. CASE Tick
  BY <1>9, OlderType DEF Tick, tree, reading
<1>10. CASE UNCHANGED vars
  BY <1>10 DEF vars
<1> QED
  BY <1>1, <1>2, <1>3, <1>4, <1>5, <1>6, <1>7, <1>8, <1>9, <1>10, <1>11, <1>12, <1>13, <1>14,
     <1>15 DEF Next, Daemon

----------------------------------------------------------------------------
(* Late heals.                                                             *)

\* No service is being converged while the pass reads, and then nothing is left to read.
LEMMA NextReadingInv == TypeOK /\ ReadingInv /\ [Next]_vars => ReadingInv'
<1> SUFFICES ASSUME TypeOK, ReadingInv, [Next]_vars PROVE ReadingInv'
  OBVIOUS
<1>1. CASE StartPass \/ ReadOptIn \/ ReadOn \/ Degrade \/ DaemonRestart
  BY <1>1 DEF StartPass, ReadOptIn, ReadOn, Degrade, DaemonRestart, ReadingInv
<1>2. ASSUME NEW s \in Services, ReadPlacement(s) \/ ReadSpec(s) PROVE ReadingInv'
  BY <1>2 DEF ReadPlacement, ReadSpec, ReadingInv
<1>3. CASE UNCHANGED <<reading, cur, mode>>
  BY <1>3 DEF reading, ReadingInv
<1>4. ASSUME NEW s \in Services, SkipEntry(s) \/ ObserveUnit(s) \/ Heal(s) \/ LeaveAlone(s)
      PROVE  ReadingInv'
  BY <1>4 DEF SkipEntry, ObserveUnit, Heal, LeaveAlone, Leave, reading, ReadingInv
<1>5. ASSUME NEW s \in Services, UnitChanges(s) PROVE UNCHANGED <<reading, cur, mode>>
  BY <1>5 DEF UnitChanges, pass
<1>6. Edit \/ Tick \/ UNCHANGED vars => UNCHANGED <<reading, cur, mode>>
  BY DEF Edit, Tick, pass, vars, reading
<1> QED
  BY <1>1, <1>2, <1>3, <1>4, <1>5, <1>6 DEF Next, Daemon

\* A gate that looks the same, with the same history, stays harmless as long as the pass
\* lets nothing more through it.
LEMMA LateKept ==
    ASSUME LateInv, NEW g \in Gates, NEW s \in Services, Open(g, s)' <=> Open(g, s),
           late'[g][s] = late[g][s], Passed(g, s)' => Passed(g, s) \/ Open(g, s)
    PROVE  (Open(g, s) => late[g][s] = 0)' /\ (late[g][s] <= 1)'
           /\ (late[g][s] # 0 => ~Passed(g, s))'
BY DEF LateInv

\* Every step keeps LateInv: a heal takes its entry off the pass, and a pass lets through
\* a gate only what it finds open.
LEMMA NextLateInv == TypeOK /\ ReadingInv /\ LateInv /\ [Next]_vars => LateInv'
<1> SUFFICES ASSUME TypeOK, ReadingInv, LateInv, [Next]_vars, NEW g \in Gates, NEW s \in Services
             PROVE  /\ (Open(g, s) => late[g][s] = 0)' /\ (late[g][s] <= 1)'
                    /\ (late[g][s] # 0 => ~Passed(g, s))'
  BY DEF LateInv
<1>0. UNCHANGED tree => (Open(g, s)' <=> Open(g, s))
  BY DEF tree, Open
<1>1. CASE StartPass
  <2>1. UNCHANGED tree /\ late' = late /\ (Passed(g, s)' => Open(g, s))
    BY <1>1 DEF StartPass, Passed, Open, FoundFrozen, Gates
  <2> QED
    BY <1>0, <2>1, LateKept
<1>2. CASE ReadOptIn \/ ReadOn
  <2>1. UNCHANGED tree /\ late' = late
    BY <1>2 DEF ReadOptIn, ReadOn
  <2>2. Passed(g, s)' => Passed(g, s) \/ Open(g, s)
    <3>1. CASE ReadOptIn
      BY <3>1 DEF ReadOptIn, ReadingInv, Passed, Open
    <3>2. CASE ReadOn
      BY <3>2 DEF ReadOn, Passed, Open
    <3> QED
      BY <1>2, <3>1, <3>2
  <2> QED
    BY <1>0, <2>1, <2>2, LateKept
<1>3. ASSUME NEW t \in Services, ReadPlacement(t) \/ ReadSpec(t)
      PROVE  /\ (Open(g, s) => late[g][s] = 0)' /\ (late[g][s] <= 1)'
             /\ (late[g][s] # 0 => ~Passed(g, s))'
  <2>1. UNCHANGED tree /\ late' = late
    BY <1>3 DEF ReadPlacement, ReadSpec
  <2>2. Passed(g, s)' => Passed(g, s) \/ Open(g, s)
    BY <1>3 DEF ReadPlacement, ReadSpec, Passed, Open, Gates, TypeOK
  <2> QED
    BY <1>0, <2>1, <2>2, LateKept
<1>4. ASSUME NEW t \in Services, SkipEntry(t) \/ ObserveUnit(t) \/ LeaveAlone(t) \/ UnitChanges(t)
      PROVE  /\ (Open(g, s) => late[g][s] = 0)' /\ (late[g][s] <= 1)'
             /\ (late[g][s] # 0 => ~Passed(g, s))'
  <2>1. UNCHANGED <<tree, reading, mode, snap, late>> /\ todo' \subseteq todo
    BY <1>4 DEF SkipEntry, ObserveUnit, LeaveAlone, Leave, UnitChanges, pass
  <2>2. Passed(g, s)' => Passed(g, s)
    BY <2>1 DEF Passed, reading
  <2> QED
    BY <1>0, <2>1, <2>2, LateKept
<1>5. ASSUME NEW t \in Services, Heal(t)
      PROVE  /\ (Open(g, s) => late[g][s] = 0)' /\ (late[g][s] <= 1)'
             /\ (late[g][s] # 0 => ~Passed(g, s))'
  <2>1. /\ stage = "converge" /\ t \in todo /\ mode = "actuate" /\ snap[t] = "managed"
        /\ UNCHANGED <<tree, reading, mode, snap>> /\ todo' = todo \ {t}
    <3>1. mode = "actuate" /\ snap[t] = "managed" /\ cur = t
      BY <1>5 DEF Heal, Heals, may_heal
    <3>2. t \in todo
      BY <3>1, ConvergeAssumption DEF TypeOK
    <3>3. stage = "converge"
      BY <3>1, ConvergeAssumption DEF TypeOK, ReadingInv
    <3> QED
      BY <1>5, <3>1, <3>2, <3>3 DEF Heal, Leave
  <2>2. late'[g] = [late[g] EXCEPT ![t] = IF Open(g, t) THEN 0 ELSE @ + 1]
    BY <1>5 DEF Heal
  <2>3. Passed(g, s)' => Passed(g, s)
    BY <2>1 DEF Passed, reading
  <2>4. CASE s # t
    <3>1. late'[g][s] = late[g][s]
      BY <2>2, <2>4 DEF TypeOK
    <3> QED
      BY <1>0, <2>1, <2>3, <3>1, LateKept
  <2>5. CASE s = t
    <3>1. Passed(g, t)
      BY <2>1 DEF Passed, Gates, ReadingInv
    <3>2. late[g][t] = 0
      BY <3>1 DEF LateInv, TypeOK
    <3>3. late'[g][t] = IF Open(g, t) THEN 0 ELSE 1
      BY <2>2, <3>2 DEF TypeOK
    <3>4. ~Passed(g, t)'
      BY <2>1 DEF Passed, reading
    <3> QED
      BY <1>0, <2>1, <2>5, <3>3, <3>4
  <2> QED
    BY <2>4, <2>5
<1>6. CASE DaemonRestart \/ Degrade
  <2>1. UNCHANGED tree /\ late' = late /\ ~Passed(g, s)'
    BY <1>6 DEF DaemonRestart, Degrade, Passed
  <2> QED
    BY <1>0, <2>1, LateKept
<1>7. CASE Edit
  <2>1. late'[g][s] = IF Open(g, s)' THEN 0 ELSE late[g][s]
    BY <1>7 DEF Edit, Recount
  <2>2. Passed(g, s)' <=> Passed(g, s)
    BY <1>7 DEF Edit, pass, reading, Passed
  <2> QED
    BY <2>1, <2>2 DEF LateInv
<1>8. CASE Tick \/ UNCHANGED vars
  <2>1. UNCHANGED <<tree, reading, mode, snap, todo, late>>
    BY <1>8 DEF Tick, vars, tree, reading
  <2>2. Passed(g, s)' <=> Passed(g, s)
    BY <2>1 DEF Passed, reading
  <2> QED
    BY <1>0, <2>1, <2>2, LateKept
<1> QED
  BY <1>1, <1>2, <1>3, <1>4, <1>5, <1>6, <1>7, <1>8 DEF Next, Daemon

----------------------------------------------------------------------------
(* The heal budget and its report.                                         *)

\* Every step keeps the spree within the tracker's count, and keeps the status
\* file in step with a spent budget.
LEMMA NextBudget ==
    TypeOK /\ BudgetInv /\ CrashLoopReported /\ [Next]_vars
        => BudgetInv' /\ CrashLoopReported'
<1> SUFFICES ASSUME TypeOK, BudgetInv, CrashLoopReported, [Next]_vars
             PROVE  BudgetInv' /\ CrashLoopReported'
  OBVIOUS
<1> USE DEF BudgetInv, CrashLoopReported
<1>1. CASE StartPass \/ ReadOptIn \/ ReadOn \/ Degrade
  BY <1>1 DEF StartPass, ReadOptIn, ReadOn, Degrade, tracker, is_crash_looping
<1>11. ASSUME NEW s \in Services, ReadPlacement(s) \/ ReadSpec(s)
       PROVE  BudgetInv' /\ CrashLoopReported'
  BY <1>11 DEF ReadPlacement, ReadSpec, tracker, is_crash_looping
<1>2. ASSUME NEW s \in Services, SkipEntry(s) PROVE BudgetInv' /\ CrashLoopReported'
  BY <1>2 DEF SkipEntry, tracker, is_crash_looping
<1>3. ASSUME NEW s \in Services, ObserveUnit(s) PROVE BudgetInv' /\ CrashLoopReported'
  BY <1>3 DEF ObserveUnit, tracker, is_crash_looping
<1>4. ASSUME NEW s \in Services, Heal(s) PROVE BudgetInv' /\ CrashLoopReported'
  <2>1. /\ attempts' = [attempts EXCEPT ![s] = @ + 1]
        /\ spree' = [spree EXCEPT ![s] = @ + 1]
        /\ Report(s, attempts[s] + 1)
    BY <1>4 DEF Heal
  <2>2. BudgetInv'
    BY <2>1, BackoffAssumption DEF TypeOK
  <2>3. CrashLoopReported'
    BY <2>1 DEF Report, TypeOK, StatusFiles, is_crash_looping
  <2> QED
    BY <2>2, <2>3
<1>5. ASSUME NEW s \in Services, LeaveAlone(s) PROVE BudgetInv' /\ CrashLoopReported'
  <2>1. /\ attempts' = [attempts EXCEPT ![s] = AfterHealthy(s)]
        /\ spree' = [spree EXCEPT ![s] = IF seen = "active" THEN 0 ELSE @]
        /\ Report(s, AfterHealthy(s))
    BY <1>5 DEF LeaveAlone
  <2>2. AfterHealthy(s) \in Nat /\ (seen # "active" => AfterHealthy(s) = attempts[s])
    BY BackoffAssumption DEF AfterHealthy, TypeOK
  <2>3. BudgetInv'
    BY <2>1, <2>2 DEF TypeOK
  <2>4. CrashLoopReported'
    BY <2>1 DEF Report, TypeOK, StatusFiles, is_crash_looping
  <2> QED
    BY <2>3, <2>4
<1>6. CASE DaemonRestart
  BY <1>6, BackoffAssumption DEF DaemonRestart, is_crash_looping
<1>7. CASE Edit
  BY <1>7 DEF Edit, tracker, is_crash_looping
<1>8. ASSUME NEW s \in Services, UnitChanges(s) PROVE BudgetInv' /\ CrashLoopReported'
  BY <1>8 DEF UnitChanges, tracker, is_crash_looping
<1>9. CASE Tick
  BY <1>9 DEF Tick, is_crash_looping
<1>10. CASE UNCHANGED vars
  BY <1>10 DEF vars, is_crash_looping
<1> QED
  BY <1>1, <1>2, <1>3, <1>4, <1>5, <1>6, <1>7, <1>8, <1>9, <1>10, <1>11 DEF Next, Daemon

----------------------------------------------------------------------------
(* The theorems.                                                           *)

\* The inductive invariant holds in every reachable state of the daemon.
THEOREM Invariance == Spec => []IInv
<1>1. IInv /\ [Next]_vars => IInv'
  BY NextTypeOK, NextReadingInv, NextLateInv, NextBudget DEF IInv
<1> QED
  BY InitIInv, <1>1, PTL DEF Spec

\* Type correctness of the daemon's state and of what it writes.
THEOREM TypeCorrect == Spec => []TypeOK
<1>1. IInv => TypeOK
  BY DEF IInv
<1> QED
  BY Invariance, <1>1, PTL

\* From a freeze, an opt-out, a move or a pause on, and as long as it lasts, at most one
\* more heal of a service runs on this node, whatever the interleaving with the reads of
\* a pass (converge.py:415-423).
THEOREM LateHealsBounded == Spec => []AtMostOneLateHeal
<1>1. IInv => AtMostOneLateHeal
  BY DEF IInv, LateInv, AtMostOneLateHeal
<1> QED
  BY Invariance, <1>1, PTL

\* A unit not seen healthy is healed at most CRASH_LOOP_AFTER times in one
\* daemon life (backoff.py:42-57).
THEOREM HealsBounded == Spec => []HealBudget
<1>1. IInv => HealBudget
  BY BackoffAssumption DEF IInv, TypeOK, BudgetInv, HealBudget
<1> QED
  BY Invariance, <1>1, PTL

\* A spent budget is always visible in the node's status file
\* (converge.py:354-392).
THEOREM SpentBudgetReported == Spec => []CrashLoopReported
<1>1. IInv => CrashLoopReported
  BY DEF IInv
<1> QED
  BY Invariance, <1>1, PTL
=============================================================================
