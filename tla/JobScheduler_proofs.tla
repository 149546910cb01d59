------------------------ MODULE JobScheduler_proofs ------------------------
(***************************************************************************)
(* Proofs about JobScheduler and about ManualRun, which extends it, for any *)
(* jobs, any number of worker threads and manual runs, and any number of    *)
(* kills and failed writes.                                                 *)
(***************************************************************************)
EXTENDS ManualRun, TLAPS

\* The start of a daemon without history satisfies the inductive invariant.
LEMMA InitIInv == Init => IInv
<1> SUFFICES ASSUME Init PROVE IInv
  OBVIOUS
<1> USE SchedulerAssumption
<1>1. Blank \in [Jobs -> Times]
  BY DEF Blank, Never, Times
<1>2. NoLock \in [owner : Workers \cup {NoWorker, Gone}, pid : BOOLEAN]
  BY DEF NoLock
<1>3. raced \in BOOLEAN /\ failed \in BOOLEAN
  BY Zenon DEF Init
<1>4. file \in [whole : BOOLEAN, data : [Jobs -> Times]]
  BY <1>1 DEF Init
<1>5. TypeOK
  BY <1>1, <1>2, <1>3, <1>4 DEF Init, TypeOK, Pcs, Never, Times
<1>6. LockInv
  BY DEF Init, LockInv, Holds
<1>7. WriterInv
  BY DEF Init, WriterInv
<1>8. FileCurrent
  BY DEF Init, FileCurrent
<1>9. LeftInv
  BY DEF Init, LeftInv
<1> QED
  BY <1>5, <1>6, <1>7, <1>8, <1>9 DEF IInv

----------------------------------------------------------------------------
(* Types.                                                                  *)

\* The end of a thread keeps the types of its variables.
LEMMA FinishTypes ==
    ASSUME TypeOK, NEW w \in Workers, Finish(w)
    PROVE  /\ pc' \in [Workers -> Pcs] /\ job' \in [Workers -> Jobs \cup {NoJob}]
           /\ fire' \in [Workers -> Times] /\ tries' \in [Workers -> 0..Retries]
           /\ dump' \in [Workers -> [Jobs -> Times]]
           /\ \A v \in Workers : pc'[v] # "idle" => job'[v] \in Jobs /\ fire'[v] \in 0..MaxTime
<1>1. Blank \in [Jobs -> Times] /\ Never \in Times /\ 0 \in 0..Retries
  BY SchedulerAssumption DEF Blank, Never, Times
<1> QED
  BY <1>1 DEF TypeOK, Finish, Goto, Pcs

\* ... and so does the creation of a lock file.
LEMMA CreateTypes ==
    ASSUME TypeOK, NEW w \in Workers, pc[w] # "idle", Create(w)
    PROVE  /\ lock' \in [Jobs -> [owner : Workers \cup {NoWorker, Gone}, pid : BOOLEAN]]
           /\ pc' \in [Workers -> Pcs]
           /\ \A v \in Workers : pc'[v] # "idle" => job[v] \in Jobs /\ fire[v] \in 0..MaxTime
           /\ UNCHANGED <<job, fire, tries, dump>>
<1>1. [owner |-> w, pid |-> FALSE] \in [owner : Workers \cup {NoWorker, Gone}, pid : BOOLEAN]
  OBVIOUS
<1> QED
  BY <1>1 DEF TypeOK, Create, Goto, Pcs

\* Every step keeps the types.
LEMMA NextTypeOK == TypeOK /\ [Next]_vars => TypeOK'
<1> SUFFICES ASSUME TypeOK, [Next]_vars PROVE TypeOK'
  OBVIOUS
<1> USE SchedulerAssumption
<1>a. NoLock \in [owner : Workers \cup {NoWorker, Gone}, pid : BOOLEAN]
  BY DEF NoLock
<1>b. Blank \in [Jobs -> Times] /\ Never \in Times /\ 0 \in 0..Retries
  BY DEF Blank, Never, Times
<1>c. 0..MaxTime \subseteq Times
  BY DEF Times
<1>1. CASE TickStart
  BY <1>1 DEF TickStart, state, worker, TypeOK
<1>2. ASSUME NEW j \in Jobs, CheckJob(j) PROVE TypeOK'
  <2>1. CASE ~is_due(j, mem[j], now)
    BY <1>2, <2>1 DEF CheckJob, state, worker, TypeOK
  <2>2. CASE is_due(j, mem[j], now)
    <3>1. PICK w \in Workers : /\ pc[w] = "idle" /\ Goto(w, "spawned")
                               /\ job' = [job EXCEPT ![w] = j]
                               /\ fire' = [fire EXCEPT ![w] = now]
      BY <1>2, <2>2 DEF CheckJob
    <3>2. now \in Times /\ now \in 0..MaxTime
      BY <1>c DEF TypeOK
    <3>3. /\ todo' = todo \ {j}
          /\ UNCHANGED <<tries, dump, clock, left, broken, now, state, lock, raced, faults>>
      BY <1>2, <2>2 DEF CheckJob
    <3> HIDE DEF Times
    <3>4. /\ pc' \in [Workers -> Pcs] /\ job' \in [Workers -> Jobs \cup {NoJob}]
          /\ fire' \in [Workers -> Times]
          /\ \A v \in Workers : pc'[v] # "idle" => job'[v] \in Jobs /\ fire'[v] \in 0..MaxTime
      BY <3>1, <3>2 DEF Goto, TypeOK, Pcs
    <3> QED
      BY <3>3, <3>4 DEF state, TypeOK
  <2> QED
    BY <2>1, <2>2
<1>3. ASSUME NEW w \in Workers, TryOpen(w) PROVE TypeOK'
  <2>1. CASE Create(w)
    BY <1>3, <2>1, CreateTypes DEF TryOpen, tick, state, TypeOK
  <2>2. CASE ~Create(w)
    BY <1>3, <2>2 DEF TryOpen, Goto, tick, state, TypeOK, Pcs
  <2> QED
    BY <2>1, <2>2
<1>4. ASSUME NEW w \in Workers, Judge(w) PROVE TypeOK'
  <2>1. CASE is_stale(lock[job[w]])
    <3>1. raced' \in BOOLEAN
      BY <1>4, <2>1, Zenon DEF Judge
    <3> QED
      BY <1>4, <2>1, <3>1 DEF Judge, Goto, tick, state, TypeOK, Pcs
  <2>2. CASE ~is_stale(lock[job[w]])
    BY <1>4, <2>2, FinishTypes DEF Judge, tick, state, TypeOK
  <2> QED
    BY <2>1, <2>2
<1>5. ASSUME NEW w \in Workers, Clear(w) PROVE TypeOK'
  BY <1>5, <1>a DEF Clear, Goto, tick, state, TypeOK, Pcs
<1>6. ASSUME NEW w \in Workers, Reopen(w) PROVE TypeOK'
  <2>1. CASE Create(w)
    BY <1>6, <2>1, CreateTypes DEF Reopen, tick, state, TypeOK
  <2>2. CASE ~Create(w)
    BY <1>6, <2>2, FinishTypes DEF Reopen, tick, state, TypeOK
  <2> QED
    BY <2>1, <2>2
<1>7. ASSUME NEW w \in Workers, WritePid(w) PROVE TypeOK'
  <2>1. lock' \in [Jobs -> [owner : Workers \cup {NoWorker, Gone}, pid : BOOLEAN]]
    <3> DEFINE R == [owner : Workers \cup {NoWorker, Gone}, pid : BOOLEAN]
    <3>1. job[w] \in Jobs /\ lock \in [Jobs -> R] /\ lock[job[w]] \in R
      BY <1>7 DEF WritePid, TypeOK
    <3>2. [lock[job[w]] EXCEPT !.pid = TRUE] \in R
      BY <3>1
    <3> HIDE DEF R
    <3>3. [lock EXCEPT ![job[w]].pid = TRUE] \in [Jobs -> R]
      BY <3>1, <3>2
    <3>4. lock' \in [Jobs -> R]
      BY <1>7, <3>1, <3>3 DEF WritePid
    <3> QED
      BY <3>4 DEF R
  <2> QED
    BY <1>7, <2>1 DEF WritePid, Goto, tick, state, TypeOK, Pcs
<1>8. ASSUME NEW w \in Workers, PidFails(w) PROVE TypeOK'
  BY <1>8 DEF PidFails, Fault, Goto, tick, state, TypeOK, Pcs
<1>9. ASSUME NEW w \in Workers, Release(w) PROVE TypeOK'
  <2>1. lock' \in [Jobs -> [owner : Workers \cup {NoWorker, Gone}, pid : BOOLEAN]]
    BY <1>9, <1>a DEF Release, TypeOK
  <2> QED
    BY <1>9, <2>1, FinishTypes DEF Release, tick, state, TypeOK
<1>10. ASSUME NEW w \in Workers, Attempt(w) PROVE TypeOK'
  <2>1. tries' \in [Workers -> 0..Retries]
    <3>1. CASE UNCHANGED tries
      BY <3>1 DEF TypeOK
    <3>2. CASE MayRetry(w) /\ tries' = [tries EXCEPT ![w] = @ + 1]
      <4>1. tries[w] + 1 \in 0..Retries
        BY <3>2 DEF MayRetry, TypeOK
      <4> QED
        BY <3>2, <4>1 DEF TypeOK
    <3> QED
      BY <1>10, <3>1, <3>2 DEF Attempt
  <2>2. pc' \in [Workers -> Pcs] /\ \A v \in Workers : pc'[v] # "idle" => pc[v] # "idle"
    BY <1>10 DEF Attempt, Goto, TypeOK, Pcs
  <2> QED
    BY <1>10, <2>1, <2>2 DEF Attempt, tick, state, TypeOK
<1>10a. ASSUME NEW w \in Workers, AttemptRaises(w) PROVE TypeOK'
  <2>1. faults' \in 0..MaxFaults
    BY <1>10a DEF AttemptRaises, Fault, TypeOK
  <2> QED
    BY <1>10a, <2>1 DEF AttemptRaises, Goto, tick, state, TypeOK, Pcs
<1>11. ASSUME NEW w \in Workers, Record(w) PROVE TypeOK'
  <2>1. mem' \in [Jobs -> Times]
    BY <1>11, <1>c DEF Record, Remember, TypeOK
  <2>2. file' \in [whole : BOOLEAN, data : [Jobs -> Times]]
    BY <1>11 DEF Record, TypeOK
  <2> QED
    BY <1>11, <2>1, <2>2 DEF Record, Goto, tick, TypeOK, Pcs
<1>12. ASSUME NEW w \in Workers, Flush(w) PROVE TypeOK'
  BY <1>12 DEF Flush, Goto, tick, TypeOK, Pcs
<1>13. ASSUME NEW w \in Workers, RecordFails(w) PROVE TypeOK'
  <2>1. mem' \in [Jobs -> Times]
    BY <1>13, <1>c DEF RecordFails, Remember, TypeOK
  <2> QED
    BY <1>13, <2>1 DEF RecordFails, Fault, Goto, tick, TypeOK, Pcs
<1>14. ASSUME NEW w \in Workers, FlushFails(w) PROVE TypeOK'
  BY <1>14 DEF FlushFails, Fault, Goto, tick, TypeOK, Pcs
<1>15. ASSUME NEW w \in Workers, OpenFails(w) PROVE TypeOK'
  BY <1>15, FinishTypes DEF OpenFails, Fault, tick, state, TypeOK
<1>16. CASE Restart
  <2>1. mem' \in [Jobs -> Times]
    BY <1>16, <1>b DEF Restart, Loaded, TypeOK
  <2>2. lock' \in [Jobs -> [owner : Workers \cup {NoWorker, Gone}, pid : BOOLEAN]]
    BY <1>16, <1>a DEF Restart, TypeOK
  <2>3. left' \subseteq [job : ChildJobs, by : Workers, fault : 0..MaxFaults]
    <3>1. Children \subseteq [job : ChildJobs, by : Workers, fault : 0..MaxFaults]
      BY DEF Children, TypeOK
    <3> QED
      BY <1>16, <3>1 DEF Restart, TypeOK
  <2> QED
    BY <1>16, <2>1, <2>2, <2>3, <1>b DEF Restart, Fault, TypeOK, Pcs
<1>16a. ASSUME NEW c \in left, ChildEnds(c) PROVE TypeOK'
  BY <1>16a DEF ChildEnds, tick, state, worker, TypeOK
<1>17. CASE Time
  BY <1>17 DEF Time, tick, state, worker, TypeOK
<1>18. CASE UNCHANGED vars
  BY <1>18 DEF vars, TypeOK
<1> QED
  BY <1>1, <1>2, <1>3, <1>4, <1>5, <1>6, <1>7, <1>8, <1>9, <1>10, <1>11, <1>12, <1>13,
     <1>14, <1>15, <1>16, <1>17, <1>18, <1>10a, <1>16a DEF Next, Tick, Work, Acquire, Body

----------------------------------------------------------------------------
(* The lock file.                                                          *)

\* Once two workers raced for a stale file, that is remembered.
LEMMA RacedStays == ASSUME [Next]_vars, raced PROVE raced'
<1>1. ASSUME NEW w \in Workers, Judge(w) PROVE raced'
  BY <1>1, Zenon DEF Judge
<1>2. ASSUME NEW w \in Workers, Acquire(w), ~Judge(w) PROVE raced' = raced
  BY <1>2, Zenon DEF Acquire, TryOpen, OpenFails, Clear, Reopen, WritePid, PidFails
<1>3. ASSUME NEW w \in Workers, Body(w) \/ Release(w) PROVE raced' = raced
  BY <1>3, Zenon DEF Body, Attempt, AttemptRaises, Record, Flush, RecordFails, FlushFails,
                     Release
<1>4. CASE Tick \/ Restart \/ (\E c \in left : ChildEnds(c)) \/ Time \/ UNCHANGED vars
  BY <1>4, Zenon DEF Tick, TickStart, CheckJob, Restart, ChildEnds, Time, vars
<1> QED
  BY <1>1, <1>2, <1>3, <1>4, Zenon DEF Next, Work

\* A worker that keeps its job, that moves neither into nor out of the body
\* and does not come to judge a file stale, leaves LockInv as it is when it
\* leaves the lock files alone.
LEMMA LocksAlone ==
    ASSUME TypeOK, LockInv, ~raced, UNCHANGED lock,
           \A w \in Workers : /\ Holds(w)' => Holds(w) /\ job'[w] = job[w]
                              /\ pc'[w] = "stale" => pc[w] = "stale" /\ job'[w] = job[w]
    PROVE  LockInv'
<1>1. /\ \A w \in Workers : Holds(w) => lock[job[w]].owner = w
      /\ \A w \in Workers : pc[w] = "stale" => is_stale(lock[job[w]])
      /\ \A v, w \in Workers : (pc[v] = "stale" /\ pc[w] = "stale" /\ job[v] = job[w]) => v = w
  BY Zenon DEF LockInv
<1>2. \A w \in Workers : Holds(w)' => lock'[job'[w]].owner = w
  BY <1>1
<1>3. \A w \in Workers : pc'[w] = "stale" => is_stale(lock'[job'[w]])
  BY <1>1
<1>4. \A v, w \in Workers : (pc'[v] = "stale" /\ pc'[w] = "stale" /\ job'[v] = job'[w]) => v = w
  BY <1>1
<1> QED
  BY <1>2, <1>3, <1>4 DEF LockInv, is_stale

\* A worker that creates the lock file of its job becomes its one holder.
LEMMA CreateKeepsLocks ==
    ASSUME TypeOK, LockInv, ~raced, NEW w \in Workers,
           pc[w] \in {"spawned", "cleared"}, Create(w)
    PROVE  LockInv'
<1> USE SchedulerAssumption
<1>1. /\ \A v \in Workers : Holds(v) => lock[job[v]].owner = v
      /\ \A v \in Workers : pc[v] = "stale" => is_stale(lock[job[v]])
      /\ \A u, v \in Workers : (pc[u] = "stale" /\ pc[v] = "stale" /\ job[u] = job[v]) => u = v
  BY Zenon DEF LockInv
<1>2. job[w] \in Jobs /\ job' = job /\ lock[job[w]].owner = NoWorker /\ ~lock[job[w]].pid
  BY DEF Create, TypeOK, NoLock
<1>3. \A v \in Workers : pc'[v] = IF v = w THEN "opened" ELSE pc[v]
  BY DEF Create, Goto, TypeOK
<1>4. \A v \in Workers : Holds(v) \/ pc[v] = "stale" => job[v] \in Jobs /\ job[v] # job[w]
  BY <1>1, <1>2 DEF Holds, is_stale, TypeOK
<1>5. \A j \in Jobs : lock'[j] = IF j = job[w] THEN [owner |-> w, pid |-> FALSE] ELSE lock[j]
  BY DEF Create, TypeOK
<1>6. \A v \in Workers : Holds(v)' => lock'[job'[v]].owner = v
  BY <1>1, <1>2, <1>3, <1>4, <1>5 DEF Holds
<1>7. \A v \in Workers : pc'[v] = "stale" => is_stale(lock'[job'[v]])
  BY <1>1, <1>2, <1>3, <1>4, <1>5
<1>8. \A u, v \in Workers : (pc'[u] = "stale" /\ pc'[v] = "stale" /\ job'[u] = job'[v]) => u = v
  BY <1>1, <1>2, <1>3
<1> QED
  BY <1>6, <1>7, <1>8 DEF LockInv, is_stale

\* A worker that removes a file it holds, or the stale one it alone has
\* judged, leaves the other workers' files alone.
LEMMA RemoveKeepsLocks ==
    ASSUME TypeOK, LockInv, ~raced, NEW w \in Workers,
           pc[w] \in {"stale", "leaving"}, lock' = [lock EXCEPT ![job[w]] = NoLock],
           pc'[w] \in {"cleared", "idle"},
           \A v \in Workers \ {w} : pc'[v] = pc[v] /\ job'[v] = job[v]
    PROVE  LockInv'
<1> USE SchedulerAssumption
<1>1. /\ \A v \in Workers : Holds(v) => lock[job[v]].owner = v
      /\ \A v \in Workers : pc[v] = "stale" => is_stale(lock[job[v]])
      /\ \A u, v \in Workers : (pc[u] = "stale" /\ pc[v] = "stale" /\ job[u] = job[v]) => u = v
  BY Zenon DEF LockInv
<1>2. job[w] \in Jobs /\ \A v \in Workers : Holds(v) \/ pc[v] = "stale" => job[v] \in Jobs
  BY DEF TypeOK, Holds
<1>3. \A v \in Workers \ {w} : Holds(v) \/ pc[v] = "stale" => job[v] # job[w]
  BY <1>1 DEF Holds, is_stale
<1>4. \A j \in Jobs : j # job[w] => lock'[j] = lock[j]
  BY DEF TypeOK
<1>5. \A v \in Workers : Holds(v)' \/ pc'[v] = "stale" => v # w
  BY DEF Holds
<1>6. \A v \in Workers \ {w} : Holds(v)' <=> Holds(v)
  BY DEF Holds
<1>7. \A v \in Workers : Holds(v)' => lock'[job'[v]].owner = v
  BY <1>1, <1>2, <1>3, <1>4, <1>5, <1>6
<1>8. \A v \in Workers : pc'[v] = "stale" => is_stale(lock'[job'[v]])
  BY <1>1, <1>2, <1>3, <1>4, <1>5
<1>9. \A u, v \in Workers : (pc'[u] = "stale" /\ pc'[v] = "stale" /\ job'[u] = job'[v]) => u = v
  BY <1>1, <1>5
<1> QED
  BY <1>7, <1>8, <1>9 DEF LockInv, is_stale

\* Every step keeps the lock files' invariant.
LEMMA NextLockInv == TypeOK /\ LockInv /\ [Next]_vars => LockInv'
<1> SUFFICES ASSUME TypeOK, LockInv, [Next]_vars, ~raced' PROVE LockInv'
  BY Zenon DEF LockInv
<1> USE SchedulerAssumption
<1>a. ~raced
  BY RacedStays, Zenon
<1> DEFINE Same == \A v \in Workers :
                /\ Holds(v)' => Holds(v) /\ job'[v] = job[v]
                /\ pc'[v] = "stale" => pc[v] = "stale" /\ job'[v] = job[v]
<1>1. CASE TickStart
  BY <1>1, <1>a, LocksAlone DEF TickStart, worker, Holds
<1>2. ASSUME NEW j \in Jobs, CheckJob(j) PROVE LockInv'
  <2>1. Same /\ UNCHANGED lock
    BY <1>2 DEF CheckJob, Goto, worker, Holds, TypeOK
  <2> QED
    BY <2>1, <1>a, LocksAlone
<1>3. ASSUME NEW w \in Workers, TryOpen(w) PROVE LockInv'
  <2>1. CASE Create(w)
    BY <1>3, <2>1, <1>a, CreateKeepsLocks DEF TryOpen
  <2>2. CASE ~Create(w)
    <3>1. Same /\ UNCHANGED lock
      BY <1>3, <2>2 DEF TryOpen, Goto, Holds, TypeOK
    <3> QED
      BY <3>1, <1>a, LocksAlone
  <2> QED
    BY <2>1, <2>2
<1>4. ASSUME NEW w \in Workers, Judge(w) PROVE LockInv'
  <2>1. CASE is_stale(lock[job[w]])
    <3>1. ~\E v \in Workers : job[v] = job[w] /\ pc[v] = "stale"
      BY <1>4, <2>1, Zenon DEF Judge
    <3>2. pc[w] = "exists" /\ UNCHANGED <<lock, job>>
          /\ \A v \in Workers : pc'[v] = IF v = w THEN "stale" ELSE pc[v]
      BY <1>4, <2>1 DEF Judge, Goto, TypeOK
    <3>3. /\ \A v \in Workers : Holds(v) => lock[job[v]].owner = v
          /\ \A v \in Workers : pc[v] = "stale" => is_stale(lock[job[v]])
          /\ \A u, v \in Workers : (pc[u] = "stale" /\ pc[v] = "stale" /\ job[u] = job[v]) => u = v
      BY <1>a, Zenon DEF LockInv
    <3>4. \A v \in Workers : Holds(v)' => lock'[job'[v]].owner = v
      BY <3>2, <3>3 DEF Holds
    <3>5. \A v \in Workers : pc'[v] = "stale" => is_stale(lock'[job'[v]])
      BY <2>1, <3>2, <3>3
    <3>6. \A u, v \in Workers : (pc'[u] = "stale" /\ pc'[v] = "stale" /\ job'[u] = job'[v]) => u = v
      BY <3>1, <3>2, <3>3
    <3> QED
      BY <3>4, <3>5, <3>6 DEF LockInv, is_stale
  <2>2. CASE ~is_stale(lock[job[w]])
    <3>1. Same /\ UNCHANGED lock
      BY <1>4, <2>2 DEF Judge, Finish, Goto, Holds, TypeOK
    <3> QED
      BY <3>1, <1>a, LocksAlone
  <2> QED
    BY <2>1, <2>2
<1>5. ASSUME NEW w \in Workers, Clear(w) PROVE LockInv'
  <2>1. /\ pc[w] = "stale" /\ pc'[w] = "cleared" /\ lock' = [lock EXCEPT ![job[w]] = NoLock]
        /\ \A v \in Workers \ {w} : pc'[v] = pc[v] /\ job'[v] = job[v]
    BY <1>5 DEF Clear, Goto, TypeOK
  <2> QED
    BY <2>1, <1>a, RemoveKeepsLocks
<1>6. ASSUME NEW w \in Workers, Reopen(w) PROVE LockInv'
  <2>1. CASE Create(w)
    BY <1>6, <2>1, <1>a, CreateKeepsLocks DEF Reopen
  <2>2. CASE ~Create(w)
    <3>1. Same /\ UNCHANGED lock
      BY <1>6, <2>2 DEF Reopen, Finish, Goto, Holds, TypeOK
    <3> QED
      BY <3>1, <1>a, LocksAlone
  <2> QED
    BY <2>1, <2>2
<1>7. ASSUME NEW w \in Workers, WritePid(w) PROVE LockInv'
  <2>1. pc[w] = "opened" /\ job' = job
        /\ \A v \in Workers : pc'[v] = IF v = w THEN "running" ELSE pc[v]
    BY <1>7 DEF WritePid, Goto, TypeOK
  <2>2. /\ \A v \in Workers : Holds(v) => lock[job[v]].owner = v
        /\ \A v \in Workers : pc[v] = "stale" => is_stale(lock[job[v]])
        /\ \A u, v \in Workers : (pc[u] = "stale" /\ pc[v] = "stale" /\ job[u] = job[v]) => u = v
    BY <1>a, Zenon DEF LockInv
  <2>3. job[w] \in Jobs /\ lock[job[w]].owner = w
    BY <2>1, <2>2 DEF Holds, TypeOK
  <2>4. \A j \in Jobs : lock'[j].owner = lock[j].owner /\ (j # job[w] => lock'[j] = lock[j])
    BY <1>7, <2>3 DEF WritePid, TypeOK
  <2>5. \A v \in Workers : Holds(v)' => Holds(v) /\ job[v] \in Jobs
    BY <2>1 DEF Holds, TypeOK
  <2>6. \A v \in Workers : pc'[v] = "stale" => pc[v] = "stale" /\ job[v] \in Jobs /\ job[v] # job[w]
    BY <2>1, <2>2, <2>3 DEF is_stale, TypeOK
  <2>7. \A v \in Workers : Holds(v)' => lock'[job'[v]].owner = v
    BY <2>1, <2>2, <2>4, <2>5
  <2>8. \A v \in Workers : pc'[v] = "stale" => is_stale(lock'[job'[v]])
    BY <2>1, <2>2, <2>4, <2>6
  <2>9. \A u, v \in Workers : (pc'[u] = "stale" /\ pc'[v] = "stale" /\ job'[u] = job'[v]) => u = v
    BY <2>1, <2>2
  <2> QED
    BY <2>7, <2>8, <2>9 DEF LockInv, is_stale
<1>8. ASSUME NEW w \in Workers, PidFails(w) PROVE LockInv'
  <2>1. Same /\ UNCHANGED lock
    BY <1>8 DEF PidFails, Goto, Holds, TypeOK
  <2> QED
    BY <2>1, <1>a, LocksAlone
<1>9. ASSUME NEW w \in Workers, Release(w) PROVE LockInv'
  <2>1. /\ pc[w] = "leaving" /\ pc'[w] = "idle" /\ lock' = [lock EXCEPT ![job[w]] = NoLock]
        /\ \A v \in Workers \ {w} : pc'[v] = pc[v] /\ job'[v] = job[v]
    BY <1>9 DEF Release, Finish, Goto, TypeOK
  <2> QED
    BY <2>1, <1>a, RemoveKeepsLocks
<1>10. ASSUME NEW w \in Workers, Attempt(w) PROVE LockInv'
  <2>1. Same /\ UNCHANGED lock
    BY <1>10 DEF Attempt, Goto, Holds, TypeOK
  <2> QED
    BY <2>1, <1>a, LocksAlone
<1>11. ASSUME NEW w \in Workers, Record(w) \/ RecordFails(w) PROVE LockInv'
  <2>1. Same /\ UNCHANGED lock
    BY <1>11 DEF Record, RecordFails, Goto, Holds, TypeOK
  <2> QED
    BY <2>1, <1>a, LocksAlone
<1>12. ASSUME NEW w \in Workers, Flush(w) \/ FlushFails(w) PROVE LockInv'
  <2>1. Same /\ UNCHANGED lock
    BY <1>12 DEF Flush, FlushFails, Goto, Holds, TypeOK
  <2> QED
    BY <2>1, <1>a, LocksAlone
<1>13. CASE Restart
  BY <1>13 DEF Restart, LockInv, Holds
<1>14. ASSUME NEW w \in Workers, OpenFails(w) PROVE LockInv'
  <2>1. Same /\ UNCHANGED lock
    BY <1>14 DEF OpenFails, Finish, Goto, Holds, TypeOK
  <2> QED
    BY <2>1, <1>a, LocksAlone
<1>15. CASE Time \/ UNCHANGED vars \/ \E c \in left : ChildEnds(c)
  BY <1>15, <1>a, LocksAlone DEF Time, ChildEnds, worker, vars, Holds
<1>16. ASSUME NEW w \in Workers, AttemptRaises(w) PROVE LockInv'
  <2>1. Same /\ UNCHANGED lock
    BY <1>16 DEF AttemptRaises, Goto, Holds, TypeOK
  <2> QED
    BY <2>1, <1>a, LocksAlone
<1> QED
  BY <1>1, <1>2, <1>3, <1>4, <1>5, <1>6, <1>7, <1>8, <1>9, <1>10, <1>11, <1>12, <1>13,
     <1>14, <1>15, <1>16 DEF Next, Tick, Work, Acquire, Body
----------------------------------------------------------------------------
(* state.json.                                                             *)

\* Every step keeps the writer of state.json apart from the others.
LEMMA NextWriterInv == TypeOK /\ WriterInv /\ [Next]_vars => WriterInv'
<1> SUFFICES ASSUME TypeOK, WriterInv, [Next]_vars PROVE WriterInv'
  OBVIOUS
<1> USE SchedulerAssumption DEF WriterInv
<1>1. CASE TickStart \/ Time \/ (\E c \in left : ChildEnds(c)) \/ UNCHANGED vars
  BY <1>1 DEF TickStart, Time, ChildEnds, state, worker, vars
<1>2. ASSUME NEW j \in Jobs, CheckJob(j) PROVE WriterInv'
  <2>1. UNCHANGED <<mem, writer, dump>>
    BY <1>2 DEF CheckJob, state, worker
  <2>2. \A v \in Workers : pc'[v] = "flush" <=> pc[v] = "flush"
    BY <1>2 DEF CheckJob, Goto, worker, TypeOK
  <2> QED
    BY <2>1, <2>2
<1>3. ASSUME NEW w \in Workers, Acquire(w) \/ Attempt(w) \/ AttemptRaises(w) \/ Release(w) PROVE WriterInv'
  <2>1. UNCHANGED <<mem, writer>>
    BY <1>3 DEF Acquire, TryOpen, OpenFails, Judge, Clear, Reopen, WritePid, PidFails, Attempt,
                AttemptRaises, Release, state
  <2>2. \A v \in Workers : pc'[v] = "flush" <=> pc[v] = "flush"
    BY <1>3 DEF Acquire, TryOpen, OpenFails, Judge, Clear, Reopen, WritePid, PidFails, Attempt,
                AttemptRaises, Release, Create, Finish, Goto, TypeOK
  <2>3. \A v \in Workers : pc'[v] = "flush" => dump'[v] = dump[v]
    BY <1>3 DEF Acquire, TryOpen, OpenFails, Judge, Clear, Reopen, WritePid, PidFails, Attempt,
                AttemptRaises, Release, Create, Finish, Goto, TypeOK
  <2> QED
    BY <2>1, <2>2, <2>3
<1>4. ASSUME NEW w \in Workers, Record(w) PROVE WriterInv'
  <2>1. writer = NoWorker /\ writer' = w /\ \A v \in Workers : pc[v] # "flush"
    BY <1>4 DEF Record, LockFree
  <2>2. \A v \in Workers : pc'[v] = IF v = w THEN "flush" ELSE pc[v]
    BY <1>4 DEF Record, Goto, TypeOK
  <2>3. dump'[w] = mem'
    BY <1>4 DEF Record, TypeOK
  <2> QED
    BY <2>1, <2>2, <2>3
<1>5. ASSUME NEW w \in Workers, RecordFails(w) PROVE WriterInv'
  <2>1. writer = NoWorker /\ writer' = writer /\ \A v \in Workers : pc[v] # "flush"
    BY <1>5 DEF RecordFails, LockFree
  <2>2. \A v \in Workers : pc'[v] = IF v = w THEN "leaving" ELSE pc[v]
    BY <1>5 DEF RecordFails, Goto, TypeOK
  <2> QED
    BY <2>1, <2>2
<1>6. ASSUME NEW w \in Workers, Flush(w) \/ FlushFails(w) PROVE WriterInv'
  <2>1. writer = w /\ writer' = NoWorker
    BY <1>6 DEF Flush, FlushFails
  <2>2. \A v \in Workers : pc'[v] = IF v = w THEN "leaving" ELSE pc[v]
    BY <1>6 DEF Flush, FlushFails, Goto, TypeOK
  <2> QED
    BY <2>1, <2>2
<1>7. CASE Restart
  BY <1>7 DEF Restart
<1> QED
  BY <1>1, <1>2, <1>3, <1>4, <1>5, <1>6, <1>7 DEF Next, Tick, Work, Body

\* Every step keeps state.json current.
LEMMA NextFileCurrent ==
    TypeOK /\ WriterInv /\ FileCurrent /\ [Next]_vars => FileCurrent'
<1> SUFFICES ASSUME TypeOK, WriterInv, FileCurrent, [Next]_vars,
                    file'.whole, ~failed', \A w \in Workers : pc'[w] # "flush"
             PROVE  file'.data = mem'
  BY Zenon DEF FileCurrent
<1>1. ASSUME UNCHANGED state, \A v \in Workers : pc'[v] # "flush" => pc[v] # "flush"
      PROVE  file'.data = mem'
  BY <1>1 DEF FileCurrent, state
<1>2. CASE TickStart \/ Time \/ \E c \in left : ChildEnds(c)
  BY <1>1, <1>2 DEF TickStart, Time, ChildEnds, worker
<1>3. ASSUME NEW j \in Jobs, CheckJob(j) PROVE file'.data = mem'
  <2>1. UNCHANGED state /\ \A v \in Workers : pc'[v] # "flush" => pc[v] # "flush"
    BY <1>3 DEF CheckJob, Goto, worker, TypeOK
  <2> QED
    BY <1>1, <2>1
<1>4. ASSUME NEW w \in Workers, Acquire(w) \/ Attempt(w) \/ AttemptRaises(w) \/ Release(w)
      PROVE  file'.data = mem'
  <2>1. UNCHANGED state
    BY <1>4 DEF Acquire, TryOpen, OpenFails, Judge, Clear, Reopen, WritePid, PidFails, Attempt,
                AttemptRaises, Release
  <2>2. \A v \in Workers : pc'[v] # "flush" => pc[v] # "flush"
    BY <1>4 DEF Acquire, TryOpen, OpenFails, Judge, Clear, Reopen, WritePid, PidFails, Attempt,
                AttemptRaises, Release, Create, Finish, Goto, TypeOK
  <2> QED
    BY <1>1, <2>1, <2>2
<1>5. ASSUME NEW w \in Workers, Record(w) PROVE FALSE
  BY <1>5 DEF Record, Goto, TypeOK
<1>6. ASSUME NEW w \in Workers, RecordFails(w) \/ FlushFails(w) PROVE FALSE
  BY <1>6, Zenon DEF RecordFails, FlushFails
<1>7. ASSUME NEW w \in Workers, Flush(w) PROVE file'.data = mem'
  BY <1>7 DEF Flush, WriterInv
<1>8. CASE Restart
  BY <1>8 DEF Restart, Loaded
<1>9. CASE UNCHANGED vars
  <2>1. UNCHANGED state /\ pc' = pc
    BY <1>9 DEF vars, state
  <2> QED
    BY <1>1, <2>1
<1> QED
  BY <1>2, <1>3, <1>4, <1>5, <1>6, <1>7, <1>8, <1>9 DEF Next, Tick, Work, Body

----------------------------------------------------------------------------
(* The processes that dead daemons left.                                   *)

\* Every step keeps them one per job and daemon: a daemon dies with one worker
\* in the body of a job's lock, or two have cleared one stale file.
LEMMA NextLeftInv == TypeOK /\ LockInv /\ LeftInv /\ [Next]_vars => LeftInv'
<1> SUFFICES ASSUME TypeOK, LockInv, LeftInv, [Next]_vars PROVE LeftInv'
  OBVIOUS
<1> USE SchedulerAssumption
<1>a. faults \in Nat
  BY DEF TypeOK
<1>b. ~raced' => ~raced
  BY RacedStays
<1>1. CASE Restart
  <2>1. PICK C \in SUBSET Children : left' = left \cup C
    BY <1>1 DEF Restart
  <2>2. faults' = faults + 1 /\ raced' = raced
    BY <1>1 DEF Restart, Fault
  <2>3. \A c \in C : c.fault = faults
    BY <2>1 DEF Children
  <2>4. ASSUME ~raced, NEW c \in C, NEW d \in C, c.job = d.job PROVE c = d
    <3>1. PICK v \in Workers : /\ pc[v] = "running"
                               /\ c = [job |-> job[v], by |-> v, fault |-> faults]
      BY <2>1 DEF Children
    <3>2. PICK w \in Workers : /\ pc[w] = "running"
                               /\ d = [job |-> job[w], by |-> w, fault |-> faults]
      BY <2>1 DEF Children
    <3>3. lock[job[v]].owner = v /\ lock[job[w]].owner = w /\ job[v] = job[w]
      BY <2>4, <3>1, <3>2 DEF LockInv, Holds
    <3> QED
      BY <3>1, <3>2, <3>3
  <2>5. \A c \in left' : c.fault < faults'
    BY <1>a, <2>1, <2>2, <2>3 DEF LeftInv, TypeOK
  <2>6. \A c \in left : c.fault < faults
    BY DEF LeftInv
  <2>7. ASSUME ~raced, NEW c \in left', NEW d \in left', c.job = d.job, c.fault = d.fault
        PROVE  c = d
    <3>1. CASE c \in left /\ d \in left
      BY <2>7, <3>1 DEF LeftInv
    <3>2. CASE c \in C /\ d \in C
      BY <2>4, <2>7, <3>2
    <3>3. CASE (c \in left /\ d \in C) \/ (c \in C /\ d \in left)
      BY <1>a, <2>3, <2>6, <2>7, <3>3
    <3> QED
      BY <2>1, <3>1, <3>2, <3>3
  <2> QED
    BY <2>2, <2>5, <2>7 DEF LeftInv
<1>2. CASE ~Restart
  <2>1. left' \subseteq left /\ faults <= faults'
    <3>1. CASE Tick \/ Time \/ UNCHANGED vars
      BY <3>1, <1>a DEF Tick, TickStart, CheckJob, Time, vars
    <3>2. CASE \E c \in left : ChildEnds(c)
      BY <3>2, <1>a DEF ChildEnds
    <3>3. ASSUME NEW w \in Workers, Acquire(w) \/ Release(w)
          PROVE  left' \subseteq left /\ faults <= faults'
      BY <3>3, <1>a DEF Acquire, TryOpen, OpenFails, Judge, Clear, Reopen, WritePid, PidFails,
                        Release, Fault
    <3>4. ASSUME NEW w \in Workers, Body(w)
          PROVE  left' \subseteq left /\ faults <= faults'
      BY <3>4, <1>a DEF Body, Attempt, AttemptRaises, Record, Flush, RecordFails, FlushFails, Fault
    <3> QED
      BY <1>2, <3>1, <3>2, <3>3, <3>4 DEF Next, Work
  <2>2. \A c \in left : c.fault \in Nat /\ c.fault < faults
    BY DEF TypeOK, LeftInv
  <2>3. faults' \in Nat
    BY NextTypeOK DEF TypeOK
  <2> QED
    BY <1>a, <1>b, <2>1, <2>2, <2>3 DEF LeftInv
<1> QED
  BY <1>1, <1>2

----------------------------------------------------------------------------
(* Theorems.                                                               *)

\* IInv is inductive.
THEOREM Invariance == Spec => []IInv
<1>1. IInv /\ [Next]_vars => IInv'
  BY NextTypeOK, NextLeftInv, NextLockInv, NextWriterInv, NextFileCurrent, Zenon DEF IInv
<1> QED
  BY InitIInv, <1>1, PTL DEF Spec

\* Type correctness; a job is attempted at most 1 + retries times per run.
THEOREM TypeCorrect == Spec => []TypeOK
<1>1. IInv => TypeOK
  BY DEF IInv
<1> QED
  BY Invariance, <1>1, PTL

\* A daemon never overlaps two runs of a job unless two workers clear one stale
\* lock file at the same time: JobRunner.lock, over any kills and restarts.  Each
\* daemon that died leaves at most one process of the job beside its run.
THEOREM Singleton == Spec => []SingletonUnlessRaced
<1>1. IInv => SingletonUnlessRaced
  <2> SUFFICES ASSUME IInv, ~raced, NEW v \in Workers, NEW w \in Workers,
                      Holds(v), Holds(w), job[v] = job[w]
               PROVE  v = w
    BY Zenon DEF SingletonUnlessRaced, IInv, LeftInv
  <2>1. \A u \in Workers : Holds(u) => lock[job[u]].owner = u
    BY Zenon DEF IInv, LockInv
  <2> QED
    BY <2>1
<1> QED
  BY Invariance, <1>1, PTL

\* state.json is the daemon's memory whenever nobody is writing it, until a
\* write fails: record_run flushes under _write_lock.
THEOREM FileStaysCurrent == Spec => []FileCurrent
<1>1. IInv => FileCurrent
  BY DEF IInv
<1> QED
  BY Invariance, <1>1, PTL

----------------------------------------------------------------------------
(* The manual run beside the daemon (ManualRun).                           *)

\* The start of the command and of the daemon satisfies the invariant.
LEMMA InitMInv == MInit => MInv
<1> SUFFICES ASSUME MInit PROVE MInv
  OBVIOUS
<1> USE SchedulerAssumption, ManualAssumption
<1>1. IInv
  BY InitIInv DEF MInit
<1>2. Blank \in [Jobs -> Times]
  BY DEF Blank, Never, Times
<1>3. theirs \in BOOLEAN /\ ours \in BOOLEAN /\ crossed \in BOOLEAN
  BY Zenon DEF MInit
<1>4. MTypeOK
  BY <1>1, <1>2, <1>3 DEF MInit, MTypeOK, IInv, Mpcs
<1>5. Past
  BY DEF MInit, Init, Past, Blank, Never
<1>6. Apart
  BY DEF MInit, Init, Apart, Flushing, AtRest, Covers, Loaded, Blank, Never
<1> QED
  BY <1>1, <1>4, <1>5, <1>6 DEF MInv, IInv

\* What is loaded from state.json has the type of the data.
LEMMA LoadedType == TypeOK => Loaded \in [Jobs -> Times]
<1>1. Blank \in [Jobs -> Times]
  BY SchedulerAssumption DEF Blank, Never, Times
<1> QED
  BY <1>1 DEF Loaded, TypeOK

\* A write of data leaves them in the file, whole or not.
LEMMA WrittenData ==
    ASSUME NEW d, NEW mixed \in BOOLEAN, file' \in Written(d, mixed)
    PROVE  file'.data = d /\ file'.whole \in BOOLEAN /\ (~mixed => file'.whole)
           /\ file' = [whole |-> file'.whole, data |-> d]
<1>1. PICK b \in IF mixed THEN BOOLEAN ELSE {TRUE} : file' = [whole |-> b, data |-> d]
  BY DEF Written
<1> QED
  BY <1>1

\* A step of JobScheduler that leaves state.json alone is one of its steps.
LEMMA ElsewhereNext == Elsewhere => Next
BY DEF Elsewhere, Next, Work, Body

\* ... and so is the daemon's record.
LEMMA RecordNext == ASSUME NEW w \in Workers, DaemonRecord(w) PROVE Next
BY DEF DaemonRecord, Next, Work, Body

\* Every step keeps the types.
LEMMA NextMTypeOK == MTypeOK /\ [MNext]_<<vars, mvars>> => MTypeOK'
<1> SUFFICES ASSUME MTypeOK, [MNext]_<<vars, mvars>> PROVE MTypeOK'
  OBVIOUS
<1> USE SchedulerAssumption, ManualAssumption
<1>a. Blank \in [Jobs -> Times] /\ Loaded \in [Jobs -> Times] /\ clock \in Times
  BY LoadedType DEF Blank, Never, Times, MTypeOK, TypeOK
<1>b. TypeOK /\ Next => TypeOK'
  BY NextTypeOK
<1>c. TypeOK /\ UNCHANGED vars => TypeOK'
  BY NextTypeOK
<1>1. CASE Elsewhere /\ UNCHANGED mvars
  BY <1>1, <1>b, ElsewhereNext DEF MTypeOK, mvars, command
<1>2. ASSUME NEW w \in Workers, DaemonRecord(w) PROVE MTypeOK'
  <2>1. crossed' \in BOOLEAN
    <3>1. CASE mpc \in {"recorded", "flush"}
      BY <1>2, <3>1 DEF DaemonRecord
    <3>2. CASE ~(mpc \in {"recorded", "flush"})
      BY <1>2, <3>2 DEF DaemonRecord
    <3> QED
      BY <3>1, <3>2
  <2> QED
    BY <1>2, <1>b, <2>1, RecordNext DEF DaemonRecord, MTypeOK, command
<1>3. ASSUME NEW w \in Workers, DaemonFlush(w) PROVE MTypeOK'
  <2>1. file' \in [whole : BOOLEAN, data : [Jobs -> Times]]
    BY <1>3, WrittenData DEF DaemonFlush, MTypeOK, TypeOK
  <2>2. ours' \in BOOLEAN
    BY <1>3, Zenon DEF DaemonFlush
  <2>3. TypeOK'
    BY <1>3, <2>1 DEF DaemonFlush, Goto, tick, MTypeOK, TypeOK, Pcs
  <2> QED
    BY <1>3, <2>2, <2>3 DEF DaemonFlush, MTypeOK, command
<1>4. ASSUME NEW j \in Jobs, RunNow(j) PROVE MTypeOK'
  BY <1>4, <1>c DEF RunNow, MGoto, MTypeOK, Mpcs
<1>5. CASE RecordRun
  <2>1. mdata' \in [Jobs -> Times]
    BY <1>5, <1>a DEF RecordRun, LoadState
  <2>2. crossed' \in BOOLEAN
    BY <1>5, Zenon DEF RecordRun
  <2> QED
    BY <1>5, <1>c, <2>1, <2>2 DEF RecordRun, MGoto, MTypeOK, Mpcs
<1>6. CASE Truncate
  <2>1. TypeOK'
    BY <1>6 DEF Truncate, tick, worker, MTypeOK, TypeOK
  <2> QED
    BY <1>6, <2>1 DEF Truncate, MGoto, MTypeOK, Mpcs
<1>7. CASE Rewrite
  <2>1. file' \in [whole : BOOLEAN, data : [Jobs -> Times]]
    BY <1>7, WrittenData DEF Rewrite, MTypeOK
  <2>2. theirs' \in BOOLEAN
    BY <1>7, Zenon DEF Rewrite
  <2>3. TypeOK'
    BY <1>7, <2>1 DEF Rewrite, tick, worker, MTypeOK, TypeOK
  <2> QED
    BY <1>7, <1>a, <2>2, <2>3 DEF Rewrite, MGoto, MTypeOK, Mpcs
<1>8. CASE CommandFails
  <2>1. crossed' \in BOOLEAN
    BY <1>8, Zenon DEF CommandFails
  <2>2. TypeOK'
    BY <1>8 DEF CommandFails, Fault, tick, state, worker, MTypeOK, TypeOK
  <2> QED
    BY <1>8, <1>a, <2>1, <2>2 DEF CommandFails, MGoto, MTypeOK, Mpcs
<1>9. CASE UNCHANGED <<vars, mvars>>
  BY <1>9, <1>c DEF mvars, command, MTypeOK
<1> QED
  BY <1>1, <1>2, <1>3, <1>4, <1>5, <1>6, <1>7, <1>8, <1>9 DEF MNext, Daemon, Command
----------------------------------------------------------------------------
(* Times.                                                                  *)

\* The end of a thread leaves no time ahead of the clock.
LEMMA FinishPast ==
    ASSUME TypeOK, Past, NEW w \in Workers, Finish(w), UNCHANGED clock
    PROVE  \A v \in Workers : fire'[v] <= clock' /\ \A j \in Jobs : dump'[v][j] <= clock'
<1>1. \A v \in Workers : /\ fire'[v] = IF v = w THEN Never ELSE fire[v]
                         /\ dump'[v] = IF v = w THEN Blank ELSE dump[v]
  BY DEF Finish, TypeOK
<1>2. clock \in Nat /\ Never <= clock /\ \A j \in Jobs : Blank[j] <= clock
  BY DEF Blank, Never, TypeOK
<1> QED
  BY <1>1, <1>2 DEF Past

\* A step of JobScheduler puts no time ahead of the clock.
LEMMA NextPast ==
    ASSUME TypeOK, mdata \in [Jobs -> Times], Past, [Next]_vars, UNCHANGED mdata
    PROVE  Past'
<1> USE SchedulerAssumption
<1>a. clock \in Nat /\ now \in Nat /\ Never <= clock
  BY DEF TypeOK, Never
<1>b. \A j \in Jobs : mem[j] \in Int /\ file.data[j] \in Int /\ mdata[j] \in Int
  BY DEF TypeOK, Times
<1>1. ASSUME NEW w \in Workers, Acquire(w) \/ Release(w) \/ Attempt(w) \/ AttemptRaises(w) PROVE Past'
  <2>1. UNCHANGED <<clock, now, mem, file>>
    BY <1>1, Zenon DEF Acquire, TryOpen, OpenFails, Judge, Clear, Reopen, WritePid, PidFails,
                       Attempt, AttemptRaises, Release, tick, state
  <2>2. Finish(w) \/ UNCHANGED <<fire, dump>>
    BY <1>1, Zenon DEF Acquire, TryOpen, OpenFails, Judge, Clear, Reopen, WritePid, PidFails,
                       Attempt, AttemptRaises, Release, Create
  <2>3. \A v \in Workers : fire'[v] <= clock' /\ \A j \in Jobs : dump'[v][j] <= clock'
    BY <2>1, <2>2, FinishPast DEF Past
  <2> QED
    BY <2>1, <2>3 DEF Past
<1>2. CASE TickStart
  BY <1>2, <1>a DEF TickStart, state, worker, Past
<1>3. ASSUME NEW j \in Jobs, CheckJob(j) PROVE Past'
  <2>1. UNCHANGED <<clock, now, mem, file, dump>>
    BY <1>3 DEF CheckJob, state, worker
  <2>2. \A w \in Workers : fire'[w] = fire[w] \/ fire'[w] = now
    BY <1>3 DEF CheckJob, worker, TypeOK
  <2> QED
    BY <2>1, <2>2 DEF Past
<1>4. ASSUME NEW w \in Workers, Record(w) PROVE Past'
  <2>1. UNCHANGED <<clock, now, fire>> /\ file'.data = file.data
    BY <1>4 DEF Record, tick, TypeOK
  <2>2. \A j \in Jobs : mem'[j] = mem[j] \/ mem'[j] = fire[w]
    BY <1>4 DEF Record, Remember, TypeOK
  <2>3. \A v \in Workers : dump'[v] = dump[v] \/ dump'[v] = mem'
    BY <1>4 DEF Record, TypeOK
  <2> QED
    BY <2>1, <2>2, <2>3 DEF Past
<1>5. ASSUME NEW w \in Workers, RecordFails(w) PROVE Past'
  <2>1. UNCHANGED <<clock, now, fire, dump, file>>
    BY <1>5 DEF RecordFails, tick
  <2>2. \A j \in Jobs : mem'[j] = mem[j] \/ mem'[j] = fire[w]
    BY <1>5 DEF RecordFails, Remember, TypeOK
  <2> QED
    BY <2>1, <2>2 DEF Past
<1>6. ASSUME NEW w \in Workers, Flush(w) PROVE Past'
  BY <1>6 DEF Flush, tick, Past
<1>7. ASSUME NEW w \in Workers, FlushFails(w) PROVE Past'
  BY <1>7 DEF FlushFails, tick, Past
<1>8. CASE Restart
  <2>1. \A j \in Jobs : Loaded[j] <= clock
    BY <1>a DEF Loaded, Blank, Past
  <2> QED
    BY <1>8, <1>a, <2>1 DEF Restart, Past, Blank
<1>9. CASE Time
  <2>1. \A w \in Workers : fire[w] \in Int /\ \A j \in Jobs : dump[w][j] \in Int
    BY DEF TypeOK, Times
  <2> QED
    BY <1>9, <1>a, <1>b, <2>1 DEF Time, tick, state, worker, Past
<1>10. CASE UNCHANGED vars
  BY <1>10 DEF vars, Past
<1>11. ASSUME NEW c \in left, ChildEnds(c) PROVE Past'
  BY <1>11 DEF ChildEnds, tick, state, worker, Past
<1> QED
  BY <1>1, <1>2, <1>3, <1>4, <1>5, <1>6, <1>7, <1>8, <1>9, <1>10, <1>11 DEF Next, Tick, Work, Body

\* ... and neither does any step beside the command.
LEMMA NextMPast == MTypeOK /\ Past /\ [MNext]_<<vars, mvars>> => Past'
<1> SUFFICES ASSUME MTypeOK, Past, [MNext]_<<vars, mvars>> PROVE Past'
  OBVIOUS
<1>a. TypeOK /\ mdata \in [Jobs -> Times] /\ clock \in Nat
  BY DEF MTypeOK, TypeOK
<1>b. \A j \in Jobs : Blank[j] <= clock /\ Loaded[j] <= clock
  BY <1>a DEF Past, Loaded, Blank, Never
<1>1. CASE Elsewhere /\ UNCHANGED mvars
  BY <1>1, <1>a, NextPast, ElsewhereNext DEF mvars, command
<1>2. ASSUME NEW w \in Workers, DaemonRecord(w) PROVE Past'
  BY <1>2, <1>a, NextPast, RecordNext DEF DaemonRecord, command
<1>3. ASSUME NEW w \in Workers, DaemonFlush(w) PROVE Past'
  <2>1. file'.data = dump[w]
    BY <1>3, WrittenData DEF DaemonFlush, MTypeOK
  <2> QED
    BY <1>3, <2>1 DEF DaemonFlush, command, tick, Past
<1>4. ASSUME NEW j \in Jobs, RunNow(j) PROVE Past'
  BY <1>4 DEF RunNow, vars, Past
<1>5. CASE RecordRun
  <2>1. \A j \in Jobs : mdata'[j] = Loaded[j] \/ mdata'[j] = clock
    BY <1>5, <1>a, LoadedType DEF RecordRun, LoadState
  <2> QED
    BY <1>5, <1>a, <1>b, <2>1 DEF RecordRun, vars, Past
<1>6. CASE Truncate
  BY <1>6, <1>a DEF Truncate, tick, worker, Past, TypeOK
<1>7. CASE Rewrite
  <2>1. file'.data = mdata
    BY <1>7, WrittenData DEF Rewrite, MTypeOK
  <2> QED
    BY <1>7, <1>b, <2>1 DEF Rewrite, tick, worker, Past
<1>8. CASE CommandFails
  BY <1>8, <1>b DEF CommandFails, tick, state, worker, Past
<1>9. CASE UNCHANGED <<vars, mvars>>
  BY <1>9 DEF vars, mvars, command, Past
<1> QED
  BY <1>1, <1>2, <1>3, <1>4, <1>5, <1>6, <1>7, <1>8, <1>9 DEF MNext, Daemon, Command
----------------------------------------------------------------------------
(* state.json between the daemon and the command.                          *)

\* Every step keeps the daemon's writer apart from its other workers.
LEMMA NextMWriterInv == MTypeOK /\ WriterInv /\ [MNext]_<<vars, mvars>> => WriterInv'
<1> SUFFICES ASSUME MTypeOK, WriterInv, [MNext]_<<vars, mvars>> PROVE WriterInv'
  OBVIOUS
<1>a. TypeOK
  BY DEF MTypeOK
<1>1. CASE Elsewhere
  BY <1>1, <1>a, NextWriterInv, ElsewhereNext
<1>2. ASSUME NEW w \in Workers, DaemonRecord(w) PROVE WriterInv'
  BY <1>2, <1>a, NextWriterInv, RecordNext
<1>3. ASSUME NEW w \in Workers, DaemonFlush(w) PROVE WriterInv'
  <2>1. writer = w /\ writer' = NoWorker /\ UNCHANGED <<mem, dump>>
    BY <1>3 DEF DaemonFlush, WriterInv
  <2>2. \A v \in Workers : pc'[v] = IF v = w THEN "leaving" ELSE pc[v]
    BY <1>3, <1>a DEF DaemonFlush, Goto, TypeOK
  <2> QED
    BY <2>1, <2>2, SchedulerAssumption DEF WriterInv
<1>4. CASE Command \/ UNCHANGED <<vars, mvars>>
  <2>1. UNCHANGED <<pc, writer, mem, dump>>
    BY <1>4 DEF Command, RunNow, RecordRun, Truncate, Rewrite, CommandFails, vars, worker, state
  <2> QED
    BY <2>1 DEF WriterInv
<1> QED
  BY <1>1, <1>2, <1>3, <1>4 DEF MNext, Daemon

\* A step away from state.json keeps the two sides apart.
LEMMA QuietApart ==
    ASSUME Apart, UNCHANGED <<mem, file, failed, crossed, mpc, mdata, theirs, ours>>,
           Flushing' = Flushing, faults' = 0 => faults = 0
    PROVE  Apart'
BY DEF Apart, AtRest, Covers, Loaded

\* Between records, the daemon's file is as it was.
LEMMA ElsewhereApart ==
    ASSUME MTypeOK, Apart, Elsewhere, UNCHANGED mvars
    PROVE  Apart'
<1> SUFFICES ASSUME ~failed' PROVE Apart'
  BY DEF Apart
<1>a. TypeOK /\ UNCHANGED <<crossed, mpc, mdata, theirs, ours>>
  BY DEF MTypeOK, mvars, command
<1>1. ASSUME UNCHANGED state, faults' = 0 => faults = 0,
             \A w \in Workers : pc'[w] = "flush" <=> pc[w] = "flush"
      PROVE  Apart'
  <2>1. Flushing' = Flushing
    BY <1>1 DEF Flushing
  <2> QED
    BY <1>1, <1>a, <2>1, QuietApart DEF state
<1>2. CASE TickStart \/ Time \/ \E c \in left : ChildEnds(c)
  BY <1>1, <1>2 DEF TickStart, Time, ChildEnds, worker
<1>3. ASSUME NEW j \in Jobs, CheckJob(j) PROVE Apart'
  <2>1. \A w \in Workers : pc'[w] = "flush" <=> pc[w] = "flush"
    BY <1>3, <1>a DEF CheckJob, Goto, worker, TypeOK
  <2> QED
    BY <1>1, <1>3, <2>1 DEF CheckJob
<1>4. ASSUME NEW w \in Workers, Acquire(w) \/ Attempt(w) \/ AttemptRaises(w) \/ Release(w) PROVE Apart'
  <2>1. UNCHANGED state /\ (faults' = 0 => faults = 0)
    BY <1>4, <1>a DEF Acquire, TryOpen, OpenFails, Judge, Clear, Reopen, WritePid, PidFails,
                      Attempt, AttemptRaises, Release, Fault, TypeOK
  <2>2. \A v \in Workers : pc'[v] = "flush" <=> pc[v] = "flush"
    BY <1>4, <1>a DEF Acquire, TryOpen, OpenFails, Judge, Clear, Reopen, WritePid, PidFails,
                      Attempt, AttemptRaises, Release, Create, Finish, Goto, TypeOK
  <2> QED
    BY <1>1, <2>1, <2>2
<1>5. ASSUME NEW w \in Workers, RecordFails(w) \/ FlushFails(w) PROVE FALSE
  BY <1>5, Zenon DEF RecordFails, FlushFails
<1>6. CASE Restart
  <2> SUFFICES ASSUME ~crossed' PROVE Apart'
    BY DEF Apart
  <2>1. Flushing' = {} /\ mem' = Loaded /\ file' = file /\ ~failed /\ ~crossed /\ faults' # 0
    BY <1>6, <1>a DEF Restart, Fault, Flushing, TypeOK
  <2>2. mpc = "flush" => ~ours /\ ~file.whole
    BY <2>1 DEF Apart
  <2>3. mpc = "flush" => \A j \in Jobs : mdata[j] >= Loaded[j]
    BY <2>2 DEF MTypeOK, Loaded, Blank, Never, Times
  <2>4. mpc = "recorded" => \A j \in Jobs : mdata[j] >= Loaded[j]
    BY <2>1 DEF Apart
  <2>5. Loaded' = Loaded
    BY <2>1 DEF Loaded
  <2>6. Covers(Loaded)'
    BY <2>1, <2>5, <1>a, LoadedType DEF Covers, Times
  <2> QED
    BY <1>a, <2>1, <2>2, <2>3, <2>4, <2>5, <2>6 DEF Apart, Covers
<1> QED
  BY <1>2, <1>3, <1>4, <1>5, <1>6 DEF Elsewhere, Tick

\* The daemon's record leaves the file to its flush, whatever was there before.
LEMMA RecordApart ==
    ASSUME MTypeOK, NEW w \in Workers, DaemonRecord(w) PROVE Apart'
<1> SUFFICES ASSUME ~crossed' PROVE Apart'
  BY DEF Apart
<1>1. mpc \in {"idle", "ran"} /\ mpc' = mpc /\ theirs' = FALSE
  BY DEF DaemonRecord, command, MTypeOK, Mpcs
<1>2. w \in Flushing'
  BY DEF DaemonRecord, Record, Goto, Flushing, MTypeOK, TypeOK
<1>3. ~file'.whole
  BY DEF DaemonRecord, Record, MTypeOK, TypeOK
<1> QED
  BY <1>1, <1>2, <1>3 DEF Apart, AtRest

\* A flush of the daemon that no write of the command interrupted leaves what it
\* remembers in a whole file.
LEMMA FlushApart ==
    ASSUME MTypeOK, WriterInv, Apart, NEW w \in Workers, DaemonFlush(w) PROVE Apart'
<1> SUFFICES ASSUME ~failed', ~crossed' PROVE Apart'
  BY DEF Apart
<1>a. TypeOK /\ w \in Flushing /\ ~failed /\ ~crossed
  BY DEF DaemonFlush, command, MTypeOK, Flushing
<1>1. mpc \in {"idle", "ran"} /\ mpc' = mpc /\ ~theirs
  BY <1>a DEF Apart, DaemonFlush, command
<1>2. file'.whole /\ file'.data = mem /\ mem' = mem
  BY <1>1, WrittenData DEF DaemonFlush, WriterInv, MTypeOK
<1>3. Covers(Loaded)'
  BY <1>2, <1>a DEF Covers, Loaded, TypeOK, Times
<1>4. \A v \in Workers : pc'[v] # "flush"
  BY <1>a, SchedulerAssumption DEF DaemonFlush, Goto, WriterInv, TypeOK
<1>5. Flushing' = {}
  BY <1>4 DEF Flushing
<1> QED
  BY <1>1, <1>2, <1>3, <1>5 DEF Apart
\* The command reads what the daemon would read, unless the daemon is writing.
LEMMA RecordRunApart ==
    ASSUME MTypeOK, Past, Apart, RecordRun PROVE Apart'
<1> SUFFICES ASSUME ~failed', ~crossed' PROVE Apart'
  BY DEF Apart
<1>1. UNCHANGED vars /\ mpc = "ran" /\ mpc' = "recorded" /\ Flushing = {} /\ ~failed /\ ~crossed
  BY DEF RecordRun, MGoto, vars
<1>2. Flushing' = {} /\ Loaded' = Loaded /\ file' = file /\ mem' = mem /\ faults' = faults
  BY <1>1 DEF vars, Flushing, Loaded
<1>3. \A j \in Jobs : mdata'[j] >= Loaded[j]
  <2>1. \A j \in Jobs : Loaded[j] <= clock /\ Loaded[j] \in Int /\ clock \in Int
    BY LoadedType DEF Past, Loaded, Blank, Never, Times, MTypeOK, TypeOK
  <2>2. \A j \in Jobs : mdata'[j] = Loaded[j] \/ mdata'[j] = clock
    BY LoadedType DEF RecordRun, LoadState, MTypeOK
  <2> QED
    BY <2>1, <2>2
<1>4. Covers(Loaded) /\ (faults = 0 => file.whole)
  BY <1>1 DEF Apart, AtRest
<1> QED
  BY <1>1, <1>2, <1>3, <1>4 DEF Apart, Covers

\* What it has read covers what the daemon remembers when it truncates the file.
LEMMA TruncateApart ==
    ASSUME MTypeOK, Apart, Truncate PROVE Apart'
<1> SUFFICES ASSUME ~failed', ~crossed' PROVE Apart'
  BY DEF Apart
<1>1. mpc = "recorded" /\ mpc' = "flush" /\ ~ours' /\ ~failed /\ ~crossed
      /\ mdata' = mdata /\ mem' = mem
  BY DEF Truncate, MGoto
<1>2. Flushing = {} /\ Flushing' = {}
  BY <1>1 DEF Apart, Truncate, worker, Flushing
<1>3. ~file'.whole
  BY DEF Truncate, MTypeOK, TypeOK
<1>4. Covers(mdata)
  <2>1. \A j \in Jobs : mdata[j] >= Loaded[j] /\ Loaded[j] >= mem[j]
    BY <1>1, <1>2 DEF Apart, AtRest, Covers
  <2>2. \A j \in Jobs : mdata[j] \in Int /\ Loaded[j] \in Int /\ mem[j] \in Int
    BY LoadedType DEF MTypeOK, TypeOK, Times
  <2> QED
    BY <2>1, <2>2 DEF Covers
<1> QED
  BY <1>1, <1>2, <1>3, <1>4 DEF Apart, AtRest, Covers

\* ... and is what it leaves there.
LEMMA RewriteApart ==
    ASSUME MTypeOK, Apart, Rewrite PROVE Apart'
<1> SUFFICES ASSUME ~failed', ~crossed' PROVE Apart'
  BY DEF Apart
<1>1. mpc = "flush" /\ mpc' = "idle" /\ ~failed /\ ~crossed /\ mem' = mem
  BY DEF Rewrite, MGoto
<1>2. Flushing = {} /\ Flushing' = {}
  BY <1>1 DEF Apart, Rewrite, worker, Flushing
<1>3. ~ours /\ Covers(mdata)
  BY <1>1 DEF Apart
<1>4. file'.whole /\ file'.data = mdata
  BY <1>3, WrittenData DEF Rewrite, MTypeOK
<1>5. Covers(Loaded)'
  BY <1>1, <1>3, <1>4 DEF Covers, Loaded
<1> QED
  BY <1>1, <1>2, <1>4, <1>5 DEF Apart

\* Every step keeps the two sides apart.
LEMMA NextApart ==
    MTypeOK /\ WriterInv /\ Past /\ Apart /\ [MNext]_<<vars, mvars>> => Apart'
<1> SUFFICES ASSUME MTypeOK, WriterInv, Past, Apart, [MNext]_<<vars, mvars>> PROVE Apart'
  OBVIOUS
<1>1. ASSUME NEW j \in Jobs, RunNow(j) PROVE Apart'
  <2>1. mpc = "idle" /\ mpc' = "ran" /\ UNCHANGED <<vars, mdata, theirs, ours, crossed>>
    BY <1>1 DEF RunNow, MGoto
  <2>2. Flushing' = Flushing /\ Loaded' = Loaded
    BY <2>1 DEF vars, Flushing, Loaded
  <2> QED
    BY <2>1, <2>2 DEF Apart, AtRest, Covers, vars
<1>2. CASE CommandFails
  <2> SUFFICES ASSUME ~crossed' PROVE Apart'
    BY DEF Apart
  <2>1. /\ mpc' = "idle" /\ faults' # 0 /\ UNCHANGED <<state, worker, theirs, ours>>
    BY <1>2, SchedulerAssumption DEF CommandFails, Fault, MGoto, MTypeOK, TypeOK
  <2>2. mpc # "flush" /\ ~crossed
    BY <1>2, Zenon DEF CommandFails
  <2>3. Flushing' = Flushing /\ Loaded' = Loaded
    BY <2>1 DEF state, worker, Flushing, Loaded
  <2> QED
    BY <2>1, <2>2, <2>3 DEF Apart, AtRest, Covers, state
<1>3. CASE UNCHANGED <<vars, mvars>>
  <2>1. Flushing' = Flushing
    BY <1>3 DEF vars, Flushing
  <2> QED
    BY <1>3, <2>1, QuietApart DEF vars, mvars, command
<1> QED
  BY <1>1, <1>2, <1>3, ElsewhereApart, RecordApart, FlushApart, RecordRunApart, TruncateApart,
     RewriteApart DEF MNext, Daemon, Command

\* A manual run costs the daemon nothing on disk for long: state.json keeps its runs
\* unless records of the two overlap or the command's is cut short, and then until the
\* daemon's next record.
THEOREM ManualRunHarmless == MSpec => []DaemonRunsKept
<1>1. MInv /\ [MNext]_<<vars, mvars>> => MInv'
  BY NextMTypeOK, NextMWriterInv, NextMPast, NextApart DEF MInv
<1>2. MInv => DaemonRunsKept
  BY DEF MInv, Apart, DaemonRunsKept, AtRest, Covers, Loaded
<1> QED
  BY InitMInv, <1>1, <1>2, PTL DEF MSpec
=============================================================================
