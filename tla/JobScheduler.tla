---------------------------- MODULE JobScheduler ----------------------------
(***************************************************************************)
(* scheduled_tasks.py, scheduler_runner.py and scheduler_state.py: the      *)
(* config jobs of one host's daemon.                                        *)
(*                                                                          *)
(* The scheduler thread reads the clock, checks each job against its last   *)
(* recorded run and starts a worker thread for a job that is due.  Only the *)
(* worker takes the job's lock file; it then runs the job with its retries, *)
(* records the run in memory and in state.json, and removes the lock file.  *)
(* The daemon may be killed anywhere, which leaves lock files behind, and    *)
(* the processes it started for its shell and agent jobs.                    *)
(***************************************************************************)
EXTENDS Integers, FiniteSets

CONSTANTS Jobs,
          CronJobs,   \* the jobs with a cron schedule; the others have "every"
          ChildJobs,  \* the shell and agent jobs, which run in a process of their own
          Malformed,  \* the jobs that may be written so that run always raises
          Workers,    \* bound: worker threads at one time
          NoJob, NoWorker,
          Gone,       \* a process that is dead, as the holder of a lock file
          Every,      \* period of every job
          Retries,    \* job.retries
          MaxTime,    \* bound: time
          MaxFaults   \* bound: kills of the daemon and failed writes

ASSUME SchedulerAssumption ==
    /\ CronJobs \subseteq Jobs /\ ChildJobs \subseteq Jobs /\ Malformed \subseteq Jobs
    /\ NoJob \notin Jobs
    /\ NoWorker \notin Workers /\ Gone \notin Workers
    /\ Every \in Nat \ {0} /\ Retries \in Nat /\ MaxTime \in Nat /\ MaxFaults \in Nat

VARIABLES
    clock,
    now, todo,  \* the scheduler thread: its clock reading, jobs still to check
    mem,        \* SchedulerState._data: last_run of each job
    file,       \* state.json; not whole while it is being written
    writer,     \* who holds SchedulerState._write_lock
    lock,       \* lock[j]: <job>.lock, its creator, and whether it has a PID
    pc, job, fire, tries, dump,   \* the worker threads
    left,       \* what dead daemons' workers were running and still runs
    broken,     \* the jobs whose run raises
    raced,      \* history: two workers cleared one stale lock file
    failed,     \* history: state.json could not be written
    faults

tick    == <<now, todo>>
state   == <<mem, file, writer, failed>>
worker  == <<pc, job, fire, tries, dump>>
vars    == <<clock, now, todo, mem, file, writer, lock, pc, job, fire, tries, dump,
             left, broken, raced, failed, faults>>

Never  == -1
Times  == -1 .. MaxTime
Blank  == [j \in Jobs |-> Never]
NoLock == [owner |-> NoWorker, pid |-> FALSE]

Init ==
    /\ clock = 0 /\ now = 0 /\ todo = {}
    /\ mem = Blank /\ file = [whole |-> TRUE, data |-> Blank] /\ writer = NoWorker
    /\ lock = [j \in Jobs |-> NoLock]
    /\ pc = [w \in Workers |-> "idle"]
    /\ job = [w \in Workers |-> NoJob]
    /\ fire = [w \in Workers |-> Never]
    /\ tries = [w \in Workers |-> 0]
    /\ dump = [w \in Workers |-> Blank]
    /\ left = {} /\ broken \in SUBSET Malformed
    /\ raced = FALSE /\ failed = FALSE /\ faults = 0

Goto(w, l) == pc' = [pc EXCEPT ![w] = l]
Fault == faults < MaxFaults /\ faults' = faults + 1

----------------------------------------------------------------------------
(* The scheduler thread.                                                   *)

\* croniter's get_prev: the last slot before t.
prev_slot(t) == ((t - 1) \div Every) * Every

is_due(j, last_run, t) ==
    \/ last_run = Never
    \/ j \notin CronJobs /\ t - last_run >= Every
    \/ j \in CronJobs /\ last_run < prev_slot(t)

\* One round of _run: the clock is read here; built-in tasks run next.
TickStart ==
    /\ todo = {}
    /\ now' = clock /\ todo' = Jobs
    /\ UNCHANGED <<clock, left, broken, state, lock, worker, raced, faults>>

\* tick_config_jobs for one job: a worker of its own if it is due.
CheckJob(j) ==
    /\ j \in todo
    /\ todo' = todo \ {j}
    /\ \/ /\ ~is_due(j, mem[j], now)
          /\ UNCHANGED worker
       \/ /\ is_due(j, mem[j], now)
          /\ \E w \in Workers :
                /\ pc[w] = "idle"
                /\ Goto(w, "spawned")
                /\ job' = [job EXCEPT ![w] = j]
                /\ fire' = [fire EXCEPT ![w] = now]
          /\ UNCHANGED <<tries, dump>>
    /\ UNCHANGED <<clock, left, broken, now, state, lock, raced, faults>>

----------------------------------------------------------------------------
(* A worker: JobRunner.lock.                                               *)

\* The thread is over.
Finish(w) == /\ Goto(w, "idle")
             /\ job' = [job EXCEPT ![w] = NoJob]
             /\ fire' = [fire EXCEPT ![w] = Never]
             /\ tries' = [tries EXCEPT ![w] = 0]
             /\ dump' = [dump EXCEPT ![w] = Blank]

\* open with O_CREAT | O_EXCL: the file is there and still empty.
Create(w) == /\ lock[job[w]] = NoLock
             /\ lock' = [lock EXCEPT ![job[w]] = [owner |-> w, pid |-> FALSE]]
             /\ Goto(w, "opened")
             /\ UNCHANGED <<job, fire, tries, dump>>

TryOpen(w) ==
    /\ pc[w] = "spawned"
    /\ \/ Create(w)
       \/ /\ lock[job[w]] # NoLock
          /\ Goto(w, "exists")
          /\ UNCHANGED <<lock, job, fire, tries, dump>>
    /\ UNCHANGED <<clock, left, broken, tick, state, raced, faults>>

\* The lock file cannot be created: the exception ends the thread.
OpenFails(w) ==
    /\ pc[w] \in {"spawned", "cleared"} /\ Fault
    /\ Finish(w)
    /\ UNCHANGED <<clock, left, broken, tick, state, lock, raced>>

\* Seeded fault: a lock file without a PID counts as stale.
StaleIfEmpty(l) == l # NoLock /\ (l.owner = Gone \/ ~l.pid)


\* _is_stale: the file has a PID and its process is gone.
is_stale(l) == l.pid /\ l.owner = Gone

\* The answer to _is_stale, for a file found to exist a moment ago.
Judge(w) ==
    /\ pc[w] = "exists"
    /\ IF is_stale(lock[job[w]])
       THEN /\ Goto(w, "stale")
            /\ raced' = (raced \/ \E v \in Workers : job[v] = job[w] /\ pc[v] = "stale")
            /\ UNCHANGED <<job, fire, tries, dump>>
       ELSE Finish(w) /\ UNCHANGED raced
    /\ UNCHANGED <<clock, left, broken, tick, state, lock, faults>>

\* unlink, whatever file has the name by now.
Clear(w) ==
    /\ pc[w] = "stale"
    /\ lock' = [lock EXCEPT ![job[w]] = NoLock]
    /\ Goto(w, "cleared")
    /\ UNCHANGED <<clock, left, broken, tick, state, job, fire, tries, dump, raced, faults>>

\* The second and last open.
Reopen(w) ==
    /\ pc[w] = "cleared"
    /\ \/ Create(w)
       \/ lock[job[w]] # NoLock /\ Finish(w) /\ UNCHANGED lock
    /\ UNCHANGED <<clock, left, broken, tick, state, raced, faults>>

\* The PID goes into the file this worker created, if it still has the name.
WritePid(w) ==
    /\ pc[w] = "opened"
    /\ lock' = IF lock[job[w]].owner = w THEN [lock EXCEPT ![job[w]].pid = TRUE]
               ELSE lock
    /\ Goto(w, "running")
    /\ UNCHANGED <<clock, left, broken, tick, state, job, fire, tries, dump, raced, faults>>

\* The PID cannot be written: on to the finally clause.
PidFails(w) ==
    /\ pc[w] = "opened" /\ Fault
    /\ Goto(w, "leaving")
    /\ UNCHANGED <<clock, left, broken, tick, state, lock, job, fire, tries, dump, raced>>

\* The finally clause: unlink, whatever file has the name by now.
Release(w) ==
    /\ pc[w] = "leaving"
    /\ lock' = [lock EXCEPT ![job[w]] = NoLock]
    /\ Finish(w)
    /\ UNCHANGED <<clock, left, broken, tick, state, raced, faults>>

----------------------------------------------------------------------------
(* A worker: _run_config_job and record_run.                               *)

\* Seeded fault: one attempt too many.
RetryOnceMore(w) == tries[w] <= Retries

\* i < attempts - 1.
MayRetry(w) == tries[w] < Retries

\* One JobRunner.run, which may fail.
Attempt(w) ==
    /\ pc[w] = "running" /\ job[w] \notin broken
    /\ \/ Goto(w, "ran") /\ UNCHANGED tries
       \/ MayRetry(w) /\ tries' = [tries EXCEPT ![w] = @ + 1] /\ UNCHANGED pc
    /\ UNCHANGED <<clock, left, broken, tick, state, lock, job, fire, dump, raced, faults>>

\* The run raises: its command does not parse, its callback exits, its log has
\* no directory.  Nothing is recorded.
AttemptRaises(w) ==
    /\ pc[w] = "running"
    /\ IF job[w] \in broken THEN UNCHANGED faults ELSE Fault
    /\ Goto(w, "leaving")
    /\ UNCHANGED <<clock, left, broken, tick, state, lock, job, fire, tries, dump, raced>>

\* record_run up to its flush, whatever the result of the run was.
Remember(w) == mem' = [mem EXCEPT ![job[w]] = fire[w]]

\* Seeded fault: record_run without _write_lock.
LockUnused(w) == TRUE

\* Whether w can take _write_lock.
LockFree(w) == writer = NoWorker

\* _flush begins: the data are dumped and state.json is truncated.
Record(w) ==
    /\ pc[w] = "ran" /\ LockFree(w)
    /\ writer' = w
    /\ Remember(w)
    /\ dump' = [dump EXCEPT ![w] = mem']
    /\ file' = [file EXCEPT !.whole = FALSE]
    /\ Goto(w, "flush")
    /\ UNCHANGED <<clock, left, broken, tick, lock, job, fire, tries, raced, failed, faults>>

\* _flush ends, and so does record_run.
Flush(w) ==
    /\ pc[w] = "flush"
    /\ file' = [whole |-> TRUE, data |-> dump[w]]
    /\ writer' = NoWorker
    /\ Goto(w, "leaving")
    /\ UNCHANGED <<clock, left, broken, tick, mem, lock, job, fire, tries, dump, raced,
                   failed, faults>>

\* state.json cannot be opened: the exception ends the run, in memory it stays.
RecordFails(w) ==
    /\ pc[w] = "ran" /\ LockFree(w) /\ Fault
    /\ Remember(w)
    /\ failed' = TRUE
    /\ Goto(w, "leaving")
    /\ UNCHANGED <<clock, left, broken, tick, file, writer, lock, job, fire, tries, dump,
                   raced>>

\* state.json cannot be written to its end.
FlushFails(w) ==
    /\ pc[w] = "flush" /\ Fault
    /\ writer' = NoWorker
    /\ failed' = TRUE
    /\ Goto(w, "leaving")
    /\ UNCHANGED <<clock, left, broken, tick, mem, file, lock, job, fire, tries, dump, raced>>

----------------------------------------------------------------------------
(* The daemon, and time.                                                   *)

\* SchedulerState.__init__: an unreadable file is an empty one.
Loaded == IF file.whole THEN file.data ELSE Blank

\* The processes the workers have started, as they are when the daemon stops.
Children == {[job |-> job[w], by |-> w, fault |-> faults] :
                w \in {v \in Workers : pc[v] = "running" /\ job[v] \in ChildJobs}}

\* The daemon stops without its finally clauses (killed, or its daemon
\* threads abandoned at exit) and is started again.  A process it has started
\* may go on.
Restart ==
    /\ Fault
    /\ \E C \in SUBSET Children : left' = left \cup C
    /\ todo' = {} /\ now' = clock
    /\ mem' = Loaded /\ writer' = NoWorker
    /\ lock' = [j \in Jobs |-> IF lock[j] = NoLock THEN NoLock
                               ELSE [lock[j] EXCEPT !.owner = Gone]]
    /\ pc' = [w \in Workers |-> "idle"]
    /\ job' = [w \in Workers |-> NoJob]
    /\ fire' = [w \in Workers |-> Never]
    /\ tries' = [w \in Workers |-> 0]
    /\ dump' = [w \in Workers |-> Blank]
    /\ UNCHANGED <<clock, broken, file, raced, failed>>

\* A process that outlived its daemon comes to its end.
ChildEnds(c) ==
    /\ c \in left
    /\ left' = left \ {c}
    /\ UNCHANGED <<clock, broken, tick, state, lock, worker, raced, faults>>

Time ==
    /\ clock < MaxTime
    /\ clock' = clock + 1
    /\ UNCHANGED <<left, broken, tick, state, lock, worker, raced, faults>>

Tick == TickStart \/ \E j \in Jobs : CheckJob(j)

Acquire(w) == \/ TryOpen(w) \/ OpenFails(w) \/ Judge(w) \/ Clear(w) \/ Reopen(w)
              \/ WritePid(w) \/ PidFails(w)
Body(w)    == \/ Attempt(w) \/ AttemptRaises(w) \/ Record(w) \/ Flush(w)
              \/ RecordFails(w) \/ FlushFails(w)
Work(w)    == Acquire(w) \/ Body(w) \/ Release(w)

Next == \/ Tick \/ (\E w \in Workers : Work(w))
        \/ Restart \/ (\E c \in left : ChildEnds(c)) \/ Time

Spec == Init /\ [][Next]_vars

\* The scheduler thread keeps ticking, and a worker thread comes to its end:
\* a subprocess has a timeout, the retries are counted.
FairSpec == Spec /\ WF_vars(Tick) /\ \A w \in Workers : WF_vars(Work(w))

----------------------------------------------------------------------------
(* Properties.                                                             *)

Pcs == {"idle", "spawned", "exists", "stale", "cleared", "opened", "running",
        "ran", "flush", "leaving"}

TypeOK ==
    /\ clock \in 0..MaxTime /\ now \in 0..MaxTime /\ todo \in SUBSET Jobs
    /\ mem \in [Jobs -> Times]
    /\ file \in [whole : BOOLEAN, data : [Jobs -> Times]]
    /\ writer \in Workers \cup {NoWorker}
    /\ lock \in [Jobs -> [owner : Workers \cup {NoWorker, Gone}, pid : BOOLEAN]]
    /\ pc \in [Workers -> Pcs]
    /\ job \in [Workers -> Jobs \cup {NoJob}]
    /\ \A w \in Workers : pc[w] # "idle" => job[w] \in Jobs /\ fire[w] \in 0..MaxTime
    /\ fire \in [Workers -> Times]
    /\ tries \in [Workers -> 0..Retries]
    /\ dump \in [Workers -> [Jobs -> Times]]
    /\ left \subseteq [job : ChildJobs, by : Workers, fault : 0..MaxFaults]
    /\ broken \subseteq Malformed
    /\ raced \in BOOLEAN /\ failed \in BOOLEAN /\ faults \in 0..MaxFaults

\* w is in the body of "with lock(job)".
Holds(w) == pc[w] \in {"opened", "running", "ran", "flush", "leaving"}

\* A daemon never overlaps two runs of a job, over kills and restarts that
\* leave lock files of every kind, unless two workers clear one stale file at
\* the same time: beside its run there is at most one process of each daemon
\* that died (scheduler_runner.py:117-151).
SingletonUnlessRaced ==
    ~raced =>
        /\ \A v, w \in Workers : (Holds(v) /\ Holds(w) /\ job[v] = job[w]) => v = w
        /\ \A c, d \in left : (c.job = d.job /\ c.fault = d.fault) => c = d

\* The file on disk is the daemon's memory whenever nobody is writing it, in
\* whatever order workers of different jobs finish, until a write fails or a
\* restart cuts one short (scheduler_state.py:116-126).
FileCurrent ==
    (file.whole /\ ~failed /\ \A w \in Workers : pc[w] # "flush") => file.data = mem

\* A dead daemon's lock file without a PID.
Orphan(j) == lock[j].owner = Gone /\ ~lock[j].pid

Due(j) == is_due(j, mem[j], clock)


----------------------------------------------------------------------------
(* The inductive invariant.                                                *)

\* The lock file of a job belongs to the worker in its body; a file judged
\* stale is still that file, and one worker is about to clear it.
LockInv ==
    ~raced =>
        /\ \A w \in Workers : Holds(w) => lock[job[w]].owner = w
        /\ \A w \in Workers : pc[w] = "stale" => is_stale(lock[job[w]])
        /\ \A v, w \in Workers :
              (pc[v] = "stale" /\ pc[w] = "stale" /\ job[v] = job[w]) => v = w

\* The worker that writes state.json is the one with _write_lock, and it
\* writes what is in memory.
WriterInv ==
    \A w \in Workers : /\ pc[w] = "flush" <=> writer = w
                       /\ pc[w] = "flush" => dump[w] = mem

\* Every process that is left is of an earlier daemon, which had one for the job.
LeftInv ==
    /\ \A c \in left : c.fault < faults
    /\ ~raced => \A c, d \in left : (c.job = d.job /\ c.fault = d.fault) => c = d

IInv == TypeOK /\ LeftInv /\ LockInv /\ WriterInv /\ FileCurrent
=============================================================================
