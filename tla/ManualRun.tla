------------------------------ MODULE ManualRun ------------------------------
(***************************************************************************)
(* "skcapstone scheduler run JOB" (cli/scheduler_cmd.py) beside the daemon  *)
(* of JobScheduler.  The command runs the job without its lock, then opens  *)
(* a SchedulerState of its own: it reads state.json, adds the run, and      *)
(* truncates and rewrites the whole file, as the daemon does from its own   *)
(* memory.  No lock is shared, so that either may write what the other has  *)
(* not read, and two writes may mix in one file.                            *)
(***************************************************************************)
EXTENDS JobScheduler

CONSTANT MaxManual   \* bound: manual runs

ASSUME ManualAssumption == MaxManual \in Nat

VARIABLES
    mpc, mjob, mdata,  \* the command: step, job, SchedulerState._data
    theirs, ours,      \* another write since the daemon, the command truncated
    crossed,           \* history: since the daemon's last record began, one of the command
                       \* overlapped it or was cut short
    runs

command == <<mpc, mjob, mdata, runs>>
mvars   == <<command, theirs, ours, crossed>>

MInit ==
    /\ Init
    /\ mpc = "idle" /\ mjob = NoJob /\ mdata = Blank
    /\ theirs = FALSE /\ ours = FALSE
    /\ crossed = FALSE /\ runs = 0

MGoto(l) == mpc' = l

Flushing == {w \in Workers : pc[w] = "flush"}

----------------------------------------------------------------------------
(* The command.                                                            *)

\* runner.run of a job in jobs.yaml, whatever the schedule says and whoever has
\* the lock.
RunNow(j) ==
    /\ mpc = "idle" /\ runs < MaxManual
    /\ MGoto("ran")
    /\ mjob' = j /\ runs' = runs + 1
    /\ UNCHANGED <<vars, mdata, theirs, ours, crossed>>

\* Seeded fault: the file is not read.
LoadNothing == Blank

\* What SchedulerState.__init__ finds.
LoadState == Loaded

\* SchedulerState(...), and record_run up to its flush.
RecordRun ==
    /\ mpc = "ran"
    /\ mdata' = [LoadState EXCEPT ![mjob] = clock]
    /\ crossed' = (crossed \/ Flushing # {})
    /\ MGoto("recorded")
    /\ UNCHANGED <<vars, mjob, theirs, ours, runs>>

\* _flush begins: the file is truncated.
Truncate ==
    /\ mpc = "recorded"
    /\ file' = [file EXCEPT !.whole = FALSE]
    /\ ours' = FALSE
    /\ MGoto("flush")
    /\ UNCHANGED <<clock, left, broken, tick, mem, writer, lock, worker, raced, failed, faults,
                   mjob, mdata, theirs, crossed, runs>>

\* What is in the file after a write of d: behind it there may be more of a longer
\* text another has written since the truncation, and then it is no JSON.
Written(d, mixed) == {[whole |-> b, data |-> d] : b \in IF mixed THEN BOOLEAN ELSE {TRUE}}

\* _flush ends, and the command.
Rewrite ==
    /\ mpc = "flush"
    /\ file' \in Written(mdata, ours)
    /\ theirs' = (theirs \/ Flushing # {})
    /\ MGoto("idle") /\ mjob' = NoJob /\ mdata' = Blank
    /\ UNCHANGED <<clock, left, broken, tick, mem, writer, lock, worker, raced, failed, faults,
                   ours, crossed, runs>>

\* The command is killed, or an exception ends it.
CommandFails ==
    /\ mpc # "idle" /\ Fault
    /\ MGoto("idle") /\ mjob' = NoJob /\ mdata' = Blank
    /\ crossed' = (crossed \/ mpc = "flush")
    /\ UNCHANGED <<clock, left, broken, tick, state, lock, worker, raced, theirs, ours, runs>>

----------------------------------------------------------------------------
(* The daemon.                                                             *)

DaemonRecord(w) ==
    /\ Record(w)
    /\ theirs' = FALSE
    /\ crossed' = (mpc \in {"recorded", "flush"})
    /\ UNCHANGED <<command, ours>>

\* JobScheduler's Flush, over a file that may have been written meanwhile.
DaemonFlush(w) ==
    /\ pc[w] = "flush"
    /\ file' \in Written(dump[w], theirs)
    /\ writer' = NoWorker
    /\ Goto(w, "leaving")
    /\ ours' = (ours \/ mpc = "flush")
    /\ UNCHANGED <<clock, left, broken, tick, mem, lock, job, fire, tries, dump, raced,
                   failed, faults, command, theirs, crossed>>

\* The steps that leave state.json alone.
Elsewhere ==
    \/ Tick \/ Restart \/ Time
    \/ \E c \in left : ChildEnds(c)
    \/ \E w \in Workers : \/ Acquire(w) \/ Attempt(w) \/ AttemptRaises(w)
                          \/ RecordFails(w) \/ FlushFails(w) \/ Release(w)

Daemon == \/ Elsewhere /\ UNCHANGED mvars
          \/ \E w \in Workers : DaemonRecord(w) \/ DaemonFlush(w)

Command == \/ \E j \in Jobs : RunNow(j)
           \/ RecordRun \/ Truncate \/ Rewrite \/ CommandFails

MNext == Daemon \/ Command

MSpec == MInit /\ [][MNext]_<<vars, mvars>>

----------------------------------------------------------------------------
(* Properties.                                                             *)

AtRest == Flushing = {} /\ mpc # "flush"

\* A manual run costs the daemon nothing on disk for long: at rest, state.json has every
\* run the daemon remembers, and is readable unless something failed, except from a
\* record of the command that overlapped one of the daemon or was cut short until the
\* daemon's next record.
DaemonRunsKept ==
    (AtRest /\ ~failed /\ ~crossed) =>
        /\ file.whole => \A j \in Jobs : file.data[j] >= mem[j]
        /\ faults = 0 => file.whole
----------------------------------------------------------------------------
(* The inductive invariant.                                                *)

Mpcs == {"idle", "ran", "recorded", "flush"}

MTypeOK ==
    /\ TypeOK
    /\ mpc \in Mpcs /\ mjob \in Jobs \cup {NoJob} /\ mdata \in [Jobs -> Times]
    /\ mpc # "idle" => mjob \in Jobs
    /\ theirs \in BOOLEAN /\ ours \in BOOLEAN /\ crossed \in BOOLEAN
    /\ runs \in 0..MaxManual

\* No run is recorded before it has begun.
Past ==
    /\ now <= clock
    /\ \A w \in Workers : fire[w] <= clock
    /\ \A j \in Jobs : /\ mem[j] <= clock /\ file.data[j] <= clock /\ mdata[j] <= clock
                       /\ \A w \in Workers : dump[w][j] <= clock

\* What the daemon would load has every run it remembers.
Covers(data) == \A j \in Jobs : data[j] >= mem[j]

\* While no records cross, only one side is at the file; the daemon's last record is in
\* it, or would be lost to the daemon as well if it were started again; and what the
\* command has read is what it will find when it writes.
Apart ==
    ~failed /\ ~crossed =>
        /\ Flushing # {} => mpc \in {"idle", "ran"} /\ ~theirs /\ ~file.whole
        /\ mpc = "flush" => ~ours /\ ~file.whole /\ Covers(mdata)
        /\ mpc = "recorded" => \A j \in Jobs : mdata[j] >= Loaded[j]
        /\ AtRest => Covers(Loaded) /\ (faults = 0 => file.whole)

MInv == MTypeOK /\ WriterInv /\ Past /\ Apart
=============================================================================
