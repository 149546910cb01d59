---------------------------- MODULE MessageInbox ----------------------------
(***************************************************************************)
(* consciousness_loop.py: how messages are taken from the shared inbox.     *)
(*                                                                          *)
(* Envelopes are files in sync/comms/inbox.  Each co-resident agent has a   *)
(* consciousness loop over that directory: a watcher thread that is told    *)
(* of new files, and a rescan thread that lists them from time to time.     *)
(* Both hand a file to the same handler, which moves an envelope for this   *)
(* agent to sync/comms/processing and submits it to the worker pool; a      *)
(* worker removes it when process_envelope has returned.  Rescans submit    *)
(* again what has been in processing for too long.  Beside the loop the     *)
(* agent's daemon may poll the same inbox through SKComms (daemon.py), past *)
(* everything the loop does to take a message once.                         *)
(***************************************************************************)
EXTENDS Integers, Sequences, FiniteSets

CONSTANTS Agents, Files, Ids,
          Watched,     \* agents with a watcher thread (use_inotify)
          Polling,     \* agents whose daemon has SKComms
          Unnamed,     \* agents that may lack a name in identity.json
          Everyone, NoFile,
          id, to,      \* the message of a file, the recipient of a message
          Workers,     \* max_concurrent_requests threads of each loop
          MaxSeen,     \* ids remembered before half of them are dropped: 1000
          MaxQueue,    \* bound: resubmissions waiting
          MaxFaults    \* bound: restarts, unreadable reads and failed answers

ASSUME InboxAssumption ==
    /\ id \in [Files -> Ids] /\ to \in [Ids -> Agents \cup {Everyone}]
    /\ NoFile \notin Files /\ Everyone \notin Agents
    /\ Watched \subseteq Agents /\ Polling \subseteq Agents /\ Unnamed \subseteq Agents
    /\ IsFiniteSet(Workers)
    /\ MaxSeen \in Nat \ {0} /\ MaxQueue \in Nat /\ MaxFaults \in Nat

Handlers == {"watcher", "rescan"}
Limit == 2 * Cardinality(Workers)
Directed(f) == to[id[f]] # Everyone

VARIABLES
    place,      \* where a file is: coming, inbox, processing, deadletter, gone
    age,        \* its mtime: 0 young, 1 past _PROCESSING_STALE_SECONDS, 2 past the TTL
    malformed,  \* files that hold no envelope
    nameless,   \* agents without a name
    polls,      \* files the daemon's poll has archived and has still to process
    events,     \* files an agent's watcher has still to be told of
    phase, list,    \* an agent's rescan: at rest, in processing, in the inbox
    hpc, hfile,     \* the handler _on_inbox_file, in each of the two threads
    seen,       \* _processed_ids
    queue,      \* the executor's work queue
    wpc, wfile, \* the workers
    taken,      \* history: how often process_envelope ran for a message, up to twice
    failed,     \* history: messages for which it failed
    rescued,    \* history: agents whose rescan submitted a staged copy of a message
    polled,     \* history: agents whose daemon's poll archived a copy of a message
    raced,      \* history: messages submitted while in flight, there when a loop
                \* restarted, forgotten, or processed by a poll
    pruned,     \* history: messages of which the TTL took a copy
    faults

files   == <<place, age>>
rescan  == <<phase, list>>
handler == <<hpc, hfile>>
worker  == <<wpc, wfile>>
history == <<taken, failed, rescued, polled, raced, pruned>>
vars    == <<files, malformed, nameless, polls, events, rescan, handler, seen, queue, worker,
             history, faults>>

Init ==
    /\ place = [f \in Files |-> "coming"] /\ age = [f \in Files |-> 0]
    /\ malformed = {} /\ nameless \in SUBSET Unnamed
    /\ polls = [a \in Agents |-> {}]
    /\ events = [a \in Agents |-> {}]
    /\ phase = [a \in Agents |-> "rest"] /\ list = [a \in Agents |-> {}]
    /\ hpc = [a \in Agents |-> [h \in Handlers |-> "idle"]]
    /\ hfile = [a \in Agents |-> [h \in Handlers |-> NoFile]]
    /\ seen = [a \in Agents |-> {}]
    /\ queue = [a \in Agents |-> <<>>]
    /\ wpc = [a \in Agents |-> [w \in Workers |-> "free"]]
    /\ wfile = [a \in Agents |-> [w \in Workers |-> NoFile]]
    /\ taken = [i \in Ids |-> [a \in Agents |-> 0]]
    /\ rescued = [i \in Ids |-> {}] /\ polled = [i \in Ids |-> {}]
    /\ failed = {} /\ raced = {} /\ pruned = {} /\ faults = 0

Fault == faults < MaxFaults /\ faults' = faults + 1

\* A rename keeps the mtime; the age of a file in deadletter, or gone, is left out.
Move(f, p) == /\ place' = [place EXCEPT ![f] = p]
              /\ age' = [age EXCEPT ![f] = IF p = "processing" THEN @ ELSE 0]

----------------------------------------------------------------------------
(* The directory.                                                          *)

\* A file is delivered, and some watchers are told.  Its mtime is its sender's, so
\* that it may be old at once.
Arrive(f) ==
    /\ place[f] = "coming"
    /\ Move(f, "inbox")
    /\ malformed' \in {malformed, malformed \cup {f}}
    /\ \E A \in SUBSET Watched :
          events' = [a \in Agents |-> IF a \in A THEN events[a] \cup {f} ELSE events[a]]
    /\ UNCHANGED <<nameless, polls, rescan, handler, seen, queue, worker, history, faults>>

Grow(f) ==
    /\ place[f] \in {"inbox", "processing"} /\ age[f] < 2
    /\ age' = [age EXCEPT ![f] = @ + 1]
    /\ UNCHANGED <<malformed, nameless, polls, place, events, rescan, handler, seen,
                   queue, worker, history, faults>>

\* prune_inbox, and prune_deadletter with a TTL of its own.
Prune(f) ==
    /\ (place[f] = "inbox" /\ age[f] = 2) \/ place[f] = "deadletter"
    /\ Move(f, "gone")
    /\ pruned' = pruned \cup {id[f]}
    /\ UNCHANGED <<malformed, nameless, polls, events, rescan, handler, seen, queue,
                   worker, taken, failed, rescued, polled, raced, faults>>

----------------------------------------------------------------------------
(* _on_inbox_file, in a handler thread h of agent a.                       *)

\* Seeded fault: no test of the recipient.
ToAnyone(a, f) == to[id[f]] \in Agents \cup {Everyone}

\* An agent without a name takes what is for anyone.
ToMe(a, f) == to[id[f]] \in {a, Everyone} \/ a \in nameless

\* Another thread of the loop is past this test with the same message, and this
\* file will be submitted whatever becomes of that one.
Overtaken(a, h, f) ==
    \E k \in Handlers \ {h} : /\ hpc[a][k] # "idle" /\ id[hfile[a][k]] = id[f]
                              /\ hfile[a][k] # f \/ ~Directed(f)

\* Up to the test of the queue's depth.
Look(a, h, f) ==
    \/ /\ \/ place[f] # "inbox"
          \/ f \notin malformed /\ ~ToMe(a, f)
          \/ f \notin malformed /\ ToMe(a, f) /\ id[f] \in seen[a] /\ ~Directed(f)
          \/ f \notin malformed /\ ToMe(a, f) /\ id[f] \notin seen[a] /\ Len(queue[a]) >= Limit
       /\ UNCHANGED <<files, handler, raced>>
    \/ /\ place[f] = "inbox" /\ f \in malformed
       /\ Move(f, "deadletter")
       /\ UNCHANGED <<handler, raced>>
    \/ /\ place[f] = "inbox" /\ f \notin malformed
       /\ ToMe(a, f) /\ id[f] \in seen[a] /\ Directed(f)
       /\ Move(f, "gone")
       /\ UNCHANGED <<handler, raced>>
    \/ /\ place[f] = "inbox" /\ f \notin malformed
       /\ ToMe(a, f) /\ id[f] \notin seen[a] /\ Len(queue[a]) < Limit
       /\ hpc' = [hpc EXCEPT ![a][h] = "cleared"]
       /\ hfile' = [hfile EXCEPT ![a][h] = f]
       /\ raced' = IF Overtaken(a, h, f) THEN raced \cup {id[f]} ELSE raced
       /\ UNCHANGED files

\* The watcher thread.
Watch(a, f) ==
    /\ f \in events[a] /\ hpc[a]["watcher"] = "idle"
    /\ events' = [events EXCEPT ![a] = @ \ {f}]
    /\ Look(a, "watcher", f)
    /\ UNCHANGED <<malformed, nameless, polls, rescan, seen, queue, worker, taken, failed,
                   rescued, polled, pruned, faults>>

\* Seeded fault: the file is consumed when it is handed over, and not staged.
StageConsuming(a, h) ==
    /\ hpc[a][h] = "cleared" /\ Directed(hfile[a][h])
    /\ Move(hfile[a][h], "gone")
    /\ hpc' = [hpc EXCEPT ![a][h] = "staged"]
    /\ UNCHANGED <<malformed, nameless, polls, events, rescan, hfile, seen, queue, worker,
                   history, faults>>

\* Seeded fault: a handler that finds the file gone goes on with none.
StageGoingOn(a, h) ==
    /\ hpc[a][h] = "cleared" /\ Directed(hfile[a][h])
    /\ \/ place[hfile[a][h]] = "inbox" /\ Move(hfile[a][h], "processing") /\ UNCHANGED hfile
       \/ /\ place[hfile[a][h]] # "inbox" /\ UNCHANGED files
          /\ hfile' = [hfile EXCEPT ![a][h] = NoFile]
    /\ hpc' = [hpc EXCEPT ![a][h] = "staged"]
    /\ UNCHANGED <<malformed, nameless, polls, events, rescan, seen, queue, worker,
                   history, faults>>

\* _stage_for_processing: an atomic rename, which keeps the mtime.
Stage(a, h) ==
    /\ hpc[a][h] = "cleared" /\ Directed(hfile[a][h])
    /\ \/ /\ place[hfile[a][h]] = "inbox"
          /\ Move(hfile[a][h], "processing")
          /\ hpc' = [hpc EXCEPT ![a][h] = "staged"]
          /\ UNCHANGED hfile
       \/ /\ place[hfile[a][h]] # "inbox"
          /\ hpc' = [hpc EXCEPT ![a][h] = "idle"]
          /\ hfile' = [hfile EXCEPT ![a][h] = NoFile]
          /\ UNCHANGED files
    /\ UNCHANGED <<malformed, nameless, polls, events, rescan, seen, queue, worker,
                   history, faults>>

Submit(a, h) ==
    /\ \/ hpc[a][h] = "staged"
       \/ hpc[a][h] = "cleared" /\ ~Directed(hfile[a][h])
    /\ queue' = [queue EXCEPT ![a] = Append(@, hfile[a][h])]
    /\ hpc' = [hpc EXCEPT ![a][h] = "submitted"]
    /\ UNCHANGED <<malformed, nameless, polls, files, events, rescan, hfile, seen, worker,
                   history, faults>>

\* Seeded fault: the identifier is not recorded.
MarkNothing(a, h) ==
    /\ hpc[a][h] = "submitted"
    /\ hpc' = [hpc EXCEPT ![a][h] = "idle"]
    /\ hfile' = [hfile EXCEPT ![a][h] = NoFile]
    /\ UNCHANGED <<malformed, nameless, polls, files, events, rescan, seen, queue, worker,
                   history, faults>>

\* _mark_processed: of too many ids a half is kept, any half, as a set has no order.
Mark(a, h) ==
    /\ hpc[a][h] = "submitted"
    /\ LET all == seen[a] \cup {id[hfile[a][h]]}
       IN \/ /\ Cardinality(all) <= MaxSeen
             /\ seen' = [seen EXCEPT ![a] = all] /\ UNCHANGED raced
          \/ /\ Cardinality(all) > MaxSeen
             /\ \E kept \in SUBSET all :
                   /\ Cardinality(kept) = MaxSeen \div 2
                   /\ seen' = [seen EXCEPT ![a] = kept]
                   /\ raced' = raced \cup (all \ kept)
    /\ hpc' = [hpc EXCEPT ![a][h] = "idle"]
    /\ hfile' = [hfile EXCEPT ![a][h] = NoFile]
    /\ UNCHANGED <<malformed, nameless, polls, files, events, rescan, queue, worker,
                   taken, failed, rescued, polled, pruned, faults>>

----------------------------------------------------------------------------
(* rescan_inbox.                                                           *)

\* Seeded fault: the rescan covers the inbox only.
RescanWithoutStaged(a) ==
    /\ phase[a] = "rest"
    /\ phase' = [phase EXCEPT ![a] = "staged"]
    /\ UNCHANGED <<malformed, nameless, polls, files, events, list, handler, seen, queue,
                   worker, history, faults>>

RescanStart(a) ==
    /\ phase[a] = "rest"
    /\ phase' = [phase EXCEPT ![a] = "staged"]
    /\ list' = [list EXCEPT ![a] = {f \in Files : place[f] = "processing"}]
    /\ UNCHANGED <<malformed, nameless, polls, files, events, handler, seen, queue,
                   worker, history, faults>>

\* The file waits in a queue, is with a worker, or is about to be submitted.
InFlight(f) ==
    \E a \in Agents : \/ \E n \in DOMAIN queue[a] : queue[a][n] = f
                      \/ \E w \in Workers : wfile[a][w] = f
                      \/ \E h \in Handlers : hfile[a][h] = f /\ hpc[a][h] = "staged"

Resubmit(a, f) ==
    /\ place[f] = "processing" /\ age[f] > 0
    /\ Len(queue[a]) < MaxQueue
    /\ queue' = [queue EXCEPT ![a] = Append(@, f)]
    /\ rescued' = [rescued EXCEPT ![id[f]] = @ \cup {a}]
    /\ raced' = IF InFlight(f) THEN raced \cup {id[f]} ELSE raced

\* A file found in processing: submitted again if its mtime is old enough.
RescanStaged(a, f) ==
    /\ phase[a] = "staged" /\ f \in list[a]
    /\ list' = [list EXCEPT ![a] = @ \ {f}]
    /\ \/ Resubmit(a, f)
       \/ /\ ~(place[f] = "processing" /\ age[f] > 0)
          /\ UNCHANGED <<queue, rescued, raced>>
    /\ UNCHANGED <<malformed, nameless, polls, files, events, phase, handler, seen,
                   worker, taken, failed, polled, pruned, faults>>

RescanInbox(a) ==
    /\ phase[a] = "staged" /\ list[a] = {}
    /\ phase' = [phase EXCEPT ![a] = "inbox"]
    /\ list' = [list EXCEPT ![a] = {f \in Files : place[f] = "inbox"}]
    /\ UNCHANGED <<malformed, nameless, polls, files, events, handler, seen, queue,
                   worker, history, faults>>

RescanLook(a, f) ==
    /\ phase[a] = "inbox" /\ f \in list[a] /\ hpc[a]["rescan"] = "idle"
    /\ list' = [list EXCEPT ![a] = @ \ {f}]
    /\ Look(a, "rescan", f)
    /\ UNCHANGED <<malformed, nameless, polls, events, phase, seen, queue, worker, taken,
                   failed, rescued, polled, pruned, faults>>

RescanEnd(a) ==
    /\ phase[a] = "inbox" /\ list[a] = {} /\ hpc[a]["rescan"] = "idle"
    /\ phase' = [phase EXCEPT ![a] = "rest"]
    /\ UNCHANGED <<malformed, nameless, polls, files, events, list, handler, seen, queue,
                   worker, history, faults>>

----------------------------------------------------------------------------
(* A worker: _process_staged, or process_envelope itself for a broadcast.  *)

Busy(a, w, f, l) == /\ wfile' = [wfile EXCEPT ![a][w] = f]
                    /\ wpc' = [wpc EXCEPT ![a][w] = l]

\* The staged file is read, if it is still there; a broadcast was read before.
Take(a, w) ==
    /\ wpc[a][w] = "free" /\ queue[a] # <<>>
    /\ queue' = [queue EXCEPT ![a] = Tail(@)]
    /\ LET f == Head(queue[a])
       IN \/ (Directed(f) => place[f] = "processing") /\ Busy(a, w, f, "loaded")
          \/ Directed(f) /\ place[f] # "processing" /\ UNCHANGED worker
    /\ UNCHANGED <<malformed, nameless, polls, files, events, rescan, handler, seen,
                   history, faults>>

\* _load_staged_envelope cannot read a file that exists.
LoadFails(a, w) ==
    /\ wpc[a][w] = "free" /\ queue[a] # <<>> /\ Fault
    /\ LET f == Head(queue[a])
       IN Directed(f) /\ place[f] = "processing" /\ Move(f, "deadletter")
    /\ queue' = [queue EXCEPT ![a] = Tail(@)]
    /\ UNCHANGED <<malformed, nameless, polls, events, rescan, handler, seen, worker,
                   history>>

\* process_envelope.  It catches every exception itself: a failure ends as an answer
\* does, and what _process_staged has for one never happens.
process_envelope(a, i) ==
    /\ taken' = [taken EXCEPT ![i][a] = IF @ < 2 THEN @ + 1 ELSE @]
    /\ \/ UNCHANGED <<failed, faults>>
       \/ Fault /\ failed' = failed \cup {i}

Process(a, w) ==
    /\ wpc[a][w] = "loaded"
    /\ wpc' = [wpc EXCEPT ![a][w] = "done"]
    /\ process_envelope(a, id[wfile[a][w]])
    /\ UNCHANGED <<malformed, nameless, polls, files, events, rescan, handler, seen,
                   queue, wfile, rescued, polled, raced, pruned>>

\* Seeded fault: the staged file stays.
FinishKeeping(a, w) ==
    /\ wpc[a][w] = "done"
    /\ Busy(a, w, NoFile, "free")
    /\ UNCHANGED <<malformed, nameless, polls, files, events, rescan, handler, seen,
                   queue, history, faults>>

\* The worker is done: a staged file is unlinked.
Finish(a, w) ==
    /\ wpc[a][w] = "done"
    /\ IF place[wfile[a][w]] = "processing" THEN Move(wfile[a][w], "gone") ELSE UNCHANGED files
    /\ Busy(a, w, NoFile, "free")
    /\ UNCHANGED <<malformed, nameless, polls, events, rescan, handler, seen, queue,
                   history, faults>>

\* The daemon is killed and started again: files stay, memory does not.
Restart(a) ==
    /\ Fault
    /\ events' = [events EXCEPT ![a] = {}]
    /\ phase' = [phase EXCEPT ![a] = "rest"] /\ list' = [list EXCEPT ![a] = {}]
    /\ hpc' = [hpc EXCEPT ![a] = [h \in Handlers |-> "idle"]]
    /\ hfile' = [hfile EXCEPT ![a] = [h \in Handlers |-> NoFile]]
    /\ seen' = [seen EXCEPT ![a] = {}]
    /\ queue' = [queue EXCEPT ![a] = <<>>]
    /\ wpc' = [wpc EXCEPT ![a] = [w \in Workers |-> "free"]]
    /\ wfile' = [wfile EXCEPT ![a] = [w \in Workers |-> NoFile]]
    /\ polls' = [polls EXCEPT ![a] = {}]
    /\ raced' = raced \cup {id[f] : f \in {g \in Files : place[g] # "coming"}}
    /\ UNCHANGED <<malformed, nameless, files, taken, failed, rescued, polled, pruned>>

----------------------------------------------------------------------------
(* The daemon's poll.                                                      *)

\* SKComms.receive: an envelope is read and its file archived, whoever it is for.
Receive(a, f) ==
    /\ a \in Polling /\ place[f] = "inbox" /\ f \notin malformed
    /\ Move(f, "gone")
    /\ polls' = [polls EXCEPT ![a] = @ \cup {f}]
    /\ polled' = [polled EXCEPT ![id[f]] = @ \cup {a}]
    /\ UNCHANGED <<malformed, nameless, events, rescan, handler, seen, queue, worker,
                   taken, failed, rescued, raced, pruned, faults>>

\* _process_messages: process_envelope, without staging it and without _processed_ids.
ProcessMessage(a, f) ==
    /\ f \in polls[a]
    /\ polls' = [polls EXCEPT ![a] = @ \ {f}]
    /\ process_envelope(a, id[f])
    /\ raced' = raced \cup {id[f]}
    /\ UNCHANGED <<malformed, nameless, files, events, rescan, handler, seen, queue,
                   worker, rescued, polled, pruned>>

----------------------------------------------------------------------------

Handle(a, h) == Stage(a, h) \/ Submit(a, h) \/ Mark(a, h)
Rescan(a) == \/ RescanStart(a) \/ RescanInbox(a) \/ RescanEnd(a)
             \/ \E f \in Files : RescanStaged(a, f) \/ RescanLook(a, f)
Work(a, w) == Take(a, w) \/ LoadFails(a, w) \/ Process(a, w) \/ Finish(a, w)

Next ==
    \/ \E f \in Files : Arrive(f) \/ Grow(f) \/ Prune(f)
    \/ \E a \in Agents :
          \/ \E f \in Files : Watch(a, f) \/ Receive(a, f) \/ ProcessMessage(a, f)
          \/ \E h \in Handlers : Handle(a, h)
          \/ Rescan(a) \/ Restart(a)
          \/ \E w \in Workers : Work(a, w)

Spec == Init /\ [][Next]_vars

\* Time passes, the rescan thread comes round, a handler goes on, and each worker finishes
\* what it has: backends have timeouts.  Nothing is assumed of the watcher and the poll.
FairSpec == /\ Spec
            /\ \A f \in Files : WF_vars(Grow(f))
            /\ \A a \in Agents :
                  /\ WF_vars(Rescan(a))
                  /\ \A h \in Handlers : WF_vars(Handle(a, h))
                  /\ \A w \in Workers : WF_vars(Work(a, w))

----------------------------------------------------------------------------
(* Properties.                                                             *)

TypeOK ==
    /\ place \in [Files -> {"coming", "inbox", "processing", "deadletter", "gone"}]
    /\ age \in [Files -> 0 .. 2] /\ malformed \subseteq Files
    /\ nameless \subseteq Unnamed /\ polls \in [Agents -> SUBSET Files]
    /\ events \in [Agents -> SUBSET Files]
    /\ phase \in [Agents -> {"rest", "staged", "inbox"}] /\ list \in [Agents -> SUBSET Files]
    /\ hpc \in [Agents -> [Handlers -> {"idle", "cleared", "staged", "submitted"}]]
    /\ hfile \in [Agents -> [Handlers -> Files \cup {NoFile}]]
    /\ \A a \in Agents, h \in Handlers : hpc[a][h] # "idle" => hfile[a][h] \in Files
    /\ seen \in [Agents -> SUBSET Ids]
    /\ queue \in [Agents -> Seq(Files)]
    /\ wpc \in [Agents -> [Workers -> {"free", "loaded", "done"}]]
    /\ wfile \in [Agents -> [Workers -> Files \cup {NoFile}]]
    /\ \A a \in Agents, w \in Workers : wpc[a][w] # "free" => wfile[a][w] \in Files
    /\ taken \in [Ids -> [Agents -> 0 .. 2]]
    /\ rescued \in [Ids -> SUBSET Agents] /\ polled \in [Ids -> SUBSET Agents]
    /\ failed \subseteq Ids /\ raced \subseteq Ids /\ pruned \subseteq Ids
    /\ faults \in 0 .. MaxFaults

Kept == {"inbox", "processing", "deadletter"}

\* "Presence-on-disk is the durable unconsumed marker" (consciousness_loop.py:2347):
\* until a message has been processed, a copy of it is in the inbox, in processing or in
\* deadletter, whatever copies, rescans and restarts do.  Three things void that: the
\* TTL, a daemon's poll, which archives before it processes, and a process_envelope that
\* fails, after which the file is removed all the same.
NothingLost ==
    \A f \in Files : place[f] # "coming" /\ id[f] \notin pruned \cup failed /\ polled[id[f]] = {} =>
        \/ \E a \in Agents : taken[id[f]][a] > 0
        \/ \E g \in Files : id[g] = id[f] /\ place[g] \in Kept

\* A loop processes a message once, however many copies of it arrive and whichever
\* thread sees them first, and of the loops that have a name one processes it, unless a
\* rescan submits it while it is in flight, two threads pass the test for duplicates
\* together, a loop restarts or forgets it, or a daemon's poll processes a copy.
OnceUnlessRaced ==
    \A i \in Ids \ raced :
        /\ \A a \in Agents : taken[i][a] <= 1
        /\ to[i] # Everyone => \A a, b \in Agents \ nameless :
                                  taken[i][a] > 0 /\ taken[i][b] > 0 => a = b

\* A message for one agent is processed by another only if that agent's rescan found
\* it in processing, or its daemon's poll in the inbox, or it has no name.
RecipientUnlessRescued ==
    \A i \in Ids, a \in Agents :
        taken[i][a] > 0 => \/ to[i] \in {a, Everyone} \/ a \in nameless
                           \/ a \in rescued[i] \cup polled[i]

\* An envelope in the inbox does not stay there, and one in processing neither,
\* though watchers miss files and a full queue turns them away.
EveryMessageLeaves ==
    \A f \in Files : (place[f] \in {"inbox", "processing"} /\ Directed(f))
                        ~> (place[f] \notin {"inbox", "processing"})
=============================================================================
