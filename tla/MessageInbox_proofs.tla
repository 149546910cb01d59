------------------------ MODULE MessageInbox_proofs ------------------------
(***************************************************************************)
(* Proofs about MessageInbox: type correctness, that no message is lost,    *)
(* and that a message is processed by its recipient or by a loop whose      *)
(* rescan picked it up, for any number of loops, workers, files, messages,  *)
(* resubmissions and restarts.                                             *)
(***************************************************************************)
EXTENDS MessageInbox, TLAPS

USE InboxAssumption

(***************************************************************************)
(* Type correctness.                                                       *)
(***************************************************************************)

\* Moving a file keeps the types of its place and age.
LEMMA MoveType ==
    ASSUME TypeOK, NEW f \in Files,
           NEW p \in {"coming", "inbox", "processing", "deadletter", "gone"}, Move(f, p)
    PROVE  /\ place' \in [Files -> {"coming", "inbox", "processing", "deadletter", "gone"}]
           /\ age' \in [Files -> 0 .. 2]
  BY DEF TypeOK, Move

\* Setting one entry of a table of tables keeps its type.
LEMMA NestedType ==
    ASSUME NEW A, NEW B, NEW C, NEW t \in [A -> [B -> C]], NEW x \in A, NEW y \in B, NEW c \in C
    PROVE  [t EXCEPT ![x][y] = c] \in [A -> [B -> C]]
  OBVIOUS

\* What a handler and the file it holds look like after a step of one handler.
LEMMA HandlerType ==
    ASSUME TypeOK, NEW a \in Agents, NEW h \in Handlers,
           NEW l \in {"idle", "cleared", "staged", "submitted"}, NEW g \in Files \cup {NoFile},
           l # "idle" => g \in Files,
           hpc' = [hpc EXCEPT ![a][h] = l], hfile' = [hfile EXCEPT ![a][h] = g]
    PROVE  /\ hpc' \in [Agents -> [Handlers -> {"idle", "cleared", "staged", "submitted"}]]
           /\ hfile' \in [Agents -> [Handlers -> Files \cup {NoFile}]]
           /\ \A b \in Agents, k \in Handlers : hpc'[b][k] # "idle" => hfile'[b][k] \in Files
<1>1. /\ hpc \in [Agents -> [Handlers -> {"idle", "cleared", "staged", "submitted"}]]
      /\ hfile \in [Agents -> [Handlers -> Files \cup {NoFile}]]
      /\ \A b \in Agents, k \in Handlers : hpc[b][k] # "idle" => hfile[b][k] \in Files
  BY DEF TypeOK
<1>2. hpc' \in [Agents -> [Handlers -> {"idle", "cleared", "staged", "submitted"}]]
  BY <1>1, NestedType
<1>3. hfile' \in [Agents -> [Handlers -> Files \cup {NoFile}]]
  BY <1>1, NestedType
<1>4. \A b \in Agents, k \in Handlers : hpc'[b][k] # "idle" => hfile'[b][k] \in Files
  BY <1>1
<1>. QED  BY <1>2, <1>3, <1>4

\* What a worker and the file it holds look like after a step of one worker.
LEMMA WorkerType ==
    ASSUME TypeOK, NEW a \in Agents, NEW w \in Workers, NEW l \in {"free", "loaded", "done"},
           NEW g \in Files \cup {NoFile}, l # "free" => g \in Files, Busy(a, w, g, l)
    PROVE  /\ wpc' \in [Agents -> [Workers -> {"free", "loaded", "done"}]]
           /\ wfile' \in [Agents -> [Workers -> Files \cup {NoFile}]]
           /\ \A b \in Agents, v \in Workers : wpc'[b][v] # "free" => wfile'[b][v] \in Files
<1>1. /\ wpc \in [Agents -> [Workers -> {"free", "loaded", "done"}]]
      /\ wfile \in [Agents -> [Workers -> Files \cup {NoFile}]]
      /\ \A b \in Agents, v \in Workers : wpc[b][v] # "free" => wfile[b][v] \in Files
  BY DEF TypeOK
<1>2. wpc' \in [Agents -> [Workers -> {"free", "loaded", "done"}]]
  BY <1>1, NestedType DEF Busy
<1>3. wfile' \in [Agents -> [Workers -> Files \cup {NoFile}]]
  BY <1>1, NestedType DEF Busy
<1>4. \A b \in Agents, v \in Workers : wpc'[b][v] # "free" => wfile'[b][v] \in Files
  BY <1>1 DEF Busy
<1>. QED  BY <1>2, <1>3, <1>4

\* What a look at a file changes is well typed.
LEMMA LookType ==
    ASSUME TypeOK, NEW a \in Agents, NEW h \in Handlers, NEW f \in Files, Look(a, h, f)
    PROVE  /\ place' \in [Files -> {"coming", "inbox", "processing", "deadletter", "gone"}]
           /\ age' \in [Files -> 0 .. 2]
           /\ hpc' \in [Agents -> [Handlers -> {"idle", "cleared", "staged", "submitted"}]]
           /\ hfile' \in [Agents -> [Handlers -> Files \cup {NoFile}]]
           /\ \A b \in Agents, k \in Handlers : hpc'[b][k] # "idle" => hfile'[b][k] \in Files
           /\ raced' \subseteq Ids
<1>1. CASE UNCHANGED <<files, handler, raced>>
  BY <1>1 DEF TypeOK, files, handler
<1>2. CASE UNCHANGED <<handler, raced>> /\ (Move(f, "deadletter") \/ Move(f, "gone"))
  BY <1>2, MoveType DEF TypeOK, handler
<1>3. CASE /\ hpc' = [hpc EXCEPT ![a][h] = "cleared"] /\ hfile' = [hfile EXCEPT ![a][h] = f]
           /\ raced' = IF Overtaken(a, h, f) THEN raced \cup {id[f]} ELSE raced
           /\ UNCHANGED files
  <2>1. /\ hpc' \in [Agents -> [Handlers -> {"idle", "cleared", "staged", "submitted"}]]
        /\ hfile' \in [Agents -> [Handlers -> Files \cup {NoFile}]]
        /\ \A b \in Agents, k \in Handlers : hpc'[b][k] # "idle" => hfile'[b][k] \in Files
    BY <1>3, HandlerType
  <2>2. raced' \subseteq Ids
    BY <1>3 DEF TypeOK
  <2>. QED  BY <1>3, <2>1, <2>2 DEF TypeOK, files
<1>. QED  BY <1>1, <1>2, <1>3 DEF Look

\* What a run of process_envelope changes is well typed.
LEMMA TakenType ==
    ASSUME TypeOK, NEW a \in Agents, NEW i \in Ids, process_envelope(a, i)
    PROVE  /\ taken' \in [Ids -> [Agents -> 0 .. 2]] /\ failed' \subseteq Ids
           /\ faults' \in 0 .. MaxFaults
<1>1. taken \in [Ids -> [Agents -> 0 .. 2]] /\ taken[i][a] \in 0 .. 2
  BY DEF TypeOK
<1>2. PICK c \in 0 .. 2 : taken' = [taken EXCEPT ![i][a] = c]
  <2>1. (IF taken[i][a] < 2 THEN taken[i][a] + 1 ELSE taken[i][a]) \in 0 .. 2
    BY <1>1
  <2>2. taken' = [taken EXCEPT ![i][a] = IF taken[i][a] < 2 THEN taken[i][a] + 1
                                         ELSE taken[i][a]]
    BY DEF process_envelope
  <2>. QED  BY <2>1, <2>2
<1>3. taken' \in [Ids -> [Agents -> 0 .. 2]]
  BY <1>1, <1>2, NestedType
<1>. QED  BY <1>3 DEF process_envelope, Fault, TypeOK

\* A worker's step keeps the types.
LEMMA WorkType ==
    ASSUME TypeOK, NEW a \in Agents, NEW w \in Workers, Work(a, w)
    PROVE  TypeOK'
<1>. USE DEF files, rescan, handler, worker, history
<1>1. ASSUME Take(a, w) PROVE TypeOK'
  <2>1. /\ queue[a] \in Seq(Files) /\ queue[a] # <<>>
        /\ queue' = [queue EXCEPT ![a] = Tail(@)]
    BY <1>1 DEF Take, TypeOK
  <2>2. /\ Head(queue[a]) \in Files /\ Tail(queue[a]) \in Seq(Files)
    BY <2>1
  <2>3. queue' \in [Agents -> Seq(Files)]
    BY <2>1, <2>2 DEF TypeOK
  <2>4. /\ wpc' \in [Agents -> [Workers -> {"free", "loaded", "done"}]]
        /\ wfile' \in [Agents -> [Workers -> Files \cup {NoFile}]]
        /\ \A b \in Agents, v \in Workers : wpc'[b][v] # "free" => wfile'[b][v] \in Files
    <3>1. CASE UNCHANGED worker
      BY <3>1 DEF TypeOK
    <3>2. CASE Busy(a, w, Head(queue[a]), "loaded")
      BY <3>2, <2>2, WorkerType
    <3>. QED  BY <1>1, <3>1, <3>2 DEF Take
  <2>. QED  BY <1>1, <2>3, <2>4 DEF Take, TypeOK
<1>2. ASSUME LoadFails(a, w) PROVE TypeOK'
  <2>1. /\ queue[a] \in Seq(Files) /\ queue[a] # <<>>
        /\ queue' = [queue EXCEPT ![a] = Tail(@)]
    BY <1>2 DEF LoadFails, TypeOK
  <2>2. /\ Head(queue[a]) \in Files /\ Tail(queue[a]) \in Seq(Files)
    BY <2>1
  <2>3. queue' \in [Agents -> Seq(Files)]
    BY <2>1, <2>2 DEF TypeOK
  <2>4. /\ place' \in [Files -> {"coming", "inbox", "processing", "deadletter", "gone"}]
        /\ age' \in [Files -> 0 .. 2]
    BY <1>2, <2>2, MoveType DEF LoadFails
  <2>5. faults' \in 0 .. MaxFaults
    BY <1>2 DEF LoadFails, Fault, TypeOK
  <2>. QED  BY <1>2, <2>3, <2>4, <2>5 DEF LoadFails, TypeOK
<1>3. ASSUME Process(a, w) PROVE TypeOK'
  <2>1. /\ wfile[a][w] \in Files /\ id[wfile[a][w]] \in Ids
    BY <1>3 DEF Process, TypeOK
  <2>2. /\ taken' \in [Ids -> [Agents -> 0 .. 2]] /\ failed' \subseteq Ids
        /\ faults' \in 0 .. MaxFaults
    BY <1>3, <2>1, TakenType DEF Process
  <2>3. wpc' = [wpc EXCEPT ![a][w] = "done"] /\ wfile' = wfile
    BY <1>3 DEF Process
  <2>4. wpc' \in [Agents -> [Workers -> {"free", "loaded", "done"}]]
    BY <2>3, NestedType DEF TypeOK
  <2>5. \A b \in Agents, v \in Workers : wpc'[b][v] # "free" => wfile'[b][v] \in Files
    BY <2>1, <2>3 DEF TypeOK
  <2>. QED  BY <1>3, <2>2, <2>3, <2>4, <2>5 DEF Process, TypeOK
<1>4. ASSUME Finish(a, w) PROVE TypeOK'
  <2>1. wfile[a][w] \in Files
    BY <1>4 DEF Finish, TypeOK
  <2>2. /\ place' \in [Files -> {"coming", "inbox", "processing", "deadletter", "gone"}]
        /\ age' \in [Files -> 0 .. 2]
    <3>1. CASE Move(wfile[a][w], "gone")
      BY <2>1, <3>1, MoveType
    <3>2. CASE UNCHANGED files
      BY <3>2 DEF TypeOK
    <3>. QED  BY <1>4, <3>1, <3>2 DEF Finish
  <2>3. /\ wpc' \in [Agents -> [Workers -> {"free", "loaded", "done"}]]
        /\ wfile' \in [Agents -> [Workers -> Files \cup {NoFile}]]
        /\ \A b \in Agents, v \in Workers : wpc'[b][v] # "free" => wfile'[b][v] \in Files
    BY <1>4, WorkerType DEF Finish
  <2>. QED  BY <1>4, <2>2, <2>3 DEF Finish, TypeOK
<1>. QED  BY <1>1, <1>2, <1>3, <1>4 DEF Work

\* A handler's step keeps the types.
LEMMA HandleType ==
    ASSUME TypeOK, NEW a \in Agents, NEW h \in Handlers, Handle(a, h)
    PROVE  TypeOK'
<1>. USE DEF files, rescan, handler, worker, history
<1>. DEFINE f == hfile[a][h]
<1>1. f \in Files
  BY DEF Handle, Stage, Submit, Mark, TypeOK
<1>2. hpc = [hpc EXCEPT ![a][h] = hpc[a][h]] /\ hfile = [hfile EXCEPT ![a][h] = f]
  BY DEF TypeOK
<1>3. ASSUME Stage(a, h) PROVE TypeOK'
  <2>1. /\ place' \in [Files -> {"coming", "inbox", "processing", "deadletter", "gone"}]
        /\ age' \in [Files -> 0 .. 2]
    <3>1. CASE Move(f, "processing")
      BY <1>1, <3>1, MoveType
    <3>2. CASE UNCHANGED files
      BY <3>2 DEF TypeOK
    <3>. QED  BY <1>3, <3>1, <3>2 DEF Stage
  <2>2. /\ hpc' \in [Agents -> [Handlers -> {"idle", "cleared", "staged", "submitted"}]]
        /\ hfile' \in [Agents -> [Handlers -> Files \cup {NoFile}]]
        /\ \A b \in Agents, k \in Handlers : hpc'[b][k] # "idle" => hfile'[b][k] \in Files
    <3>1. CASE hpc' = [hpc EXCEPT ![a][h] = "staged"] /\ UNCHANGED hfile
      <4>1. hfile' = [hfile EXCEPT ![a][h] = f]
        BY <3>1, <1>2
      <4>. QED  BY <3>1, <4>1, <1>1, HandlerType
    <3>2. CASE hpc' = [hpc EXCEPT ![a][h] = "idle"] /\ hfile' = [hfile EXCEPT ![a][h] = NoFile]
      BY <3>2, HandlerType
    <3>. QED  BY <1>3, <3>1, <3>2 DEF Stage
  <2>. QED  BY <1>3, <2>1, <2>2 DEF Stage, TypeOK
<1>4. ASSUME Submit(a, h) PROVE TypeOK'
  <2>1. queue' \in [Agents -> Seq(Files)]
    <3>1. Append(queue[a], f) \in Seq(Files)
      BY <1>1 DEF TypeOK
    <3>. QED  BY <1>4, <3>1 DEF Submit, TypeOK
  <2>2. /\ hpc' = [hpc EXCEPT ![a][h] = "submitted"]
        /\ hfile' = [hfile EXCEPT ![a][h] = f]
    BY <1>4, <1>2 DEF Submit
  <2>3. /\ hpc' \in [Agents -> [Handlers -> {"idle", "cleared", "staged", "submitted"}]]
        /\ hfile' \in [Agents -> [Handlers -> Files \cup {NoFile}]]
        /\ \A b \in Agents, k \in Handlers : hpc'[b][k] # "idle" => hfile'[b][k] \in Files
    BY <1>1, <2>2, HandlerType
  <2>. QED  BY <1>4, <2>1, <2>3 DEF Submit, TypeOK
<1>5. ASSUME Mark(a, h) PROVE TypeOK'
  <2>1. seen' \in [Agents -> SUBSET Ids] /\ raced' \subseteq Ids
    <3>. DEFINE all == seen[a] \cup {id[f]}
    <3>1. all \in SUBSET Ids
      BY <1>1 DEF TypeOK
    <3>2. CASE seen' = [seen EXCEPT ![a] = all] /\ UNCHANGED raced
      BY <3>1, <3>2 DEF TypeOK
    <3>3. ASSUME NEW kept \in SUBSET all, seen' = [seen EXCEPT ![a] = kept],
                 raced' = raced \cup (all \ kept)
          PROVE  seen' \in [Agents -> SUBSET Ids] /\ raced' \subseteq Ids
      BY <3>1, <3>3 DEF TypeOK
    <3>. QED  BY <1>5, <3>2, <3>3 DEF Mark
  <2>2. /\ hpc' \in [Agents -> [Handlers -> {"idle", "cleared", "staged", "submitted"}]]
        /\ hfile' \in [Agents -> [Handlers -> Files \cup {NoFile}]]
        /\ \A b \in Agents, k \in Handlers : hpc'[b][k] # "idle" => hfile'[b][k] \in Files
    BY <1>5, HandlerType DEF Mark
  <2>. QED  BY <1>5, <2>1, <2>2 DEF Mark, TypeOK
<1>. QED  BY <1>3, <1>4, <1>5 DEF Handle

\* A rescan's step keeps the types.
LEMMA RescanType ==
    ASSUME TypeOK, NEW a \in Agents, Rescan(a)
    PROVE  TypeOK'
<1>. USE DEF files, rescan, handler, worker, history
<1>1. CASE RescanStart(a) \/ RescanInbox(a) \/ RescanEnd(a)
  <2>. DEFINE In(p) == {f \in Files : place[f] = p}
  <2>1. PICK l \in {"rest", "staged", "inbox"}, F \in SUBSET Files :
          phase' = [phase EXCEPT ![a] = l] /\ list' \in {list, [list EXCEPT ![a] = F]}
    <3>1. CASE RescanStart(a)
      BY <3>1, In("processing") \in SUBSET Files DEF RescanStart
    <3>2. CASE RescanInbox(a)
      BY <3>2, In("inbox") \in SUBSET Files DEF RescanInbox
    <3>3. CASE RescanEnd(a)
      BY <3>3 DEF RescanEnd
    <3>. QED  BY <1>1, <3>1, <3>2, <3>3
  <2>3. /\ phase' \in [Agents -> {"rest", "staged", "inbox"}]
        /\ list' \in [Agents -> SUBSET Files]
    BY <2>1 DEF TypeOK
  <2>2. UNCHANGED <<malformed, nameless, polls, files, events, handler, seen, queue, worker, history,
                    faults>>
    BY <1>1 DEF RescanStart, RescanInbox, RescanEnd
  <2>. QED  BY <2>2, <2>3 DEF TypeOK
<1>2. ASSUME NEW f \in Files, RescanStaged(a, f) PROVE TypeOK'
  <2>1. list' \in [Agents -> SUBSET Files]
    BY <1>2 DEF RescanStaged, TypeOK
  <2>2. /\ queue' \in [Agents -> Seq(Files)] /\ rescued' \in [Ids -> SUBSET Agents]
        /\ raced' \subseteq Ids
    <3>1. CASE UNCHANGED <<queue, rescued, raced>>
      BY <3>1 DEF TypeOK
    <3>2. CASE Resubmit(a, f)
      <4>1. Append(queue[a], f) \in Seq(Files)
        BY DEF TypeOK
      <4>. QED  BY <3>2, <4>1 DEF Resubmit, TypeOK
    <3>. QED  BY <1>2, <3>1, <3>2 DEF RescanStaged
  <2>. QED  BY <1>2, <2>1, <2>2 DEF RescanStaged, TypeOK
<1>3. ASSUME NEW f \in Files, RescanLook(a, f) PROVE TypeOK'
  <2>1. list' \in [Agents -> SUBSET Files]
    BY <1>3 DEF RescanLook, TypeOK
  <2>2. /\ place' \in [Files -> {"coming", "inbox", "processing", "deadletter", "gone"}]
        /\ age' \in [Files -> 0 .. 2]
        /\ hpc' \in [Agents -> [Handlers -> {"idle", "cleared", "staged", "submitted"}]]
        /\ hfile' \in [Agents -> [Handlers -> Files \cup {NoFile}]]
        /\ \A b \in Agents, k \in Handlers : hpc'[b][k] # "idle" => hfile'[b][k] \in Files
        /\ raced' \subseteq Ids
    <3>1. Look(a, "rescan", f) /\ "rescan" \in Handlers
      BY <1>3 DEF RescanLook, Handlers
    <3>. QED  BY <3>1, LookType
  <2>. QED  BY <1>3, <2>1, <2>2 DEF RescanLook, TypeOK
<1>. QED  BY <1>1, <1>2, <1>3 DEF Rescan

\* Every step keeps the types.
LEMMA TypeInductive == TypeOK /\ [Next]_vars => TypeOK'
<1>. SUFFICES ASSUME TypeOK, [Next]_vars PROVE TypeOK'
  OBVIOUS
<1>. USE DEF files, rescan, handler, worker, history
<1>1. CASE UNCHANGED vars
  BY <1>1 DEF vars, TypeOK
<1>2. ASSUME NEW f \in Files, Arrive(f) PROVE TypeOK'
  <2>1. /\ place' \in [Files -> {"coming", "inbox", "processing", "deadletter", "gone"}]
        /\ age' \in [Files -> 0 .. 2]
    BY <1>2, MoveType DEF Arrive
  <2>2. events' \in [Agents -> SUBSET Files] /\ malformed' \subseteq Files
    BY <1>2 DEF Arrive, TypeOK
  <2>. QED  BY <1>2, <2>1, <2>2 DEF Arrive, TypeOK
<1>3. ASSUME NEW f \in Files, Grow(f) PROVE TypeOK'
  <2>1. age \in [Files -> 0 .. 2] /\ age[f] < 2 /\ age' = [age EXCEPT ![f] = age[f] + 1]
    BY <1>3 DEF Grow, TypeOK
  <2>2. age[f] + 1 \in 0 .. 2
    BY <2>1
  <2>3. age' \in [Files -> 0 .. 2]
    BY <2>1, <2>2
  <2>. QED  BY <1>3, <2>3 DEF Grow, TypeOK
<1>4. ASSUME NEW f \in Files, Prune(f) PROVE TypeOK'
  <2>1. /\ place' \in [Files -> {"coming", "inbox", "processing", "deadletter", "gone"}]
        /\ age' \in [Files -> 0 .. 2]
    BY <1>4, MoveType DEF Prune
  <2>2. pruned' \subseteq Ids
    BY <1>4 DEF Prune, TypeOK
  <2>. QED  BY <1>4, <2>1, <2>2 DEF Prune, TypeOK
<1>5. ASSUME NEW a \in Agents, NEW f \in Files, Watch(a, f) PROVE TypeOK'
  <2>1. events' \in [Agents -> SUBSET Files]
    BY <1>5 DEF Watch, TypeOK
  <2>2. /\ place' \in [Files -> {"coming", "inbox", "processing", "deadletter", "gone"}]
        /\ age' \in [Files -> 0 .. 2]
        /\ hpc' \in [Agents -> [Handlers -> {"idle", "cleared", "staged", "submitted"}]]
        /\ hfile' \in [Agents -> [Handlers -> Files \cup {NoFile}]]
        /\ \A b \in Agents, k \in Handlers : hpc'[b][k] # "idle" => hfile'[b][k] \in Files
        /\ raced' \subseteq Ids
    <3>1. Look(a, "watcher", f) /\ "watcher" \in Handlers
      BY <1>5 DEF Watch, Handlers
    <3>. QED  BY <3>1, LookType
  <2>. QED  BY <1>5, <2>1, <2>2 DEF Watch, TypeOK
<1>6. ASSUME NEW a \in Agents, Restart(a) PROVE TypeOK'
  <2>1. /\ events' \in [Agents -> SUBSET Files] /\ seen' \in [Agents -> SUBSET Ids]
        /\ phase' \in [Agents -> {"rest", "staged", "inbox"}]
        /\ list' \in [Agents -> SUBSET Files] /\ queue' \in [Agents -> Seq(Files)]
    BY <1>6 DEF Restart, TypeOK
  <2>2. /\ hpc' \in [Agents -> [Handlers -> {"idle", "cleared", "staged", "submitted"}]]
        /\ hfile' \in [Agents -> [Handlers -> Files \cup {NoFile}]]
        /\ \A b \in Agents, k \in Handlers : hpc'[b][k] # "idle" => hfile'[b][k] \in Files
    BY <1>6 DEF Restart, TypeOK
  <2>3. /\ wpc' \in [Agents -> [Workers -> {"free", "loaded", "done"}]]
        /\ wfile' \in [Agents -> [Workers -> Files \cup {NoFile}]]
        /\ \A b \in Agents, v \in Workers : wpc'[b][v] # "free" => wfile'[b][v] \in Files
    BY <1>6 DEF Restart, TypeOK
  <2>4. /\ raced' \subseteq Ids /\ faults' \in 0 .. MaxFaults
        /\ polls' \in [Agents -> SUBSET Files]
    BY <1>6 DEF Restart, Fault, TypeOK
  <2>. QED  BY <1>6, <2>1, <2>2, <2>3, <2>4 DEF Restart, TypeOK
<1>7. ASSUME NEW a \in Agents, NEW h \in Handlers, Handle(a, h) PROVE TypeOK'
  BY <1>7, HandleType
<1>8. ASSUME NEW a \in Agents, Rescan(a) PROVE TypeOK'
  BY <1>8, RescanType
<1>9. ASSUME NEW a \in Agents, NEW w \in Workers, Work(a, w) PROVE TypeOK'
  BY <1>9, WorkType
<1>10. ASSUME NEW a \in Agents, NEW f \in Files, Receive(a, f) PROVE TypeOK'
  <2>1. /\ place' \in [Files -> {"coming", "inbox", "processing", "deadletter", "gone"}]
        /\ age' \in [Files -> 0 .. 2]
    BY <1>10, MoveType DEF Receive
  <2>2. polls' \in [Agents -> SUBSET Files] /\ polled' \in [Ids -> SUBSET Agents]
    BY <1>10 DEF Receive, TypeOK
  <2>. QED  BY <1>10, <2>1, <2>2 DEF Receive, TypeOK
<1>11. ASSUME NEW a \in Agents, NEW f \in Files, ProcessMessage(a, f) PROVE TypeOK'
  <2>1. /\ taken' \in [Ids -> [Agents -> 0 .. 2]] /\ failed' \subseteq Ids
        /\ faults' \in 0 .. MaxFaults
    BY <1>11, TakenType DEF ProcessMessage
  <2>2. polls' \in [Agents -> SUBSET Files] /\ raced' \subseteq Ids
    BY <1>11 DEF ProcessMessage, TypeOK
  <2>. QED  BY <1>11, <2>1, <2>2 DEF ProcessMessage, TypeOK
<1>. QED
  BY <1>1, <1>2, <1>3, <1>4, <1>5, <1>6, <1>7, <1>8, <1>9, <1>10, <1>11 DEF Next

\* The constants are well typed, and a loop starts with nothing in memory.
LEMMA TypeInit == Init => TypeOK
  BY DEF Init, TypeOK

\* TypeOK holds of every behaviour.
THEOREM TypeCorrect == Spec => []TypeOK
<1>. QED  BY TypeInit, TypeInductive, PTL DEF Spec

(***************************************************************************)
(* No message is lost.  A message is held when it has been processed, the   *)
(* TTL or a daemon's poll has taken a copy, or a copy is set aside in       *)
(* processing or deadletter.                                                *)
(* Held messages stay held, and a loop remembers only held ones: that is    *)
(* why a duplicate may be consumed.                                        *)
(***************************************************************************)

Taken(i) == \E a \in Agents : taken[i][a] > 0
Done(i) == Taken(i) \/ i \in pruned \/ polled[i] # {}
Held(i) == Done(i) \/ \E g \in Files : id[g] = i /\ place[g] \in {"processing", "deadletter"}
Present(i) == Done(i) \/ \E g \in Files : id[g] = i /\ place[g] \in Kept

SeenHeld == \A a \in Agents : \A i \in seen[a] : to[i] # Everyone => Held(i)

HandlersHold ==
    \A a \in Agents, h \in Handlers :
        hpc[a][h] \in {"staged", "submitted"} /\ Directed(hfile[a][h]) => Held(id[hfile[a][h]])

WorkersDone == \A a \in Agents, w \in Workers : wpc[a][w] = "done" => Taken(id[wfile[a][w]])

HeldInv == SeenHeld /\ HandlersHold /\ WorkersDone

\* A step that moves only files that are not set aside, and counts no less, keeps
\* what is held held.
LEMMA HeldStays ==
    ASSUME NEW i, Held(i),
           \A g \in Files : place[g] \in {"processing", "deadletter"} =>
                               \/ place'[g] \in {"processing", "deadletter"}
                               \/ Done(id[g])',
           Done(i) => Done(i)'
    PROVE  Held(i)'
  BY DEF Held

\* Only process_envelope counts: in a worker, or in the daemon's poll.
LEMMA Runs ==
    ASSUME [Next]_vars
    PROVE  \/ UNCHANGED taken
           \/ \E a \in Agents, w \in Workers : Process(a, w)
           \/ \E a \in Agents, f \in Files : ProcessMessage(a, f)
<1>. USE DEF history
<1>1. ASSUME NEW a \in Agents, Rescan(a) \/ \E h \in Handlers : Handle(a, h)
      PROVE  UNCHANGED taken
  BY <1>1 DEF Handle, Stage, Submit, Mark, Rescan, RescanStart, RescanStaged, RescanInbox,
              RescanLook, RescanEnd
<1>2. ASSUME NEW a \in Agents, NEW w \in Workers, Work(a, w) PROVE UNCHANGED taken \/ Process(a, w)
  BY <1>2 DEF Work, Take, LoadFails, Finish
<1>. QED  BY <1>1, <1>2 DEF Next, vars, Arrive, Grow, Prune, Watch, Restart, Receive

\* What has been processed stays processed.
LEMMA TakenStays ==
    ASSUME TypeOK, [Next]_vars, NEW i \in Ids, Taken(i)
    PROVE  Taken(i)'
<1>. USE DEF Taken, history
<1>1. PICK b \in Agents : taken[i][b] > 0
  OBVIOUS
<1>2. ASSUME NEW a \in Agents, NEW j \in Ids, process_envelope(a, j) PROVE taken'[i][b] > 0
  <2>1. taken \in [Ids -> [Agents -> 0 .. 2]]
    BY DEF TypeOK
  <2>2. taken' = [taken EXCEPT ![j][a] = IF taken[j][a] < 2 THEN taken[j][a] + 1
                                         ELSE taken[j][a]]
    BY <1>2 DEF process_envelope
  <2>3. CASE j = i /\ a = b
    BY <2>1, <2>2, <2>3, <1>1
  <2>4. CASE ~(j = i /\ a = b)
    BY <2>1, <2>2, <2>4, <1>1
  <2>. QED  BY <2>3, <2>4
<1>3. CASE UNCHANGED taken
  BY <1>1, <1>3
<1>. QED  BY <1>1, <1>2, <1>3, Runs DEF Process, ProcessMessage, TypeOK

\* The records of the TTL and of the polls grow.
LEMMA PolledGrows ==
    ASSUME TypeOK, [Next]_vars, NEW i \in Ids
    PROVE  polled[i] \subseteq polled'[i]
<1>. USE DEF history
<1>1. ASSUME NEW a \in Agents, NEW f \in Files, Receive(a, f) PROVE polled[i] \subseteq polled'[i]
  BY <1>1 DEF Receive, TypeOK
<1>2. UNCHANGED polled \/ \E a \in Agents, f \in Files : Receive(a, f)
  <2>1. ASSUME NEW a \in Agents, Rescan(a) \/ \E h \in Handlers : Handle(a, h)
        PROVE  UNCHANGED polled
    BY <2>1 DEF Handle, Stage, Submit, Mark, Rescan, RescanStart, RescanStaged, RescanInbox,
                RescanLook, RescanEnd
  <2>2. ASSUME NEW a \in Agents, NEW w \in Workers, Work(a, w) PROVE UNCHANGED polled
    BY <2>2 DEF Work, Take, LoadFails, Process, Finish
  <2>. QED  BY <2>1, <2>2 DEF Next, vars, Arrive, Grow, Prune, Watch, Restart, ProcessMessage
<1>. QED  BY <1>1, <1>2

LEMMA PrunedGrows == ASSUME [Next]_vars PROVE pruned \subseteq pruned'
<1>. USE DEF history
<1>1. ASSUME NEW f \in Files, Arrive(f) \/ Grow(f) \/ Prune(f) PROVE pruned \subseteq pruned'
  BY <1>1 DEF Arrive, Grow, Prune
<1>2. ASSUME NEW a \in Agents,
             \/ Restart(a) \/ Rescan(a)
             \/ \E f \in Files : Watch(a, f) \/ Receive(a, f) \/ ProcessMessage(a, f)
             \/ \E h \in Handlers : Handle(a, h)
      PROVE  UNCHANGED pruned
  BY <1>2 DEF Restart, Receive, ProcessMessage, Rescan, RescanStart, RescanStaged, RescanInbox, RescanLook, RescanEnd,
              Watch, Handle, Stage, Submit, Mark
<1>3. ASSUME NEW a \in Agents, NEW w \in Workers, Work(a, w) PROVE UNCHANGED pruned
  BY <1>3 DEF Work, Take, LoadFails, Process, Finish
<1>4. CASE UNCHANGED vars
  BY <1>4 DEF vars
<1>. QED  BY <1>1, <1>2, <1>3, <1>4 DEF Next

\* A file that is set aside leaves only when its message has been processed, or by
\* the TTL.
LEMMA AsideStays ==
    ASSUME TypeOK, WorkersDone, [Next]_vars, NEW g \in Files,
           place[g] \in {"processing", "deadletter"}
    PROVE  \/ place'[g] \in {"processing", "deadletter"}
           \/ Taken(id[g]) \/ id[g] \in pruned'
<1>. USE DEF files
<1>0. place \in [Files -> {"coming", "inbox", "processing", "deadletter", "gone"}]
  BY DEF TypeOK
<1>1. CASE UNCHANGED place
  BY <1>1
<1>2. ASSUME NEW f \in Files, NEW p, Move(f, p), place[f] \in {"coming", "inbox"}
      PROVE  place'[g] = place[g]
  BY <1>0, <1>2 DEF Move
<1>3. ASSUME NEW f \in Files, NEW p, Move(f, p), p \in {"processing", "deadletter"}
      PROVE  place'[g] \in {"processing", "deadletter"}
  BY <1>0, <1>3 DEF Move
<1>4. ASSUME NEW a \in Agents, NEW h \in Handlers, NEW f \in Files, Look(a, h, f)
      PROVE  place'[g] \in {"processing", "deadletter"}
  <2>1. UNCHANGED place \/ (place[f] = "inbox" /\ (Move(f, "gone") \/ Move(f, "deadletter")))
    BY <1>4 DEF Look
  <2>. QED  BY <2>1, <1>2
<1>5. ASSUME NEW f \in Files, Arrive(f) \/ Grow(f) \/ Prune(f)
      PROVE  place'[g] \in {"processing", "deadletter"} \/ id[g] \in pruned'
  <2>1. CASE Arrive(f) \/ Grow(f)
    BY <2>1, <1>2 DEF Arrive, Grow
  <2>2. CASE Prune(f)
    <3>1. id[f] \in pruned' /\ Move(f, "gone")
      BY <2>2 DEF Prune
    <3>2. CASE f # g
      BY <3>1, <3>2, <1>0 DEF Move
    <3>. QED  BY <3>1, <3>2
  <2>. QED  BY <1>5, <2>1, <2>2
<1>6. ASSUME NEW a \in Agents, NEW f \in Files, Watch(a, f)
      PROVE  place'[g] \in {"processing", "deadletter"}
  BY <1>6, <1>4 DEF Watch, Handlers
<1>7. ASSUME NEW a \in Agents, NEW h \in Handlers, Handle(a, h)
      PROVE  place'[g] \in {"processing", "deadletter"}
  <2>1. hfile[a][h] \in Files
    BY <1>7 DEF Handle, Stage, Submit, Mark, TypeOK
  <2>2. UNCHANGED place \/ Move(hfile[a][h], "processing")
    BY <1>7 DEF Handle, Stage, Submit, Mark
  <2>. QED  BY <2>1, <2>2, <1>3
<1>8. ASSUME NEW a \in Agents, Rescan(a)
      PROVE  place'[g] \in {"processing", "deadletter"}
  <2>1. UNCHANGED place \/ \E f \in Files : RescanLook(a, f)
    BY <1>8 DEF Rescan, RescanStart, RescanStaged, RescanInbox, RescanEnd
  <2>. QED  BY <2>1, <1>4 DEF RescanLook, Handlers
<1>9. ASSUME NEW a \in Agents, NEW w \in Workers, Work(a, w)
      PROVE  place'[g] \in {"processing", "deadletter"} \/ Taken(id[g])
  <2>1. CASE Take(a, w) \/ Process(a, w)
    BY <2>1 DEF Take, Process
  <2>2. CASE LoadFails(a, w)
    <3>1. queue[a] \in Seq(Files) /\ queue[a] # <<>>
      BY <2>2 DEF LoadFails, TypeOK
    <3>. QED  BY <2>2, <3>1, <1>3 DEF LoadFails
  <2>3. CASE Finish(a, w)
    <3>1. wfile[a][w] \in Files /\ Taken(id[wfile[a][w]])
      BY <2>3 DEF Finish, WorkersDone, TypeOK
    <3>2. UNCHANGED place \/ Move(wfile[a][w], "gone")
      BY <2>3 DEF Finish
    <3>3. ASSUME Move(wfile[a][w], "gone"), g # wfile[a][w] PROVE place'[g] = place[g]
      BY <3>3, <1>0 DEF Move
    <3>. QED  BY <3>1, <3>2, <3>3
  <2>. QED  BY <1>9, <2>1, <2>2, <2>3 DEF Work
<1>10. ASSUME NEW a \in Agents, \/ Restart(a)
                                \/ \E f \in Files : Receive(a, f) \/ ProcessMessage(a, f)
       PROVE  place'[g] \in {"processing", "deadletter"}
  BY <1>10, <1>2 DEF Restart, Receive, ProcessMessage
<1>11. CASE UNCHANGED vars
  BY <1>11 DEF vars
<1>. QED  BY <1>5, <1>6, <1>7, <1>8, <1>9, <1>10, <1>11 DEF Next

\* What is held stays held.
LEMMA HeldGrows ==
    ASSUME TypeOK, WorkersDone, [Next]_vars, NEW i \in Ids, Held(i)
    PROVE  Held(i)'
<1>1. ASSUME NEW j \in Ids, Taken(j) PROVE Taken(j)'
  BY <1>1, TakenStays
<1>2. ASSUME NEW j \in Ids, Done(j) PROVE Done(j)'
  BY <1>1, <1>2, PrunedGrows, PolledGrows DEF Done
<1>3. ASSUME NEW g \in Files, place[g] \in {"processing", "deadletter"},
             place'[g] \notin {"processing", "deadletter"}
      PROVE  Done(id[g])'
  <2>1. Taken(id[g]) \/ id[g] \in pruned'
    BY <1>3, AsideStays
  <2>. QED  BY <2>1, <1>1 DEF Done
<1>. QED  BY <1>2, <1>3, HeldStays

\* A loop remembers a directed message only when it is held.
LEMMA SeenStep ==
    ASSUME TypeOK, HeldInv, [Next]_vars
    PROVE  SeenHeld'
<1>. SUFFICES ASSUME NEW b \in Agents, NEW i \in seen'[b], to[i] # Everyone
              PROVE  Held(i)'
  BY DEF SeenHeld
<1>1. ASSUME i \in seen[b] PROVE Held(i)'
  <2>1. i \in Ids /\ Held(i)
    BY <1>1 DEF HeldInv, SeenHeld, TypeOK
  <2>. QED  BY <2>1, HeldGrows DEF HeldInv
<1>2. ASSUME NEW a \in Agents, NEW h \in Handlers, Mark(a, h) PROVE Held(i)'
  <2>1. hfile[a][h] \in Files /\ seen \in [Agents -> SUBSET Ids]
    BY <1>2 DEF Mark, TypeOK
  <2>2. PICK S \in SUBSET (seen[a] \cup {id[hfile[a][h]]}) : seen' = [seen EXCEPT ![a] = S]
    BY <1>2 DEF Mark
  <2>3. CASE i = id[hfile[a][h]] /\ i \notin seen[b]
    <3>1. i \in Ids /\ Held(i)
      BY <1>2, <2>1, <2>3 DEF HeldInv, HandlersHold, Mark, Directed
    <3>. QED  BY <3>1, HeldGrows DEF HeldInv
  <2>4. CASE ~(i = id[hfile[a][h]] /\ i \notin seen[b])
    BY <2>1, <2>2, <2>4, <1>1
  <2>. QED  BY <2>3, <2>4
<1>3. ASSUME NEW a \in Agents, Restart(a) PROVE Held(i)'
  BY <1>3, <1>1 DEF Restart, TypeOK
<1>4. \/ UNCHANGED seen
      \/ \E a \in Agents : Restart(a) \/ \E h \in Handlers : Mark(a, h)
  BY DEF Next, vars, Arrive, Grow, Prune, Watch, Handle, Stage, Submit, Rescan, RescanStart,
         RescanStaged, RescanInbox, RescanLook, RescanEnd, Work, Take, LoadFails, Process, Finish,
         Receive, ProcessMessage
<1>. QED  BY <1>1, <1>2, <1>3, <1>4

\* What a handler has staged or submitted is held.
LEMMA HandlersStep ==
    ASSUME TypeOK, HeldInv, [Next]_vars
    PROVE  HandlersHold'
<1>. SUFFICES ASSUME NEW b \in Agents, NEW k \in Handlers, hpc'[b][k] \in {"staged", "submitted"},
                     Directed(hfile'[b][k]), NEW i, i = id[hfile'[b][k]]
              PROVE  Held(i)'
  BY DEF HandlersHold, Directed
<1>. USE DEF handler, files
<1>0. /\ hpc \in [Agents -> [Handlers -> {"idle", "cleared", "staged", "submitted"}]]
      /\ hfile \in [Agents -> [Handlers -> Files \cup {NoFile}]]
      /\ place \in [Files -> {"coming", "inbox", "processing", "deadletter", "gone"}]
      /\ \A a \in Agents, h \in Handlers : hpc[a][h] # "idle" => hfile[a][h] \in Files
  BY DEF TypeOK
<1>1. ASSUME hpc[b][k] \in {"staged", "submitted"}, hfile'[b][k] = hfile[b][k]
      PROVE  Held(i)'
  <2>1. hfile[b][k] \in Files /\ Held(id[hfile[b][k]])
    BY <1>0, <1>1 DEF HeldInv, HandlersHold
  <2>2. id[hfile[b][k]] \in Ids
    BY <2>1
  <2>. QED  BY <1>1, <2>1, <2>2, HeldGrows DEF HeldInv
<1>2. CASE UNCHANGED handler
  BY <1>1, <1>2
<1>3. ASSUME NEW a \in Agents, NEW h \in Handlers, NEW f \in Files, Look(a, h, f)
      PROVE  Held(i)'
  <2>1. CASE UNCHANGED handler
    BY <2>1, <1>2
  <2>2. CASE hpc' = [hpc EXCEPT ![a][h] = "cleared"] /\ hfile' = [hfile EXCEPT ![a][h] = f]
    <3>1. ~(a = b /\ h = k)
      BY <2>2, <1>0
    <3>2. hpc'[b][k] = hpc[b][k] /\ hfile'[b][k] = hfile[b][k]
      BY <2>2, <3>1, <1>0
    <3>. QED  BY <3>2, <1>1
  <2>. QED  BY <1>3, <2>1, <2>2 DEF Look
<1>4. ASSUME NEW a \in Agents, NEW h \in Handlers, Handle(a, h)
      PROVE  Held(i)'
  <2>1. CASE ~(a = b /\ h = k)
    <3>1. PICK l, g : /\ hpc' = [hpc EXCEPT ![a][h] = l]
                      /\ hfile' = hfile \/ hfile' = [hfile EXCEPT ![a][h] = g]
      BY <1>4 DEF Handle, Stage, Submit, Mark
    <3>2. hpc'[b][k] = hpc[b][k] /\ hfile'[b][k] = hfile[b][k]
      BY <3>1, <2>1, <1>0
    <3>. QED  BY <3>2, <1>1
  <2>2. CASE a = b /\ h = k /\ Stage(a, h)
    <3>1. hfile[b][k] \in Files
      BY <2>2, <1>0 DEF Stage
    <3>2. Move(hfile[b][k], "processing") /\ hfile' = hfile
      BY <2>2, <1>0 DEF Stage
    <3>3. place'[hfile[b][k]] = "processing"
      BY <3>1, <3>2, <1>0 DEF Move
    <3>. QED  BY <3>1, <3>2, <3>3 DEF Held
  <2>3. CASE a = b /\ h = k /\ Submit(a, h)
    <3>1. hfile' = hfile
      BY <2>3 DEF Submit
    <3>2. hpc[b][k] = "staged"
      BY <2>3, <3>1 DEF Submit
    <3>. QED  BY <3>1, <3>2, <1>1
  <2>4. CASE a = b /\ h = k /\ Mark(a, h)
    BY <2>4, <1>0 DEF Mark
  <2>. QED  BY <1>4, <2>1, <2>2, <2>3, <2>4 DEF Handle
<1>5. ASSUME NEW a \in Agents, Restart(a) PROVE Held(i)'
  <2>1. CASE a = b
    BY <1>5, <2>1, <1>0 DEF Restart
  <2>2. CASE a # b
    <3>1. hpc'[b] = hpc[b] /\ hfile'[b] = hfile[b]
      BY <1>5, <2>2, <1>0 DEF Restart
    <3>. QED  BY <3>1, <1>1
  <2>. QED  BY <2>1, <2>2
<1>6. \/ UNCHANGED handler
      \/ \E a \in Agents : \/ Restart(a) \/ \E h \in Handlers : Handle(a, h)
                           \/ \E f \in Files, h \in Handlers : Look(a, h, f)
  <2>1. ASSUME NEW a \in Agents, NEW f \in Files, Watch(a, f) \/ RescanLook(a, f)
        PROVE  \E h \in Handlers : Look(a, h, f)
    BY <2>1 DEF Watch, RescanLook, Handlers
  <2>2. ASSUME NEW a \in Agents, Rescan(a)
        PROVE  UNCHANGED handler \/ \E f \in Files : RescanLook(a, f)
    BY <2>2 DEF Rescan, RescanStart, RescanStaged, RescanInbox, RescanEnd
  <2>3. ASSUME NEW a \in Agents, NEW w \in Workers, Work(a, w)
        PROVE  UNCHANGED handler
    BY <2>3 DEF Work, Take, LoadFails, Process, Finish
  <2>4. ASSUME NEW f \in Files,
               \/ Arrive(f) \/ Grow(f) \/ Prune(f)
               \/ \E a \in Agents : Receive(a, f) \/ ProcessMessage(a, f)
        PROVE  UNCHANGED handler
    BY <2>4 DEF Arrive, Grow, Prune, Receive, ProcessMessage
  <2>5. CASE UNCHANGED vars
    BY <2>5 DEF vars
  <2>. QED  BY <2>1, <2>2, <2>3, <2>4, <2>5 DEF Next
<1>. QED  BY <1>2, <1>3, <1>4, <1>5, <1>6

\* A worker that is done has processed its message.
LEMMA WorkersStep ==
    ASSUME TypeOK, HeldInv, [Next]_vars
    PROVE  WorkersDone'
<1>. SUFFICES ASSUME NEW b \in Agents, NEW v \in Workers, wpc'[b][v] = "done",
                     NEW i, i = id[wfile'[b][v]]
              PROVE  Taken(i)'
  BY DEF WorkersDone
<1>. USE DEF worker
<1>0. /\ wpc \in [Agents -> [Workers -> {"free", "loaded", "done"}]]
      /\ wfile \in [Agents -> [Workers -> Files \cup {NoFile}]]
      /\ taken \in [Ids -> [Agents -> 0 .. 2]]
      /\ \A a \in Agents, w \in Workers : wpc[a][w] # "free" => wfile[a][w] \in Files
  BY DEF TypeOK
<1>1. ASSUME wpc[b][v] = "done", wfile'[b][v] = wfile[b][v]
      PROVE  Taken(i)'
  <2>1. wfile[b][v] \in Files /\ Taken(id[wfile[b][v]])
    BY <1>0, <1>1 DEF HeldInv, WorkersDone
  <2>2. id[wfile[b][v]] \in Ids
    BY <2>1
  <2>. QED  BY <1>1, <2>1, <2>2, TakenStays
<1>2. CASE UNCHANGED worker
  BY <1>1, <1>2
<1>3. ASSUME NEW a \in Agents, NEW w \in Workers, Process(a, w)
      PROVE  Taken(i)'
  <2>. DEFINE j == id[wfile[a][w]]
  <2>1. wfile' = wfile /\ wpc' = [wpc EXCEPT ![a][w] = "done"]
    BY <1>3 DEF Process
  <2>2. CASE a = b /\ w = v
    <3>1. j \in Ids
      BY <1>3, <1>0 DEF Process
    <3>. DEFINE c == IF taken[j][a] < 2 THEN taken[j][a] + 1 ELSE taken[j][a]
    <3>2. taken' = [taken EXCEPT ![j][a] = c]
      BY <1>3 DEF Process, process_envelope
    <3>4. taken[j][a] \in 0 .. 2
      BY <3>1, <1>0
    <3>5. c > 0
      BY <3>4
    <3>. HIDE DEF c
    <3>6. taken'[j][a] = c
      BY <3>1, <3>2, <1>0
    <3>3. taken'[j][a] > 0
      BY <3>5, <3>6
    <3>. QED  BY <2>1, <2>2, <3>3 DEF Taken
  <2>3. CASE ~(a = b /\ w = v)
    <3>1. wpc'[b][v] = wpc[b][v]
      BY <2>1, <2>3, <1>0
    <3>. QED  BY <2>1, <3>1, <1>1
  <2>. QED  BY <2>2, <2>3
<1>4. ASSUME NEW a \in Agents, NEW w \in Workers, NEW f, NEW l, Busy(a, w, f, l), l # "done"
      PROVE  Taken(i)'
  <2>1. ~(a = b /\ w = v)
    BY <1>4, <1>0 DEF Busy
  <2>2. wpc'[b][v] = wpc[b][v] /\ wfile'[b][v] = wfile[b][v]
    BY <1>4, <2>1, <1>0 DEF Busy
  <2>. QED  BY <2>2, <1>1
<1>5. ASSUME NEW a \in Agents, Restart(a) PROVE Taken(i)'
  <2>1. CASE a = b
    BY <1>5, <2>1, <1>0 DEF Restart
  <2>2. CASE a # b
    <3>1. wpc'[b] = wpc[b] /\ wfile'[b] = wfile[b]
      BY <1>5, <2>2, <1>0 DEF Restart
    <3>. QED  BY <3>1, <1>1
  <2>. QED  BY <2>1, <2>2
<1>6. \/ UNCHANGED worker
      \/ \E a \in Agents : \/ Restart(a)
                           \/ \E w \in Workers : \/ Process(a, w)
                                                 \/ \E f, l : l # "done" /\ Busy(a, w, f, l)
  <2>1. ASSUME NEW a \in Agents, NEW w \in Workers, Work(a, w)
        PROVE  UNCHANGED worker \/ Process(a, w) \/ \E f, l : l # "done" /\ Busy(a, w, f, l)
    <3>1. CASE Take(a, w)
      BY <3>1 DEF Take
    <3>2. CASE Finish(a, w)
      BY <3>2 DEF Finish
    <3>. QED  BY <2>1, <3>1, <3>2 DEF Work, LoadFails
  <2>2. ASSUME NEW a \in Agents, \/ Rescan(a) \/ \E h \in Handlers : Handle(a, h)
                                 \/ \E f \in Files : Watch(a, f) \/ Receive(a, f)
                                                       \/ ProcessMessage(a, f)
        PROVE  UNCHANGED worker
    BY <2>2 DEF Handle, Stage, Submit, Mark, Rescan, RescanStart, RescanStaged, RescanInbox,
                RescanLook, RescanEnd, Watch, Receive, ProcessMessage
  <2>3. ASSUME NEW f \in Files, Arrive(f) \/ Grow(f) \/ Prune(f) PROVE UNCHANGED worker
    BY <2>3 DEF Arrive, Grow, Prune
  <2>4. CASE UNCHANGED vars
    BY <2>4 DEF vars
  <2>. QED  BY <2>1, <2>2, <2>3, <2>4 DEF Next
<1>. QED  BY <1>2, <1>3, <1>4, <1>5, <1>6

\* Nothing is held, remembered or done at the start.
LEMMA HeldInit == Init => HeldInv
  BY DEF Init, HeldInv, SeenHeld, HandlersHold, WorkersDone

\* A file leaves the inbox for processing or deadletter, or because its message is
\* held, or because the TTL or a poll took it.
LEMMA InboxStays ==
    ASSUME TypeOK, SeenHeld, [Next]_vars, NEW g \in Files, place[g] = "inbox"
    PROVE  place'[g] \in Kept \/ Held(id[g]) \/ id[g] \in pruned' \/ polled'[id[g]] # {}
<1>. USE DEF files, Kept
<1>0. place \in [Files -> {"coming", "inbox", "processing", "deadletter", "gone"}]
  BY DEF TypeOK
<1>1. CASE UNCHANGED place
  BY <1>1
<1>2. ASSUME NEW f \in Files, NEW p \in Kept, Move(f, p) PROVE place'[g] \in Kept
  BY <1>0, <1>2 DEF Move
<1>3. ASSUME NEW f \in Files, f # g, NEW p, Move(f, p) PROVE place'[g] \in Kept
  BY <1>0, <1>3 DEF Move
<1>4. ASSUME NEW a \in Agents, NEW h \in Handlers, NEW f \in Files, Look(a, h, f)
      PROVE  place'[g] \in Kept \/ Held(id[g])
  <2>1. \/ UNCHANGED place
        \/ Move(f, "deadletter")
        \/ Move(f, "gone") /\ id[f] \in seen[a] /\ Directed(f)
    BY <1>4 DEF Look
  <2>2. ASSUME Move(f, "gone"), id[f] \in seen[a], Directed(f), f = g PROVE Held(id[g])
    BY <2>2 DEF SeenHeld, Directed
  <2>. QED  BY <2>1, <2>2, <1>1, <1>2, <1>3
<1>5. ASSUME NEW f \in Files, Arrive(f) \/ Grow(f)
      PROVE  place'[g] \in Kept
  BY <1>5, <1>1, <1>2 DEF Arrive, Grow
<1>6. ASSUME NEW f \in Files, Prune(f) PROVE place'[g] \in Kept \/ id[g] \in pruned'
  BY <1>6, <1>3 DEF Prune
<1>7. ASSUME NEW a \in Agents, NEW f \in Files, Watch(a, f)
      PROVE  place'[g] \in Kept \/ Held(id[g])
  BY <1>7, <1>4 DEF Watch, Handlers
<1>8. ASSUME NEW a \in Agents, NEW h \in Handlers, Handle(a, h)
      PROVE  place'[g] \in Kept
  <2>1. hfile[a][h] \in Files
    BY <1>8 DEF Handle, Stage, Submit, Mark, TypeOK
  <2>2. UNCHANGED place \/ Move(hfile[a][h], "processing")
    BY <1>8 DEF Handle, Stage, Submit, Mark
  <2>. QED  BY <2>1, <2>2, <1>1, <1>2
<1>9. ASSUME NEW a \in Agents, Rescan(a)
      PROVE  place'[g] \in Kept \/ Held(id[g])
  <2>1. UNCHANGED place \/ \E f \in Files : RescanLook(a, f)
    BY <1>9 DEF Rescan, RescanStart, RescanStaged, RescanInbox, RescanEnd
  <2>. QED  BY <2>1, <1>1, <1>4 DEF RescanLook, Handlers
<1>10. ASSUME NEW a \in Agents, NEW w \in Workers, Work(a, w)
       PROVE  place'[g] \in Kept
  <2>1. CASE Take(a, w) \/ Process(a, w)
    BY <2>1 DEF Take, Process
  <2>2. CASE LoadFails(a, w)
    <3>1. queue[a] \in Seq(Files) /\ queue[a] # <<>>
      BY <2>2 DEF LoadFails, TypeOK
    <3>. QED  BY <2>2, <3>1, <1>2 DEF LoadFails
  <2>3. CASE Finish(a, w)
    <3>1. wfile[a][w] \in Files
      BY <2>3 DEF Finish, TypeOK
    <3>2. \/ UNCHANGED place
          \/ place[wfile[a][w]] = "processing" /\ Move(wfile[a][w], "gone")
      BY <2>3 DEF Finish
    <3>. QED  BY <3>1, <3>2, <1>1, <1>3
  <2>. QED  BY <1>10, <2>1, <2>2, <2>3 DEF Work
<1>11. ASSUME NEW a \in Agents, Restart(a) \/ \E f \in Files : ProcessMessage(a, f)
       PROVE  place'[g] \in Kept
  BY <1>11 DEF Restart, ProcessMessage
<1>12. ASSUME NEW a \in Agents, NEW f \in Files, Receive(a, f)
       PROVE  place'[g] \in Kept \/ polled'[id[g]] # {}
  <2>1. CASE f = g
    BY <1>12, <2>1 DEF Receive, TypeOK
  <2>2. CASE f # g
    BY <1>12, <2>2, <1>3 DEF Receive
  <2>. QED  BY <2>1, <2>2
<1>13. CASE UNCHANGED vars
  BY <1>13 DEF vars
<1>. QED  BY <1>5, <1>6, <1>7, <1>8, <1>9, <1>10, <1>11, <1>12, <1>13 DEF Next

\* A file that was not there and is there now has just been delivered.
LEMMA Delivered ==
    ASSUME TypeOK, [Next]_vars, NEW f \in Files, place[f] = "coming", place'[f] # "coming"
    PROVE  place'[f] = "inbox"
<1>. USE DEF files
<1>0. place \in [Files -> {"coming", "inbox", "processing", "deadletter", "gone"}]
  BY DEF TypeOK
<1>1. ASSUME NEW g \in Files, NEW p, Move(g, p), place[g] # "coming" PROVE FALSE
  BY <1>0, <1>1 DEF Move
<1>2. ASSUME NEW g \in Files, Arrive(g) PROVE place'[f] = "inbox"
  BY <1>0, <1>2 DEF Arrive, Move
<1>3. ASSUME NEW g \in Files, Grow(g) \/ Prune(g) PROVE FALSE
  BY <1>1, <1>3 DEF Grow, Prune
<1>4. ASSUME NEW a \in Agents, NEW h \in Handlers, NEW g \in Files, Look(a, h, g) PROVE FALSE
  BY <1>1, <1>4 DEF Look
<1>5. ASSUME NEW a \in Agents, NEW g \in Files, Watch(a, g) PROVE FALSE
  BY <1>5, <1>4 DEF Watch, Handlers
<1>6. ASSUME NEW a \in Agents, NEW h \in Handlers, Handle(a, h) PROVE FALSE
  <2>1. hfile[a][h] \in Files
    BY <1>6 DEF Handle, Stage, Submit, Mark, TypeOK
  <2>2. UNCHANGED place \/ (place[hfile[a][h]] = "inbox" /\ Move(hfile[a][h], "processing"))
    BY <1>6 DEF Handle, Stage, Submit, Mark
  <2>. QED  BY <2>1, <2>2, <1>1
<1>7. ASSUME NEW a \in Agents, Rescan(a) PROVE FALSE
  <2>1. UNCHANGED place \/ \E g \in Files : RescanLook(a, g)
    BY <1>7 DEF Rescan, RescanStart, RescanStaged, RescanInbox, RescanEnd
  <2>. QED  BY <2>1, <1>4 DEF RescanLook, Handlers
<1>8. ASSUME NEW a \in Agents, NEW w \in Workers, Work(a, w) PROVE FALSE
  <2>1. CASE Take(a, w) \/ Process(a, w)
    BY <2>1 DEF Take, Process
  <2>2. CASE LoadFails(a, w)
    <3>1. queue[a] \in Seq(Files) /\ queue[a] # <<>>
      BY <2>2 DEF LoadFails, TypeOK
    <3>. QED  BY <2>2, <3>1, <1>1 DEF LoadFails
  <2>3. CASE Finish(a, w)
    <3>1. wfile[a][w] \in Files
      BY <2>3 DEF Finish, TypeOK
    <3>2. \/ UNCHANGED place
          \/ place[wfile[a][w]] = "processing" /\ Move(wfile[a][w], "gone")
      BY <2>3 DEF Finish
    <3>. QED  BY <3>1, <3>2, <1>1
  <2>. QED  BY <1>8, <2>1, <2>2, <2>3 DEF Work
<1>9. ASSUME NEW a \in Agents, \/ Restart(a)
                               \/ \E g \in Files : Receive(a, g) \/ ProcessMessage(a, g)
      PROVE  FALSE
  BY <1>9, <1>1 DEF Restart, Receive, ProcessMessage
<1>10. CASE UNCHANGED vars
  BY <1>10 DEF vars
<1>. QED  BY <1>2, <1>3, <1>5, <1>6, <1>7, <1>8, <1>9, <1>10 DEF Next

\* A message of which neither the TTL nor a poll took a copy.
Safe(i) == i \notin pruned /\ polled[i] = {}

\* More than NothingLost: a failed process_envelope counts here.
KeptInv == \A f \in Files : place[f] # "coming" /\ Safe(id[f]) => Present(id[f])

\* Every step keeps messages.
LEMMA KeptStep ==
    ASSUME TypeOK, HeldInv, KeptInv, [Next]_vars
    PROVE  KeptInv'
<1>. SUFFICES ASSUME NEW f \in Files, place'[f] # "coming", Safe(id[f])' PROVE Present(id[f])'
  BY DEF KeptInv
<1>0. id[f] \in Ids
  OBVIOUS
<1>1. ASSUME Held(id[f])' PROVE Present(id[f])'
  BY <1>1 DEF Held, Present, Kept
<1>2. ASSUME Held(id[f]) PROVE Present(id[f])'
  BY <1>0, <1>1, <1>2, HeldGrows DEF HeldInv
<1>3. ASSUME place[f] = "coming" PROVE Present(id[f])'
  <2>1. place'[f] = "inbox"
    BY <1>3, Delivered
  <2>. QED  BY <2>1 DEF Present, Kept
<1>4. ASSUME place[f] # "coming", ~Held(id[f]) PROVE Present(id[f])'
  <2>1. Safe(id[f])
    BY <1>0, PrunedGrows, PolledGrows DEF Safe
  <2>2. Present(id[f])
    BY <1>4, <2>1 DEF KeptInv
  <2>3. PICK g \in Files : id[g] = id[f] /\ place[g] = "inbox"
    BY <1>4, <2>2 DEF Present, Held, Kept
  <2>4. place'[g] \in Kept
    BY <1>4, <2>3, InboxStays DEF HeldInv, Safe
  <2>. QED  BY <2>3, <2>4 DEF Present
<1>. QED  BY <1>2, <1>3, <1>4

\* No message is lost without a process_envelope that failed, a poll or the TTL, however many
\* copies, rescans and restarts there are.
THEOREM MessagesSurvive == Spec => []NothingLost
<1>1. Init => KeptInv
  BY DEF Init, KeptInv
<1>2. TypeOK /\ HeldInv /\ KeptInv /\ [Next]_vars => (HeldInv /\ KeptInv)'
  BY SeenStep, HandlersStep, WorkersStep, KeptStep DEF HeldInv
<1>3. KeptInv => NothingLost
  BY DEF KeptInv, NothingLost, Safe, Present, Done, Taken
<1>. QED  BY <1>1, <1>2, <1>3, HeldInit, TypeCorrect, PTL DEF Spec

(***************************************************************************)
(* Who processes a message.  Whatever a loop holds in memory - with a       *)
(* handler, in the work queue, with a worker - is for its agent, or its own *)
(* rescan picked it up, and what its daemon's poll holds it has archived.   *)
(***************************************************************************)

May(a, f) == ToMe(a, f) \/ a \in rescued[id[f]]

HandlersMay == \A a \in Agents, h \in Handlers : hpc[a][h] # "idle" => May(a, hfile[a][h])
QueuesMay   == \A a \in Agents : \A n \in 1 .. Len(queue[a]) : May(a, queue[a][n])
WorkersMay  == \A a \in Agents, w \in Workers : wpc[a][w] # "free" => May(a, wfile[a][w])
PollsMay    == \A a \in Agents : \A f \in polls[a] : a \in polled[id[f]]
MayInv == HandlersMay /\ QueuesMay /\ WorkersMay /\ PollsMay /\ RecipientUnlessRescued

\* The names of agents do not change.
LEMMA NamesStay == ASSUME [Next]_vars PROVE UNCHANGED nameless
<1>1. ASSUME NEW a \in Agents, Rescan(a) \/ \E h \in Handlers : Handle(a, h)
      PROVE  UNCHANGED nameless
  BY <1>1 DEF Handle, Stage, Submit, Mark, Rescan, RescanStart, RescanStaged, RescanInbox,
              RescanLook, RescanEnd
<1>2. ASSUME NEW a \in Agents, NEW w \in Workers, Work(a, w) PROVE UNCHANGED nameless
  BY <1>2 DEF Work, Take, LoadFails, Process, Finish
<1>. QED
  BY <1>1, <1>2 DEF Next, vars, Arrive, Grow, Prune, Watch, Restart, Receive, ProcessMessage

\* A rescan's claims stay.
LEMMA RescuedGrows ==
    ASSUME TypeOK, [Next]_vars, NEW i \in Ids
    PROVE  rescued[i] \subseteq rescued'[i]
<1>. USE DEF history
<1>1. ASSUME NEW a \in Agents, NEW f \in Files, RescanStaged(a, f)
      PROVE  rescued[i] \subseteq rescued'[i]
  <2>1. \/ UNCHANGED rescued
        \/ rescued' = [rescued EXCEPT ![id[f]] = rescued[id[f]] \cup {a}]
    BY <1>1 DEF RescanStaged, Resubmit
  <2>2. rescued \in [Ids -> SUBSET Agents]
    BY DEF TypeOK
  <2>. QED  BY <2>1, <2>2
<1>2. ASSUME NEW f \in Files, Arrive(f) \/ Grow(f) \/ Prune(f) PROVE UNCHANGED rescued
  BY <1>2 DEF Arrive, Grow, Prune
<1>3. ASSUME NEW a \in Agents,
             \/ Restart(a)
             \/ \E f \in Files : Watch(a, f) \/ Receive(a, f) \/ ProcessMessage(a, f)
             \/ \E h \in Handlers : Handle(a, h)
      PROVE  UNCHANGED rescued
  BY <1>3 DEF Restart, Receive, ProcessMessage, Watch, Handle, Stage, Submit, Mark
<1>4. ASSUME NEW a \in Agents, Rescan(a)
      PROVE  UNCHANGED rescued \/ \E f \in Files : RescanStaged(a, f)
  BY <1>4 DEF Rescan, RescanStart, RescanInbox, RescanLook, RescanEnd
<1>5. ASSUME NEW a \in Agents, NEW w \in Workers, Work(a, w) PROVE UNCHANGED rescued
  BY <1>5 DEF Work, Take, LoadFails, Process, Finish
<1>6. CASE UNCHANGED vars
  BY <1>6 DEF vars
<1>. QED  BY <1>1, <1>2, <1>3, <1>4, <1>5, <1>6 DEF Next

\* What a loop may process it may process later.
LEMMA MayStays ==
    ASSUME TypeOK, [Next]_vars, NEW a \in Agents, NEW f \in Files, May(a, f)
    PROVE  May(a, f)'
  BY RescuedGrows, NamesStay DEF May, ToMe

\* A handler holds only what passed the test of the recipient.
LEMMA HandlersMayStep ==
    ASSUME TypeOK, HandlersMay, [Next]_vars
    PROVE  HandlersMay'
<1>. SUFFICES ASSUME NEW b \in Agents, NEW k \in Handlers, hpc'[b][k] # "idle",
                     NEW g, g = hfile'[b][k]
              PROVE  May(b, g)'
  BY DEF HandlersMay
<1>. USE DEF handler
<1>0. /\ hpc \in [Agents -> [Handlers -> {"idle", "cleared", "staged", "submitted"}]]
      /\ hfile \in [Agents -> [Handlers -> Files \cup {NoFile}]]
      /\ \A a \in Agents, h \in Handlers : hpc[a][h] # "idle" => hfile[a][h] \in Files
  BY DEF TypeOK
<1>1. ASSUME hpc[b][k] # "idle", hfile'[b][k] = hfile[b][k] PROVE May(b, g)'
  BY <1>0, <1>1, MayStays DEF HandlersMay
<1>2. CASE UNCHANGED handler
  BY <1>1, <1>2
<1>3. ASSUME NEW a \in Agents, NEW h \in Handlers, NEW f \in Files, Look(a, h, f)
      PROVE  May(b, g)'
  <2>1. CASE UNCHANGED handler
    BY <2>1, <1>2
  <2>2. CASE /\ ToMe(a, f) /\ hpc' = [hpc EXCEPT ![a][h] = "cleared"]
             /\ hfile' = [hfile EXCEPT ![a][h] = f]
    <3>1. CASE a = b /\ h = k
      <4>1. g = f
        BY <2>2, <3>1, <1>0
      <4>. QED  BY <2>2, <3>1, <4>1, NamesStay DEF May, ToMe
    <3>2. CASE ~(a = b /\ h = k)
      <4>1. hpc'[b][k] = hpc[b][k] /\ hfile'[b][k] = hfile[b][k]
        BY <2>2, <3>2, <1>0
      <4>. QED  BY <4>1, <1>1
    <3>. QED  BY <3>1, <3>2
  <2>. QED  BY <1>3, <2>1, <2>2 DEF Look
<1>4. ASSUME NEW a \in Agents, NEW h \in Handlers, Handle(a, h)
      PROVE  May(b, g)'
  <2>1. CASE ~(a = b /\ h = k)
    <3>1. PICK l, x : /\ hpc' = [hpc EXCEPT ![a][h] = l]
                      /\ hfile' = hfile \/ hfile' = [hfile EXCEPT ![a][h] = x]
      BY <1>4 DEF Handle, Stage, Submit, Mark
    <3>2. hpc'[b][k] = hpc[b][k] /\ hfile'[b][k] = hfile[b][k]
      BY <3>1, <2>1, <1>0
    <3>. QED  BY <3>2, <1>1
  <2>2. CASE a = b /\ h = k
    <3>1. hpc[b][k] # "idle"
      BY <1>4, <2>2 DEF Handle, Stage, Submit, Mark
    <3>2. hfile' = hfile
      BY <1>4, <2>2, <1>0 DEF Handle, Stage, Submit, Mark
    <3>. QED  BY <3>1, <3>2, <1>1
  <2>. QED  BY <2>1, <2>2
<1>5. ASSUME NEW a \in Agents, Restart(a) PROVE May(b, g)'
  <2>1. CASE a = b
    BY <1>5, <2>1, <1>0 DEF Restart
  <2>2. CASE a # b
    <3>1. hpc'[b] = hpc[b] /\ hfile'[b] = hfile[b]
      BY <1>5, <2>2, <1>0 DEF Restart
    <3>. QED  BY <3>1, <1>1
  <2>. QED  BY <2>1, <2>2
<1>6. ASSUME NEW a \in Agents, NEW f \in Files, Watch(a, f) \/ RescanLook(a, f)
      PROVE  May(b, g)'
  BY <1>6, <1>3 DEF Watch, RescanLook, Handlers
<1>7. ASSUME NEW a \in Agents, Rescan(a) PROVE May(b, g)'
  <2>1. UNCHANGED handler \/ \E f \in Files : RescanLook(a, f)
    BY <1>7 DEF Rescan, RescanStart, RescanStaged, RescanInbox, RescanEnd
  <2>. QED  BY <2>1, <1>2, <1>6
<1>8. ASSUME NEW a \in Agents, NEW w \in Workers, Work(a, w) PROVE May(b, g)'
  BY <1>8, <1>2 DEF Work, Take, LoadFails, Process, Finish
<1>9. ASSUME NEW f \in Files, \/ Arrive(f) \/ Grow(f) \/ Prune(f)
                              \/ \E a \in Agents : Receive(a, f) \/ ProcessMessage(a, f)
      PROVE  May(b, g)'
  BY <1>9, <1>2 DEF Arrive, Grow, Prune, Receive, ProcessMessage
<1>10. CASE UNCHANGED vars
  BY <1>10, <1>2 DEF vars
<1>. QED  BY <1>4, <1>5, <1>6, <1>7, <1>8, <1>9, <1>10 DEF Next

\* A handler or a rescan puts into the queue only what the loop may process.
LEMMA QueuesMayStep ==
    ASSUME TypeOK, HandlersMay, QueuesMay, [Next]_vars
    PROVE  QueuesMay'
<1>. SUFFICES ASSUME NEW b \in Agents, NEW n \in 1 .. Len(queue'[b]), NEW g, g = queue'[b][n]
              PROVE  May(b, g)'
  BY DEF QueuesMay
<1>0. queue \in [Agents -> Seq(Files)]
  BY DEF TypeOK
<1>1. ASSUME NEW m \in 1 .. Len(queue[b]), g = queue[b][m] PROVE May(b, g)'
  BY <1>0, <1>1, MayStays DEF QueuesMay
<1>2. CASE UNCHANGED queue
  BY <1>1, <1>2
<1>3. ASSUME NEW a \in Agents, NEW f \in Files, queue' = [queue EXCEPT ![a] = Append(queue[a], f)],
             May(a, f)'
      PROVE  May(b, g)'
  <2>1. CASE a # b
    BY <1>3, <2>1, <1>0, <1>1
  <2>2. CASE a = b
    <3>1. queue[b] \in Seq(Files) /\ queue'[b] = Append(queue[b], f)
      BY <1>0, <1>3, <2>2
    <3>2. n \in 1 .. Len(queue[b]) + 1
      BY <3>1
    <3>3. CASE n = Len(queue[b]) + 1
      <4>1. g = f
        BY <3>1, <3>3
      <4>. QED  BY <1>3, <2>2, <4>1
    <3>4. CASE n # Len(queue[b]) + 1
      <4>1. n \in 1 .. Len(queue[b]) /\ g = queue[b][n]
        BY <3>1, <3>2, <3>4
      <4>. QED  BY <4>1, <1>1
    <3>. QED  BY <3>3, <3>4
  <2>. QED  BY <2>1, <2>2
<1>4. ASSUME NEW a \in Agents, queue[a] # <<>>, queue' = [queue EXCEPT ![a] = Tail(queue[a])]
      PROVE  May(b, g)'
  <2>1. CASE a # b
    BY <1>4, <2>1, <1>0, <1>1
  <2>2. CASE a = b
    <3>1. queue[b] \in Seq(Files) /\ queue[b] # <<>> /\ queue'[b] = Tail(queue[b])
      BY <1>0, <1>4, <2>2
    <3>2. n + 1 \in 1 .. Len(queue[b]) /\ g = queue[b][n + 1]
      BY <3>1
    <3>. QED  BY <3>2, <1>1
  <2>. QED  BY <2>1, <2>2
<1>5. ASSUME NEW a \in Agents, NEW h \in Handlers, Handle(a, h) PROVE May(b, g)'
  <2>1. CASE Submit(a, h)
    <3>1. hfile[a][h] \in Files /\ May(a, hfile[a][h])
      BY <2>1 DEF Submit, TypeOK, HandlersMay
    <3>2. PICK f \in Files : f = hfile[a][h]
      BY <3>1
    <3>3. May(a, f)'
      BY <3>1, <3>2, MayStays
    <3>. QED  BY <2>1, <3>2, <3>3, <1>3 DEF Submit
  <2>2. CASE Stage(a, h) \/ Mark(a, h)
    BY <2>2, <1>2 DEF Stage, Mark
  <2>. QED  BY <1>5, <2>1, <2>2 DEF Handle
<1>6. ASSUME NEW a \in Agents, NEW f \in Files, RescanStaged(a, f) PROVE May(b, g)'
  <2>1. CASE UNCHANGED <<queue, rescued, raced>>
    BY <2>1, <1>2
  <2>2. CASE Resubmit(a, f)
    <3>1. a \in rescued'[id[f]]
      BY <2>2 DEF Resubmit, TypeOK
    <3>. QED  BY <2>2, <3>1, <1>3 DEF Resubmit, May
  <2>. QED  BY <1>6, <2>1, <2>2 DEF RescanStaged
<1>7. ASSUME NEW a \in Agents, Rescan(a) PROVE May(b, g)'
  <2>1. UNCHANGED queue \/ \E f \in Files : RescanStaged(a, f)
    BY <1>7 DEF Rescan, RescanStart, RescanInbox, RescanLook, RescanEnd
  <2>. QED  BY <2>1, <1>2, <1>6
<1>8. ASSUME NEW a \in Agents, NEW w \in Workers, Work(a, w) PROVE May(b, g)'
  <2>1. UNCHANGED queue \/ (queue[a] # <<>> /\ queue' = [queue EXCEPT ![a] = Tail(queue[a])])
    BY <1>8 DEF Work, Take, LoadFails, Process, Finish
  <2>. QED  BY <2>1, <1>2, <1>4
<1>9. ASSUME NEW a \in Agents, Restart(a) PROVE May(b, g)'
  <2>1. a # b
    BY <1>9, <1>0 DEF Restart
  <2>2. queue'[b] = queue[b]
    BY <1>9, <2>1, <1>0 DEF Restart
  <2>. QED  BY <2>2, <1>1
<1>10. ASSUME NEW f \in Files, \/ Arrive(f) \/ Grow(f) \/ Prune(f)
                               \/ \E a \in Agents : Receive(a, f) \/ ProcessMessage(a, f)
       PROVE  May(b, g)'
  BY <1>10, <1>2 DEF Arrive, Grow, Prune, Receive, ProcessMessage
<1>11. ASSUME NEW a \in Agents, NEW f \in Files, Watch(a, f) PROVE May(b, g)'
  BY <1>11, <1>2 DEF Watch
<1>12. CASE UNCHANGED vars
  BY <1>12, <1>2 DEF vars
<1>. QED  BY <1>5, <1>7, <1>8, <1>9, <1>10, <1>11, <1>12 DEF Next

\* A worker has only what was in its loop's queue.
LEMMA WorkersMayStep ==
    ASSUME TypeOK, QueuesMay, WorkersMay, [Next]_vars
    PROVE  WorkersMay'
<1>. SUFFICES ASSUME NEW b \in Agents, NEW v \in Workers, wpc'[b][v] # "free",
                     NEW g, g = wfile'[b][v]
              PROVE  May(b, g)'
  BY DEF WorkersMay
<1>. USE DEF worker
<1>0. /\ wpc \in [Agents -> [Workers -> {"free", "loaded", "done"}]]
      /\ wfile \in [Agents -> [Workers -> Files \cup {NoFile}]]
      /\ \A a \in Agents, w \in Workers : wpc[a][w] # "free" => wfile[a][w] \in Files
  BY DEF TypeOK
<1>1. ASSUME wpc[b][v] # "free", wfile'[b][v] = wfile[b][v] PROVE May(b, g)'
  BY <1>0, <1>1, MayStays DEF WorkersMay
<1>2. CASE UNCHANGED worker
  BY <1>1, <1>2
<1>3. ASSUME NEW a \in Agents, NEW w \in Workers, NEW f, NEW l, Busy(a, w, f, l),
             l = "free" \/ (f \in Files /\ May(a, f)), NEW x \in Files, x = f \/ l = "free"
      PROVE  May(b, g)'
  <2>1. CASE a = b /\ w = v
    <3>1. wpc'[b][v] = l /\ wfile'[b][v] = f
      BY <1>3, <2>1, <1>0 DEF Busy
    <3>. QED  BY <1>3, <2>1, <3>1, MayStays
  <2>2. CASE ~(a = b /\ w = v)
    <3>1. wpc'[b][v] = wpc[b][v] /\ wfile'[b][v] = wfile[b][v]
      BY <1>3, <2>2, <1>0 DEF Busy
    <3>. QED  BY <3>1, <1>1
  <2>. QED  BY <2>1, <2>2
<1>4. ASSUME NEW a \in Agents, NEW w \in Workers, Work(a, w) PROVE May(b, g)'
  <2>1. CASE Take(a, w)
    <3>1. queue[a] \in Seq(Files) /\ queue[a] # <<>>
      BY <2>1 DEF Take, TypeOK
    <3>2. Head(queue[a]) \in Files /\ May(a, Head(queue[a]))
      BY <3>1 DEF QueuesMay
    <3>3. UNCHANGED worker \/ Busy(a, w, Head(queue[a]), "loaded")
      BY <2>1 DEF Take
    <3>. QED  BY <3>2, <3>3, <1>2, <1>3
  <2>2. CASE LoadFails(a, w)
    BY <2>2, <1>2 DEF LoadFails
  <2>3. CASE Process(a, w)
    <3>1. wfile' = wfile /\ wpc' = [wpc EXCEPT ![a][w] = "done"] /\ wpc[a][w] = "loaded"
      BY <2>3 DEF Process
    <3>2. wpc[b][v] # "free"
      BY <3>1, <1>0
    <3>. QED  BY <3>1, <3>2, <1>1
  <2>4. CASE Finish(a, w)
    <3>1. wfile[a][w] \in Files /\ Busy(a, w, NoFile, "free")
      BY <2>4, <1>0 DEF Finish
    <3>. QED  BY <3>1, <1>3
  <2>. QED  BY <1>4, <2>1, <2>2, <2>3, <2>4 DEF Work
<1>5. ASSUME NEW a \in Agents, Restart(a) PROVE May(b, g)'
  <2>1. CASE a = b
    BY <1>5, <2>1, <1>0 DEF Restart
  <2>2. CASE a # b
    <3>1. wpc'[b] = wpc[b] /\ wfile'[b] = wfile[b]
      BY <1>5, <2>2, <1>0 DEF Restart
    <3>. QED  BY <3>1, <1>1
  <2>. QED  BY <2>1, <2>2
<1>6. ASSUME NEW a \in Agents, Rescan(a) \/ \E f \in Files : Watch(a, f)
      PROVE  UNCHANGED worker
  BY <1>6 DEF Rescan, RescanStart, RescanStaged, RescanInbox, RescanLook, RescanEnd, Watch
<1>7. ASSUME NEW a \in Agents, NEW h \in Handlers, Handle(a, h) PROVE UNCHANGED worker
  BY <1>7 DEF Handle, Stage, Submit, Mark
<1>8. ASSUME NEW f \in Files, \/ Arrive(f) \/ Grow(f) \/ Prune(f)
                              \/ \E a \in Agents : Receive(a, f) \/ ProcessMessage(a, f)
      PROVE  UNCHANGED worker
  BY <1>8 DEF Arrive, Grow, Prune, Receive, ProcessMessage
<1>9. CASE UNCHANGED vars
  BY <1>9, <1>2 DEF vars
<1>. QED  BY <1>2, <1>4, <1>5, <1>6, <1>7, <1>8, <1>9 DEF Next

\* What a daemon's poll holds it has archived.
LEMMA PollsMayStep ==
    ASSUME TypeOK, PollsMay, [Next]_vars
    PROVE  PollsMay'
<1>. SUFFICES ASSUME NEW b \in Agents, NEW g \in polls'[b] PROVE b \in polled'[id[g]]
  BY DEF PollsMay
<1>1. ASSUME g \in polls[b] PROVE b \in polled'[id[g]]
  <2>1. id[g] \in Ids /\ b \in polled[id[g]]
    BY <1>1 DEF PollsMay, TypeOK
  <2>. QED  BY <2>1, PolledGrows
<1>2. ASSUME NEW a \in Agents, NEW f \in Files, Receive(a, f) PROVE b \in polled'[id[g]]
  <2>1. CASE g \notin polls[b]
    <3>1. a = b /\ f = g
      BY <1>2, <2>1 DEF Receive, TypeOK
    <3>. QED  BY <1>2, <3>1 DEF Receive, TypeOK
  <2>. QED  BY <1>1, <2>1
<1>3. ASSUME NEW a \in Agents, Restart(a) \/ \E f \in Files : ProcessMessage(a, f)
      PROVE  g \in polls[b]
  <2>0. polls \in [Agents -> SUBSET Files]
    BY DEF TypeOK
  <2>1. CASE Restart(a)
    <3>1. polls' = [polls EXCEPT ![a] = {}]
      BY <2>1 DEF Restart
    <3>. QED  BY <3>1, <2>0
  <2>2. ASSUME NEW f \in Files, ProcessMessage(a, f) PROVE g \in polls[b]
    <3>1. polls' = [polls EXCEPT ![a] = @ \ {f}]
      BY <2>2 DEF ProcessMessage
    <3>. QED  BY <3>1, <2>0
  <2>. QED  BY <1>3, <2>1, <2>2
<1>4. \/ UNCHANGED polls
      \/ \E a \in Agents : \/ Restart(a)
                           \/ \E f \in Files : Receive(a, f) \/ ProcessMessage(a, f)
  <2>1. ASSUME NEW a \in Agents, Rescan(a) \/ \E h \in Handlers : Handle(a, h)
        PROVE  UNCHANGED polls
    BY <2>1 DEF Handle, Stage, Submit, Mark, Rescan, RescanStart, RescanStaged, RescanInbox,
                RescanLook, RescanEnd
  <2>2. ASSUME NEW a \in Agents, NEW w \in Workers, Work(a, w) PROVE UNCHANGED polls
    BY <2>2 DEF Work, Take, LoadFails, Process, Finish
  <2>. QED  BY <2>1, <2>2 DEF Next, vars, Arrive, Grow, Prune, Watch
<1>. QED  BY <1>1, <1>2, <1>3, <1>4

\* A message is processed by a loop, or by a poll, that may.
LEMMA RecipientStep ==
    ASSUME TypeOK, WorkersMay, PollsMay, RecipientUnlessRescued, [Next]_vars
    PROVE  RecipientUnlessRescued'
<1>. DEFINE Allowed(i, b) == \/ to[i] \in {b, Everyone} \/ b \in nameless
                             \/ b \in rescued[i] \cup polled[i]
<1>. SUFFICES ASSUME NEW i \in Ids, NEW b \in Agents, taken'[i][b] > 0 PROVE Allowed(i, b)'
  BY DEF RecipientUnlessRescued
<1>0. Allowed(i, b) => Allowed(i, b)'
  BY RescuedGrows, PolledGrows, NamesStay
<1>1. CASE taken[i][b] > 0
  BY <1>0, <1>1 DEF RecipientUnlessRescued
<1>2. CASE UNCHANGED taken
  BY <1>1, <1>2
<1>3. ASSUME NEW a \in Agents, NEW j \in Ids, process_envelope(a, j), Allowed(j, a)
      PROVE  Allowed(i, b)'
  <2>1. CASE a = b /\ i = j
    BY <1>0, <1>3, <2>1
  <2>2. CASE ~(a = b /\ i = j)
    <3>1. taken \in [Ids -> [Agents -> 0 .. 2]]
      BY DEF TypeOK
    <3>2. taken'[i][b] = taken[i][b]
      BY <1>3, <2>2, <3>1 DEF process_envelope
    <3>. QED  BY <3>2, <1>1
  <2>. QED  BY <2>1, <2>2
<1>4. ASSUME NEW a \in Agents, NEW w \in Workers, Process(a, w) PROVE Allowed(i, b)'
  <2>1. wfile[a][w] \in Files /\ id[wfile[a][w]] \in Ids /\ May(a, wfile[a][w])
    BY <1>4 DEF Process, TypeOK, WorkersMay
  <2>2. Allowed(id[wfile[a][w]], a)
    BY <2>1 DEF May, ToMe
  <2>. HIDE DEF Allowed
  <2>. QED  BY <1>3, <1>4, <2>1, <2>2 DEF Process
<1>5. ASSUME NEW a \in Agents, NEW f \in Files, ProcessMessage(a, f) PROVE Allowed(i, b)'
  <2>1. id[f] \in Ids /\ Allowed(id[f], a)
    BY <1>5 DEF ProcessMessage, PollsMay
  <2>. HIDE DEF Allowed
  <2>. QED  BY <1>3, <1>5, <2>1 DEF ProcessMessage
<1>. HIDE DEF Allowed
<1>. QED  BY <1>2, <1>4, <1>5, Runs

\* A loop that has a name and processes a message for another has it from its own rescan, or
\* its daemon's poll.
THEOREM RecipientsServed == Spec => []RecipientUnlessRescued
<1>1. Init => MayInv
  BY DEF Init, MayInv, HandlersMay, QueuesMay, WorkersMay, PollsMay, RecipientUnlessRescued
<1>2. TypeOK /\ MayInv /\ [Next]_vars => MayInv'
  BY HandlersMayStep, QueuesMayStep, WorkersMayStep, PollsMayStep, RecipientStep DEF MayInv
<1>3. MayInv => RecipientUnlessRescued
  BY DEF MayInv
<1>. QED  BY <1>1, <1>2, <1>3, TypeCorrect, PTL DEF Spec

(***************************************************************************)
(* A message that is not raced is processed once.  It has at most one claim *)
(* on being processed at a time, in the order a handler bound to submit it, *)
(* a place in the queue, a worker that has loaded it, the answer.  The first *)
(* claim is made only when there is none: by the test for duplicates, since *)
(* a loop with a claim remembers the message or is about to.                *)
(***************************************************************************)

\* A handler is at message i; it will submit it.
At(a, h, i)    == hpc[a][h] # "idle" /\ id[hfile[a][h]] = i
Bound(a, h, i) == /\ At(a, h, i)
                  /\ \/ hpc[a][h] = "staged"
                     \/ hpc[a][h] = "cleared" /\ to[i] = Everyone

Queued(a, n, i) == n \in 1 .. Len(queue[a]) /\ id[queue[a][n]] = i
Has(a, w, i)    == wpc[a][w] = "loaded" /\ id[wfile[a][w]] = i

\* The claims that follow a handler's.
Pending(a, i) == \/ \E n \in 1 .. Len(queue[a]) : Queued(a, n, i)
                 \/ \E w \in Workers : Has(a, w, i)
                 \/ taken[i][a] > 0

\* There is at most one claim.
OneClaim(a, i) ==
    /\ taken[i][a] <= 1
    /\ \A h, k \in Handlers : Bound(a, h, i) /\ Bound(a, k, i) => h = k
    /\ \A m, n \in 1 .. Len(queue[a]) : Queued(a, m, i) /\ Queued(a, n, i) => m = n
    /\ \A v, w \in Workers : Has(a, v, i) /\ Has(a, w, i) => v = w
    /\ \A h \in Handlers : Bound(a, h, i) => ~Pending(a, i)
    /\ \A n \in 1 .. Len(queue[a]) : Queued(a, n, i) =>
          taken[i][a] = 0 /\ \A w \in Workers : ~Has(a, w, i)
    /\ \A w \in Workers : Has(a, w, i) => taken[i][a] = 0

\* What a loop has or had has been delivered, and a worker without work has no file.
HandlersDelivered == \A a \in Agents, h \in Handlers :
    hpc[a][h] # "idle" => place[hfile[a][h]] # "coming"
QueuesDelivered == \A a \in Agents : \A n \in 1 .. Len(queue[a]) : place[queue[a][n]] # "coming"
WorkersDelivered == \A a \in Agents, w \in Workers :
    IF wpc[a][w] = "free" THEN wfile[a][w] = NoFile ELSE place[wfile[a][w]] # "coming"
AnswersDelivered == \A i \in Ids \ raced, a \in Agents :
    taken[i][a] > 0 => \E f \in Files : id[f] = i /\ place[f] # "coming"
Delivery == HandlersDelivered /\ QueuesDelivered /\ WorkersDelivered /\ AnswersDelivered

\* A handler has staged what it will submit.
StagedLeft ==
    \A a \in Agents, h \in Handlers :
        hpc[a][h] \in {"staged", "submitted"} /\ Directed(hfile[a][h]) => place[hfile[a][h]] # "inbox"

\* A file in processing is on its way, so that no rescan finds it without a race.
Flight ==
    /\ \A f \in Files : place[f] = "processing" /\ id[f] \notin raced => InFlight(f)
    /\ \A i \in Ids \ raced : rescued[i] = {}

\* Both threads of a loop are at one message only with one file, which they must stage.
Together ==
    \A a \in Agents, h, k \in Handlers :
        /\ h # k /\ hpc[a][h] # "idle" /\ hpc[a][k] # "idle"
        /\ id[hfile[a][h]] = id[hfile[a][k]] /\ id[hfile[a][h]] \notin raced
        => hfile[a][h] = hfile[a][k] /\ Directed(hfile[a][h])

\* A loop remembers what it has submitted.
Remembered ==
    \A i \in Ids \ raced, a \in Agents :
        Pending(a, i) => i \in seen[a] \/ \E h \in Handlers : hpc[a][h] = "submitted" /\ At(a, h, i)

\* While a handler may still stage a file nothing else claims its message.
Unclaimed ==
    \A i \in Ids \ raced, a \in Agents, h \in Handlers :
        /\ hpc[a][h] = "cleared" /\ At(a, h, i) /\ to[i] # Everyone /\ place[hfile[a][h]] = "inbox"
        => ~Pending(a, i) /\ \A k \in Handlers : ~Bound(a, k, i)

Claims == \A i \in Ids \ raced, a \in Agents : OneClaim(a, i)

\* A loop has processed only what it takes for its own.
Mine == \A i \in Ids \ raced, a \in Agents :
    taken[i][a] > 0 => to[i] \in {a, Everyone} \/ a \in nameless

OnceInv == Delivery /\ StagedLeft /\ Flight /\ Together /\ Remembered /\ Unclaimed /\ Claims /\ Mine

(***************************************************************************)
(* What the steps do to what a message's way through a loop depends on: the *)
(* handlers, the queue, the workers, what a loop remembers and where files   *)
(* are.                                                                     *)
(***************************************************************************)

\* Files go forward, and none is staged.
Forward == \A g \in Files : /\ place'[g] = "coming" => place[g] = "coming"
                            /\ place'[g] = "inbox" => place[g] \in {"coming", "inbox"}
                            /\ place'[g] = "processing" => place[g] = "processing"

HandlerTo(a, h, l, f) ==
    \A b \in Agents, k \in Handlers :
        IF b = a /\ k = h THEN hpc'[b][k] = l /\ hfile'[b][k] = f
        ELSE hpc'[b][k] = hpc[b][k] /\ hfile'[b][k] = hfile[b][k]

WorkerTo(a, w, l, f) ==
    \A b \in Agents, v \in Workers :
        IF b = a /\ v = w THEN wpc'[b][v] = l /\ wfile'[b][v] = f
        ELSE wpc'[b][v] = wpc[b][v] /\ wfile'[b][v] = wfile[b][v]

Enqueued(a, f) ==
    /\ \A b \in Agents \ {a} : queue'[b] = queue[b]
    /\ Len(queue'[a]) = Len(queue[a]) + 1 /\ queue'[a][Len(queue[a]) + 1] = f
    /\ \A n \in 1 .. Len(queue[a]) : queue'[a][n] = queue[a][n]

Dequeued(a) ==
    /\ \A b \in Agents \ {a} : queue'[b] = queue[b]
    /\ Len(queue[a]) > 0 /\ Len(queue'[a]) = Len(queue[a]) - 1
    /\ \A n \in 1 .. Len(queue'[a]) : queue'[a][n] = queue[a][n + 1]

\* The steps, by what they do.
Calm == /\ Forward /\ raced \subseteq raced'
        /\ \A i \in Ids \ raced' : taken'[i] = taken[i]
        /\ UNCHANGED <<handler, seen, queue, worker, rescued>>

Clears(a, h, f) ==
    /\ hpc[a][h] = "idle" /\ place[f] = "inbox" /\ ToMe(a, f) /\ id[f] \notin seen[a]
    /\ HandlerTo(a, h, "cleared", f)
    /\ raced' = IF Overtaken(a, h, f) THEN raced \cup {id[f]} ELSE raced
    /\ UNCHANGED <<place, seen, queue, worker, taken, rescued>>

Stages(a, h) ==
    /\ hpc[a][h] = "cleared" /\ Directed(hfile[a][h]) /\ place[hfile[a][h]] = "inbox"
    /\ \A g \in Files : place'[g] = IF g = hfile[a][h] THEN "processing" ELSE place[g]
    /\ HandlerTo(a, h, "staged", hfile[a][h])
    /\ UNCHANGED <<seen, queue, worker, taken, rescued, raced>>

Drops(a, h) ==
    /\ hpc[a][h] = "cleared" /\ Directed(hfile[a][h])
    /\ HandlerTo(a, h, "idle", NoFile)
    /\ UNCHANGED <<place, seen, queue, worker, taken, rescued, raced>>

Submits(a, h) ==
    /\ \/ hpc[a][h] = "staged"
       \/ hpc[a][h] = "cleared" /\ ~Directed(hfile[a][h])
    /\ HandlerTo(a, h, "submitted", hfile[a][h])
    /\ Enqueued(a, hfile[a][h])
    /\ UNCHANGED <<place, seen, worker, taken, rescued, raced>>

Marks(a, h) ==
    /\ hpc[a][h] = "submitted"
    /\ HandlerTo(a, h, "idle", NoFile)
    /\ \A b \in Agents \ {a} : seen'[b] = seen[b]
    /\ (seen[a] \cup {id[hfile[a][h]]}) \ seen'[a] \subseteq raced' /\ raced \subseteq raced'
    /\ UNCHANGED <<place, queue, worker, taken, rescued>>

Rescues(a, f) ==
    /\ place[f] = "processing"
    /\ Enqueued(a, f)
    /\ \A i \in Ids \ {id[f]} : rescued'[i] = rescued[i]
    /\ raced' = IF InFlight(f) THEN raced \cup {id[f]} ELSE raced
    /\ UNCHANGED <<place, handler, seen, worker, taken>>

Takes(a, w) ==
    /\ wpc[a][w] = "free" /\ Dequeued(a)
    /\ WorkerTo(a, w, "loaded", queue[a][1])
    /\ UNCHANGED <<place, handler, seen, taken, rescued, raced>>

Leaves(a) ==
    /\ Dequeued(a) /\ Forward /\ place'[queue[a][1]] # "processing"
    /\ UNCHANGED <<handler, seen, worker, taken, rescued, raced>>

Answers(a, w) ==
    /\ wpc[a][w] = "loaded" /\ WorkerTo(a, w, "done", wfile[a][w])
    /\ \A i \in Ids, b \in Agents :
          taken'[i][b] = IF b = a /\ i = id[wfile[a][w]] /\ taken[i][b] < 2 THEN taken[i][b] + 1
                         ELSE taken[i][b]
    /\ UNCHANGED <<place, handler, seen, queue, rescued, raced>>

Frees(a, w) ==
    /\ wpc[a][w] = "done" /\ WorkerTo(a, w, "free", NoFile)
    /\ Forward /\ place'[wfile[a][w]] # "processing"
    /\ UNCHANGED <<handler, seen, queue, taken, rescued, raced>>

Restarts(a) ==
    /\ \A b \in Agents, k \in Handlers :
          IF b = a THEN hpc'[b][k] = "idle"
          ELSE hpc'[b][k] = hpc[b][k] /\ hfile'[b][k] = hfile[b][k]
    /\ \A b \in Agents, w \in Workers :
          IF b = a THEN wpc'[b][w] = "free" /\ wfile'[b][w] = NoFile
          ELSE wpc'[b][w] = wpc[b][w] /\ wfile'[b][w] = wfile[b][w]
    /\ \A b \in Agents : IF b = a THEN queue'[b] = <<>> ELSE queue'[b] = queue[b]
    /\ \A b \in Agents \ {a} : seen'[b] = seen[b]
    /\ raced' = raced \cup {id[f] : f \in {g \in Files : place[g] # "coming"}}
    /\ UNCHANGED <<place, taken, rescued>>

\* Every file is at one place.
LEMMA PlaceType ==
    ASSUME TypeOK, NEW f \in Files, NEW p, Move(f, p)
    PROVE  \A g \in Files : place'[g] = IF g = f THEN p ELSE place[g]
BY DEF TypeOK, Move

\* The places of a file that moves on.
LEMMA MoveForward ==
    ASSUME TypeOK, NEW f \in Files, NEW p \in {"deadletter", "gone"}, Move(f, p)
    PROVE  Forward /\ place'[f] = p
BY PlaceType DEF Forward

\* One handler moves.
LEMMA HandlerMoves ==
    ASSUME TypeOK, NEW a \in Agents, NEW h \in Handlers, NEW l, NEW f,
           hpc' = [hpc EXCEPT ![a][h] = l],
           hfile' = [hfile EXCEPT ![a][h] = f] \/ (hfile' = hfile /\ f = hfile[a][h])
    PROVE  HandlerTo(a, h, l, f)
BY DEF TypeOK, HandlerTo

\* One worker moves.
LEMMA WorkerMoves ==
    ASSUME TypeOK, NEW a \in Agents, NEW w \in Workers, NEW l, NEW f,
           wpc' = [wpc EXCEPT ![a][w] = l],
           wfile' = [wfile EXCEPT ![a][w] = f] \/ (wfile' = wfile /\ f = wfile[a][w])
    PROVE  WorkerTo(a, w, l, f)
BY DEF TypeOK, WorkerTo

\* A file is put at the end of a queue.
LEMMA QueueGrows ==
    ASSUME TypeOK, NEW a \in Agents, NEW f \in Files, queue' = [queue EXCEPT ![a] = Append(@, f)]
    PROVE  Enqueued(a, f)
<1>1. queue \in [Agents -> Seq(Files)] /\ queue[a] \in Seq(Files)
  BY DEF TypeOK
<1>2. queue'[a] = Append(queue[a], f) /\ \A b \in Agents \ {a} : queue'[b] = queue[b]
  BY <1>1
<1>3. /\ Len(Append(queue[a], f)) = Len(queue[a]) + 1
      /\ Append(queue[a], f)[Len(queue[a]) + 1] = f
      /\ \A n \in 1 .. Len(queue[a]) : Append(queue[a], f)[n] = queue[a][n]
  BY <1>1
<1>. QED  BY <1>2, <1>3 DEF Enqueued

\* The first file is taken from a queue.
LEMMA QueueShrinks ==
    ASSUME TypeOK, NEW a \in Agents, queue[a] # <<>>, queue' = [queue EXCEPT ![a] = Tail(@)]
    PROVE  Dequeued(a) /\ Head(queue[a]) = queue[a][1] /\ queue[a][1] \in Files
<1>1. queue \in [Agents -> Seq(Files)] /\ queue[a] \in Seq(Files)
  BY DEF TypeOK
<1>2. queue'[a] = Tail(queue[a]) /\ \A b \in Agents \ {a} : queue'[b] = queue[b]
  BY <1>1
<1>3. /\ Len(queue[a]) \in Nat /\ Len(queue[a]) > 0 /\ Len(Tail(queue[a])) = Len(queue[a]) - 1
      /\ \A n \in 1 .. Len(queue[a]) - 1 : Tail(queue[a])[n] = queue[a][n + 1]
      /\ Head(queue[a]) = queue[a][1] /\ queue[a][1] \in Files
  BY <1>1
<1>. QED  BY <1>2, <1>3 DEF Dequeued

\* A look at a file leaves everything, moves the file on, or clears it.
LEMMA LookSteps ==
    ASSUME TypeOK, NEW a \in Agents, NEW h \in Handlers, NEW f \in Files,
           hpc[a][h] = "idle", Look(a, h, f), UNCHANGED <<seen, queue, worker, taken, rescued>>
    PROVE  Calm \/ Clears(a, h, f)
<1>1. CASE UNCHANGED <<files, handler, raced>>
  BY <1>1 DEF Calm, Forward, files
<1>2. CASE UNCHANGED <<handler, raced>> /\ (Move(f, "deadletter") \/ Move(f, "gone"))
  BY <1>2, MoveForward DEF Calm
<1>3. CASE /\ place[f] = "inbox" /\ ToMe(a, f) /\ id[f] \notin seen[a]
           /\ hpc' = [hpc EXCEPT ![a][h] = "cleared"] /\ hfile' = [hfile EXCEPT ![a][h] = f]
           /\ raced' = IF Overtaken(a, h, f) THEN raced \cup {id[f]} ELSE raced
           /\ UNCHANGED files
  BY <1>3, HandlerMoves DEF Clears, files
<1>. QED  BY <1>1, <1>2, <1>3 DEF Look

\* A step of a handler on its file.
LEMMA HandleSteps ==
    ASSUME TypeOK, NEW a \in Agents, NEW h \in Handlers, Handle(a, h)
    PROVE  Stages(a, h) \/ Drops(a, h) \/ Submits(a, h) \/ Marks(a, h)
<1>. USE DEF files, history
<1>0. hfile[a][h] \in Files
  BY DEF Handle, Stage, Submit, Mark, TypeOK
<1>1. CASE Stage(a, h)
  <2>1. CASE place[hfile[a][h]] = "inbox"
    <3>1. HandlerTo(a, h, "staged", hfile[a][h])
      BY <1>1, <2>1, HandlerMoves DEF Stage
    <3>2. \A g \in Files : place'[g] = IF g = hfile[a][h] THEN "processing" ELSE place[g]
      BY <1>0, <1>1, <2>1, PlaceType DEF Stage
    <3>. QED  BY <1>1, <2>1, <3>1, <3>2 DEF Stage, Stages
  <2>2. CASE place[hfile[a][h]] # "inbox"
    <3>1. HandlerTo(a, h, "idle", NoFile)
      BY <1>1, <2>2, HandlerMoves DEF Stage
    <3>. QED  BY <1>1, <2>2, <3>1 DEF Stage, Drops
  <2>. QED  BY <2>1, <2>2
<1>2. CASE Submit(a, h)
  <2>1. HandlerTo(a, h, "submitted", hfile[a][h])
    BY <1>2, HandlerMoves DEF Submit
  <2>2. Enqueued(a, hfile[a][h])
    BY <1>0, <1>2, QueueGrows DEF Submit
  <2>. QED  BY <1>2, <2>1, <2>2 DEF Submit, Submits
<1>3. CASE Mark(a, h)
  <2>1. HandlerTo(a, h, "idle", NoFile)
    BY <1>3, HandlerMoves DEF Mark
  <2>2. /\ \A b \in Agents \ {a} : seen'[b] = seen[b]
        /\ (seen[a] \cup {id[hfile[a][h]]}) \ seen'[a] \subseteq raced' /\ raced \subseteq raced'
    <3>. DEFINE all == seen[a] \cup {id[hfile[a][h]]}
    <3>1. seen \in [Agents -> SUBSET Ids]
      BY DEF TypeOK
    <3>2. CASE seen' = [seen EXCEPT ![a] = all] /\ UNCHANGED raced
      BY <3>1, <3>2
    <3>3. ASSUME NEW kept \in SUBSET all, seen' = [seen EXCEPT ![a] = kept],
                 raced' = raced \cup (all \ kept)
          PROVE  /\ \A b \in Agents \ {a} : seen'[b] = seen[b]
                 /\ all \ seen'[a] \subseteq raced' /\ raced \subseteq raced'
      BY <3>1, <3>3
    <3>. QED  BY <1>3, <3>2, <3>3 DEF Mark
  <2>. QED  BY <1>3, <2>1, <2>2 DEF Mark, Marks
<1>. QED  BY <1>1, <1>2, <1>3 DEF Handle

\* A step of a worker.
LEMMA WorkSteps ==
    ASSUME TypeOK, NEW a \in Agents, NEW w \in Workers, Work(a, w)
    PROVE  Takes(a, w) \/ Leaves(a) \/ Answers(a, w) \/ Frees(a, w)
<1>. USE DEF files, history
<1>1. CASE Take(a, w)
  <2>1. Dequeued(a) /\ Head(queue[a]) = queue[a][1] /\ queue[a][1] \in Files
    BY <1>1, QueueShrinks DEF Take
  <2>2. CASE Busy(a, w, queue[a][1], "loaded")
    <3>1. WorkerTo(a, w, "loaded", queue[a][1])
      BY <2>2, WorkerMoves DEF Busy
    <3>. QED  BY <1>1, <2>1, <3>1 DEF Take, Takes
  <2>3. CASE place[queue[a][1]] # "processing" /\ UNCHANGED worker
    BY <1>1, <2>1, <2>3 DEF Take, Leaves, Forward
  <2>. QED  BY <1>1, <2>1, <2>2, <2>3 DEF Take
<1>2. CASE LoadFails(a, w)
  <2>1. Dequeued(a) /\ Head(queue[a]) = queue[a][1] /\ queue[a][1] \in Files
    BY <1>2, QueueShrinks DEF LoadFails
  <2>2. Move(queue[a][1], "deadletter")
    BY <1>2, <2>1 DEF LoadFails
  <2>3. Forward /\ place'[queue[a][1]] = "deadletter"
    BY <2>1, <2>2, MoveForward
  <2>. QED  BY <1>2, <2>1, <2>3 DEF LoadFails, Leaves
<1>3. CASE Process(a, w)
  <2>1. WorkerTo(a, w, "done", wfile[a][w])
    BY <1>3, WorkerMoves DEF Process
  <2>2. taken \in [Ids -> [Agents -> 0 .. 2]] /\ id[wfile[a][w]] \in Ids
    BY <1>3, InboxAssumption DEF Process, TypeOK
  <2>3. \A i \in Ids, b \in Agents :
           taken'[i][b] = IF b = a /\ i = id[wfile[a][w]] /\ taken[i][b] < 2 THEN taken[i][b] + 1
                          ELSE taken[i][b]
    BY <1>3, <2>2 DEF Process, process_envelope
  <2>. QED  BY <1>3, <2>1, <2>3 DEF Process, Answers
<1>4. CASE Finish(a, w)
  <2>1. WorkerTo(a, w, "free", NoFile)
    BY <1>4, WorkerMoves DEF Finish, Busy
  <2>2. wfile[a][w] \in Files
    BY <1>4 DEF Finish, TypeOK
  <2>3. Forward /\ place'[wfile[a][w]] # "processing"
    <3>1. CASE place[wfile[a][w]] = "processing"
      BY <1>4, <2>2, <3>1, MoveForward DEF Finish
    <3>2. CASE place[wfile[a][w]] # "processing"
      BY <1>4, <3>2 DEF Finish, Forward
    <3>. QED  BY <3>1, <3>2
  <2>. QED  BY <1>4, <2>1, <2>3 DEF Finish, Frees
<1>. QED  BY <1>1, <1>2, <1>3, <1>4 DEF Work

\* A step of a rescan, or a file the watcher is told of.
LEMMA RescanSteps ==
    ASSUME TypeOK, NEW a \in Agents, Rescan(a) \/ \E f \in Files : Watch(a, f)
    PROVE  \/ Calm \/ \E f \in Files : Rescues(a, f)
           \/ \E h \in Handlers, f \in Files : Clears(a, h, f)
<1>. USE DEF files, history
<1>1. CASE RescanStart(a) \/ RescanInbox(a) \/ RescanEnd(a)
  BY <1>1 DEF RescanStart, RescanInbox, RescanEnd, Calm, Forward
<1>2. ASSUME NEW f \in Files, RescanStaged(a, f) PROVE Calm \/ Rescues(a, f)
  <2>1. CASE Resubmit(a, f)
    <3>1. Enqueued(a, f)
      BY <2>1, QueueGrows DEF Resubmit
    <3>2. \A i \in Ids \ {id[f]} : rescued'[i] = rescued[i]
      BY <2>1 DEF Resubmit, TypeOK
    <3>. QED  BY <1>2, <2>1, <3>1, <3>2 DEF RescanStaged, Resubmit, Rescues
  <2>2. CASE UNCHANGED <<queue, rescued, raced>>
    BY <1>2, <2>2 DEF RescanStaged, Calm, Forward
  <2>. QED  BY <1>2, <2>1, <2>2 DEF RescanStaged
<1>3. ASSUME NEW f \in Files, RescanLook(a, f) PROVE Calm \/ Clears(a, "rescan", f)
  <2>1. /\ "rescan" \in Handlers /\ hpc[a]["rescan"] = "idle" /\ Look(a, "rescan", f)
        /\ UNCHANGED <<seen, queue, worker, taken, rescued>>
    BY <1>3 DEF RescanLook, Handlers
  <2>. QED  BY <2>1, LookSteps
<1>4. ASSUME NEW f \in Files, Watch(a, f) PROVE Calm \/ Clears(a, "watcher", f)
  <2>1. /\ "watcher" \in Handlers /\ hpc[a]["watcher"] = "idle" /\ Look(a, "watcher", f)
        /\ UNCHANGED <<seen, queue, worker, taken, rescued>>
    BY <1>4 DEF Watch, Handlers
  <2>. QED  BY <2>1, LookSteps
<1>. QED  BY <1>1, <1>2, <1>3, <1>4 DEF Rescan, Handlers

\* A loop starts with nothing in memory.
LEMMA RestartSteps == ASSUME TypeOK, NEW a \in Agents, Restart(a) PROVE Restarts(a)
<1>1. \A b \in Agents, k \in Handlers :
         IF b = a THEN hpc'[b][k] = "idle"
         ELSE hpc'[b][k] = hpc[b][k] /\ hfile'[b][k] = hfile[b][k]
  BY DEF Restart, TypeOK
<1>2. \A b \in Agents, w \in Workers :
         IF b = a THEN wpc'[b][w] = "free" /\ wfile'[b][w] = NoFile
         ELSE wpc'[b][w] = wpc[b][w] /\ wfile'[b][w] = wfile[b][w]
  BY DEF Restart, TypeOK
<1>3. \A b \in Agents : IF b = a THEN queue'[b] = <<>> ELSE queue'[b] = queue[b]
  BY DEF Restart, TypeOK
<1>4. \A b \in Agents \ {a} : seen'[b] = seen[b]
  BY DEF Restart, TypeOK
<1>. QED  BY <1>1, <1>2, <1>3, <1>4 DEF Restart, Restarts, files

\* A step of the daemon's poll.
LEMMA PollSteps ==
    ASSUME TypeOK, NEW a \in Agents, NEW f \in Files, Receive(a, f) \/ ProcessMessage(a, f)
    PROVE  Calm
<1>. USE DEF files
<1>1. CASE Receive(a, f)
  BY <1>1, MoveForward DEF Receive, Calm
<1>2. CASE ProcessMessage(a, f)
  <2>1. taken \in [Ids -> [Agents -> 0 .. 2]] /\ id[f] \in raced'
    BY <1>2 DEF ProcessMessage, TypeOK
  <2>2. \A i \in Ids \ raced' : taken'[i] = taken[i]
    BY <1>2, <2>1 DEF ProcessMessage, process_envelope
  <2>. QED  BY <1>2, <2>2 DEF ProcessMessage, Calm, Forward
<1>. QED  BY <1>1, <1>2

\* Every step is one of them.
LEMMA Steps ==
    ASSUME TypeOK, [Next]_vars
    PROVE  \/ Calm
           \/ \E a \in Agents : \/ \E h \in Handlers, f \in Files : Clears(a, h, f)
                                \/ \E h \in Handlers : \/ Stages(a, h) \/ Drops(a, h)
                                                       \/ Submits(a, h) \/ Marks(a, h)
                                \/ \E f \in Files : Rescues(a, f)
                                \/ \E w \in Workers : Takes(a, w) \/ Answers(a, w) \/ Frees(a, w)
                                \/ Leaves(a) \/ Restarts(a)
<1>1. CASE UNCHANGED vars
  BY <1>1 DEF vars, files, history, Calm, Forward
<1>2. ASSUME NEW f \in Files, Arrive(f) \/ Grow(f) \/ Prune(f) PROVE Calm
  <2>1. CASE Arrive(f)
    <3>1. \A g \in Files : place'[g] = IF g = f THEN "inbox" ELSE place[g]
      BY <2>1, PlaceType DEF Arrive
    <3>. QED  BY <2>1, <3>1 DEF Arrive, Calm, Forward, history
  <2>2. CASE Grow(f)
    BY <2>2 DEF Grow, Calm, Forward, history
  <2>3. CASE Prune(f)
    BY <2>3, MoveForward DEF Prune, Calm
  <2>. QED  BY <1>2, <2>1, <2>2, <2>3
<1>. QED  BY <1>1, <1>2, HandleSteps, WorkSteps, RescanSteps, RestartSteps, PollSteps DEF Next

\* A file is delivered once, and a race is remembered.
LEMMA Onward ==
    ASSUME TypeOK, [Next]_vars
    PROVE  /\ \A g \in Files : place'[g] = "coming" => place[g] = "coming"
           /\ \A g \in Files : place'[g] = "inbox" => place[g] \in {"coming", "inbox"}
           /\ raced \subseteq raced'
BY Steps DEF Calm, Clears, Stages, Drops, Submits, Marks, Rescues, Takes, Leaves, Answers, Frees,
             Restarts, Forward

\* What a loop has in memory is typed.
LEMMA MemoryType ==
    ASSUME TypeOK
    PROVE  /\ \A a \in Agents, h \in Handlers : hpc[a][h] # "idle" => hfile[a][h] \in Files
           /\ \A a \in Agents : /\ Len(queue[a]) \in Nat
                                /\ \A n \in 1 .. Len(queue[a]) : queue[a][n] \in Files
           /\ \A a \in Agents, w \in Workers : wpc[a][w] # "free" => wfile[a][w] \in Files
           /\ \A i \in Ids, a \in Agents : taken[i][a] \in 0 .. 2
           /\ \A f \in Files : id[f] \in Ids
BY InboxAssumption DEF TypeOK

\* A handler clears a file it found in the inbox.
LEMMA HandlersDeliveredStep ==
    ASSUME TypeOK, Delivery, [Next]_vars PROVE HandlersDelivered'
BY Steps, Onward, MemoryType
   DEF Delivery, HandlersDelivered, Calm, Clears, Stages, Drops, Submits, Marks, Rescues, Takes,
       Leaves, Answers, Frees, Restarts, HandlerTo, handler

\* A queue gets what a handler holds or what is in processing.
LEMMA QueuesDeliveredStep ==
    ASSUME TypeOK, Delivery, [Next]_vars PROVE QueuesDelivered'
<1>. SUFFICES ASSUME NEW b \in Agents, NEW n \in 1 .. Len(queue'[b])
              PROVE  place'[queue'[b][n]] # "coming"
  BY DEF QueuesDelivered
<1>0. \A g \in Files : place'[g] = "coming" => place[g] = "coming"
  BY Onward
<1>1. CASE queue' = queue
  BY <1>0, <1>1, MemoryType DEF Delivery, QueuesDelivered
<1>2. ASSUME NEW a \in Agents, NEW f \in Files, Enqueued(a, f), place[f] # "coming"
      PROVE  place'[queue'[b][n]] # "coming"
  BY <1>0, <1>2, MemoryType DEF Delivery, QueuesDelivered, Enqueued
<1>3. ASSUME NEW a \in Agents, Dequeued(a)
      PROVE  place'[queue'[b][n]] # "coming"
  <2>0. Len(queue[a]) \in Nat /\ \A m \in 1 .. Len(queue[a]) : queue[a][m] \in Files
    BY MemoryType
  <2>1. CASE b = a
    <3>1. n + 1 \in 1 .. Len(queue[b]) /\ queue'[b][n] = queue[b][n + 1]
      BY <1>3, <2>0, <2>1 DEF Dequeued
    <3>2. queue'[b][n] \in Files /\ place[queue'[b][n]] # "coming"
      BY <2>0, <2>1, <3>1 DEF Delivery, QueuesDelivered
    <3>. QED  BY <1>0, <3>2
  <2>2. CASE b # a
    <3>1. n \in 1 .. Len(queue[b]) /\ queue'[b][n] = queue[b][n]
      BY <1>3, <2>2 DEF Dequeued
    <3>2. queue'[b][n] \in Files /\ place[queue'[b][n]] # "coming"
      BY <3>1, MemoryType DEF Delivery, QueuesDelivered
    <3>. QED  BY <1>0, <3>2
  <2>. QED  BY <2>1, <2>2
<1>4. ASSUME NEW a \in Agents, Restarts(a)
      PROVE  place'[queue'[b][n]] # "coming"
  BY <1>0, <1>4, MemoryType DEF Delivery, QueuesDelivered, Restarts
<1>5. ASSUME NEW a \in Agents, NEW h \in Handlers, Submits(a, h)
      PROVE  place'[queue'[b][n]] # "coming"
  <2>1. hfile[a][h] \in Files /\ place[hfile[a][h]] # "coming"
    BY <1>5, MemoryType DEF Submits, Delivery, HandlersDelivered
  <2>. QED  BY <1>2, <1>5, <2>1 DEF Submits
<1>. QED
  BY <1>1, <1>2, <1>3, <1>4, <1>5, Steps
     DEF Calm, Clears, Stages, Drops, Marks, Rescues, Takes, Leaves, Answers, Frees

\* A worker loads what was in a queue.
LEMMA WorkersDeliveredStep ==
    ASSUME TypeOK, Delivery, [Next]_vars PROVE WorkersDelivered'
<1>0. \A g \in Files : place'[g] = "coming" => place[g] = "coming"
  BY Onward
<1>1. CASE UNCHANGED worker
  BY <1>0, <1>1, MemoryType DEF Delivery, WorkersDelivered, worker
<1>2. ASSUME NEW a \in Agents, NEW w \in Workers, Takes(a, w) PROVE WorkersDelivered'
  <2>1. queue[a][1] \in Files /\ place[queue[a][1]] # "coming"
    BY <1>2, MemoryType DEF Takes, Dequeued, Delivery, QueuesDelivered
  <2>. QED  BY <1>0, <1>2, <2>1, MemoryType DEF Delivery, WorkersDelivered, Takes, WorkerTo
<1>3. ASSUME NEW a \in Agents, NEW w \in Workers, Answers(a, w) PROVE WorkersDelivered'
  BY <1>0, <1>3, MemoryType DEF Delivery, WorkersDelivered, Answers, WorkerTo
<1>4. ASSUME NEW a \in Agents, NEW w \in Workers, Frees(a, w) PROVE WorkersDelivered'
  BY <1>0, <1>4, MemoryType DEF Delivery, WorkersDelivered, Frees, WorkerTo
<1>5. ASSUME NEW a \in Agents, Restarts(a) PROVE WorkersDelivered'
  BY <1>0, <1>5, MemoryType DEF Delivery, WorkersDelivered, Restarts
<1>. QED
  BY <1>1, <1>2, <1>3, <1>4, <1>5, Steps
     DEF Calm, Clears, Stages, Drops, Submits, Marks, Rescues, Leaves

\* What is answered was with a worker.
LEMMA AnswersDeliveredStep ==
    ASSUME TypeOK, Delivery, [Next]_vars PROVE AnswersDelivered'
<1>0. /\ \A g \in Files : place'[g] = "coming" => place[g] = "coming"
      /\ raced \subseteq raced'
  BY Onward
<1>1. CASE \A i \in Ids \ raced' : taken'[i] = taken[i]
  BY <1>0, <1>1 DEF Delivery, AnswersDelivered
<1>2. ASSUME NEW a \in Agents, NEW w \in Workers, Answers(a, w) PROVE AnswersDelivered'
  <2>1. wfile[a][w] \in Files /\ place[wfile[a][w]] # "coming"
    BY <1>2, MemoryType DEF Answers, Delivery, WorkersDelivered
  <2>. QED  BY <1>0, <1>2, <2>1, MemoryType DEF Delivery, AnswersDelivered, Answers
<1>. QED
  BY <1>1, <1>2, Steps
     DEF Calm, Clears, Stages, Drops, Submits, Marks, Rescues, Takes, Leaves, Frees, Restarts

\* A loop processes what its worker may have.
LEMMA MineStep ==
    ASSUME TypeOK, MayInv, Flight, Mine, [Next]_vars PROVE Mine'
<1>. SUFFICES ASSUME NEW i \in Ids \ raced', NEW b \in Agents, taken'[i][b] > 0
              PROVE  to[i] \in {b, Everyone} \/ b \in nameless
  BY NamesStay DEF Mine
<1>0. i \in Ids \ raced
  BY Onward
<1>1. CASE taken'[i][b] = taken[i][b]
  BY <1>0, <1>1 DEF Mine
<1>2. ASSUME NEW a \in Agents, NEW w \in Workers, Answers(a, w)
      PROVE  to[i] \in {b, Everyone} \/ b \in nameless
  <2>1. CASE a = b /\ i = id[wfile[a][w]]
    <3>1. May(b, wfile[b][w])
      BY <1>2, <2>1 DEF Answers, MayInv, WorkersMay
    <3>2. rescued[i] = {}
      BY <1>0 DEF Flight
    <3>. QED  BY <2>1, <3>1, <3>2 DEF May, ToMe
  <2>2. CASE ~(a = b /\ i = id[wfile[a][w]])
    BY <1>1, <1>2, <2>2 DEF Answers
  <2>. QED  BY <2>1, <2>2
<1>. QED
  BY <1>1, <1>2, Steps
     DEF Calm, Clears, Stages, Drops, Submits, Marks, Rescues, Takes, Leaves, Frees, Restarts

\* A staged file does not come back to the inbox.
LEMMA StagedLeftStep ==
    ASSUME TypeOK, Delivery, StagedLeft, [Next]_vars PROVE StagedLeft'
<1>0. /\ \A g \in Files : place'[g] = "inbox" => place[g] \in {"coming", "inbox"}
      /\ \A a \in Agents, h \in Handlers : hpc[a][h] # "idle" =>
            hfile[a][h] \in Files /\ place[hfile[a][h]] # "coming"
  BY Onward, MemoryType DEF Delivery, HandlersDelivered
<1>1. CASE UNCHANGED handler
  BY <1>0, <1>1 DEF StagedLeft, handler, Directed
<1>2. ASSUME NEW a \in Agents, NEW h \in Handlers, Stages(a, h) PROVE StagedLeft'
  BY <1>0, <1>2 DEF StagedLeft, Stages, HandlerTo, Directed
<1>3. ASSUME NEW a \in Agents, NEW h \in Handlers, NEW f \in Files, Clears(a, h, f)
      PROVE  StagedLeft'
  BY <1>0, <1>3 DEF StagedLeft, Clears, HandlerTo, Directed
<1>4. ASSUME NEW a \in Agents, NEW h \in Handlers, Submits(a, h) PROVE StagedLeft'
  BY <1>0, <1>4 DEF StagedLeft, Submits, HandlerTo, Directed
<1>5. ASSUME NEW a \in Agents, Restarts(a) PROVE StagedLeft'
  BY <1>0, <1>5 DEF StagedLeft, Restarts, Directed
<1>6. ASSUME NEW a \in Agents, NEW h \in Handlers, Drops(a, h) \/ Marks(a, h) PROVE StagedLeft'
  BY <1>0, <1>6 DEF StagedLeft, Drops, Marks, HandlerTo, Directed
<1>. QED
  BY <1>1, <1>2, <1>3, <1>4, <1>5, <1>6, Steps DEF Calm, Rescues, Takes, Leaves, Answers, Frees

\* A second handler at a message has the same file to stage, or is in a race.
LEMMA TogetherStep ==
    ASSUME TypeOK, Together, [Next]_vars PROVE Together'
<1>. SUFFICES ASSUME NEW b \in Agents, NEW j \in Handlers, NEW k \in Handlers, j # k,
                     hpc'[b][j] # "idle", hpc'[b][k] # "idle",
                     id[hfile'[b][j]] = id[hfile'[b][k]], id[hfile'[b][j]] \notin raced'
              PROVE  hfile'[b][j] = hfile'[b][k] /\ Directed(hfile'[b][j])
  BY DEF Together, Directed
<1>0. id[hfile'[b][j]] \notin raced
  BY Onward
<1>1. ASSUME /\ hpc[b][j] # "idle" /\ hfile'[b][j] = hfile[b][j]
             /\ hpc[b][k] # "idle" /\ hfile'[b][k] = hfile[b][k]
      PROVE  hfile'[b][j] = hfile'[b][k] /\ Directed(hfile'[b][j])
  BY <1>0, <1>1 DEF Together, Directed
<1>2. CASE UNCHANGED handler
  BY <1>1, <1>2 DEF handler
<1>3. ASSUME NEW a \in Agents, NEW h \in Handlers, NEW f \in Files, Clears(a, h, f)
      PROVE  hfile'[b][j] = hfile'[b][k] /\ Directed(hfile'[b][j])
  <2>1. CASE b = a /\ h \in {j, k}
    BY <1>0, <1>3, <2>1 DEF Clears, HandlerTo, Overtaken, Directed
  <2>2. CASE ~(b = a /\ h \in {j, k})
    BY <1>1, <1>3, <2>2 DEF Clears, HandlerTo
  <2>. QED  BY <2>1, <2>2
<1>4. ASSUME NEW a \in Agents, NEW h \in Handlers,
             Stages(a, h) \/ Drops(a, h) \/ Submits(a, h) \/ Marks(a, h)
      PROVE  hfile'[b][j] = hfile'[b][k] /\ Directed(hfile'[b][j])
  BY <1>1, <1>4 DEF Stages, Drops, Submits, Marks, HandlerTo
<1>5. ASSUME NEW a \in Agents, Restarts(a)
      PROVE  hfile'[b][j] = hfile'[b][k] /\ Directed(hfile'[b][j])
  BY <1>1, <1>5 DEF Restarts
<1>. QED
  BY <1>2, <1>3, <1>4, <1>5, Steps DEF Calm, Rescues, Takes, Leaves, Answers, Frees

\* A file in processing stays in flight, and a rescan that submits it races.
LEMMA FlightStep ==
    ASSUME TypeOK, Delivery, Flight, [Next]_vars PROVE Flight'
<1>. USE DEF Handlers
<1>0. /\ raced \subseteq raced'
      /\ \A f \in Files : place[f] = "processing" /\ id[f] \notin raced => InFlight(f)
      /\ \A i \in Ids \ raced : rescued[i] = {}
  BY Onward DEF Flight
<1>1. \A i \in Ids \ raced' : rescued'[i] = {}
  <2>1. ASSUME NEW a \in Agents, NEW f \in Files, Rescues(a, f)
        PROVE  \A i \in Ids \ raced' : rescued'[i] = {}
    BY <1>0, <2>1 DEF Rescues
  <2>. QED
    BY <1>0, <2>1, Steps DEF Calm, Clears, Stages, Drops, Submits, Marks, Takes, Leaves, Answers,
                             Frees, Restarts
<1>. SUFFICES ASSUME NEW g \in Files, place'[g] = "processing", id[g] \notin raced'
              PROVE  InFlight(g)'
  BY <1>1 DEF Flight, InFlight
<1>2. /\ \A a \in Agents : DOMAIN queue[a] = 1 .. Len(queue[a]) /\ Len(queue[a]) \in Nat
      /\ \A a \in Agents : DOMAIN queue'[a] = 1 .. Len(queue'[a]) /\ Len(queue'[a]) \in Nat
  BY TypeInductive DEF TypeOK
<1>3. ASSUME NEW a \in Agents,
             \/ \E n \in 1 .. Len(queue'[a]) : queue'[a][n] = g
             \/ \E w \in Workers : wfile'[a][w] = g
             \/ \E h \in Handlers : hfile'[a][h] = g /\ hpc'[a][h] = "staged"
      PROVE  InFlight(g)'
  BY <1>2, <1>3 DEF InFlight
<1>4. ASSUME NEW a \in Agents, NEW h \in Handlers, Stages(a, h) PROVE InFlight(g)'
  <2>1. CASE hfile[a][h] = g
    BY <1>3, <1>4, <2>1 DEF Stages, HandlerTo
  <2>2. CASE hfile[a][h] # g
    <3>1. PICK b \in Agents : \/ \E n \in 1 .. Len(queue[b]) : queue[b][n] = g
                              \/ \E w \in Workers : wfile[b][w] = g
                              \/ \E k \in Handlers : hfile[b][k] = g /\ hpc[b][k] = "staged"
      BY <1>0, <1>2, <1>4, <2>2 DEF Stages, InFlight
    <3>. QED  BY <1>3, <1>4, <2>2, <3>1 DEF Stages, HandlerTo, worker
  <2>. QED  BY <2>1, <2>2
<1>5. CASE \A f \in Files : place'[f] = "processing" => place[f] = "processing"
  <2>1. place[g] = "processing" /\ id[g] \notin raced
    BY <1>0, <1>5
  <2>2. PICK b \in Agents : \/ \E n \in 1 .. Len(queue[b]) : queue[b][n] = g
                            \/ \E w \in Workers : wfile[b][w] = g
                            \/ \E k \in Handlers : hfile[b][k] = g /\ hpc[b][k] = "staged"
    BY <1>0, <1>2, <2>1 DEF InFlight
  <2>3. CASE UNCHANGED <<handler, queue, worker>>
    BY <1>3, <2>2, <2>3 DEF handler, worker
  <2>4. ASSUME NEW a \in Agents, NEW h \in Handlers, NEW f \in Files,
               Clears(a, h, f) \/ Drops(a, h) \/ Marks(a, h)
        PROVE  InFlight(g)'
    BY <1>3, <2>2, <2>4 DEF Clears, Drops, Marks, HandlerTo, worker
  <2>5. ASSUME NEW a \in Agents, NEW h \in Handlers, Submits(a, h) PROVE InFlight(g)'
    <3>1. CASE \E n \in 1 .. Len(queue[b]) : queue[b][n] = g
      <4>1. PICK n \in 1 .. Len(queue[b]) : queue[b][n] = g
        BY <3>1
      <4>2. n \in 1 .. Len(queue'[b]) /\ queue'[b][n] = g
        BY <1>2, <2>5, <4>1 DEF Submits, Enqueued
      <4>. QED  BY <1>3, <4>2
    <3>2. CASE \E w \in Workers : wfile[b][w] = g
      BY <1>3, <2>5, <3>2 DEF Submits, worker
    <3>3. ASSUME NEW k \in Handlers, hfile[b][k] = g, hpc[b][k] = "staged" PROVE InFlight(g)'
      <4>1. CASE b = a /\ k = h
        <5>1. Len(queue'[b]) \in 1 .. Len(queue'[b]) /\ queue'[b][Len(queue'[b])] = g
          BY <1>2, <2>5, <3>3, <4>1 DEF Submits, Enqueued
        <5>. QED  BY <1>3, <5>1
      <4>2. CASE ~(b = a /\ k = h)
        <5>1. hfile'[b][k] = g /\ hpc'[b][k] = "staged"
          BY <2>5, <3>3, <4>2 DEF Submits, HandlerTo
        <5>. QED  BY <1>3, <5>1
      <4>. QED  BY <4>1, <4>2
    <3>. QED  BY <2>2, <3>1, <3>2, <3>3
  <2>6. ASSUME NEW a \in Agents, NEW f \in Files, Rescues(a, f) PROVE InFlight(g)'
    BY <1>2, <1>3, <2>2, <2>6 DEF Rescues, Enqueued, handler, worker
  <2>7. ASSUME NEW a \in Agents, NEW w \in Workers, Takes(a, w) PROVE InFlight(g)'
    <3>1. CASE \E n \in 1 .. Len(queue[b]) : queue[b][n] = g
      <4>1. PICK n \in 1 .. Len(queue[b]) : queue[b][n] = g
        BY <3>1
      <4>2. CASE b = a /\ n = 1
        BY <1>3, <2>7, <4>1, <4>2 DEF Takes, WorkerTo
      <4>3. CASE b = a /\ n # 1
        <5>1. n - 1 \in 1 .. Len(queue'[b]) /\ queue'[b][n - 1] = g
          BY <1>2, <2>7, <4>1, <4>3 DEF Takes, Dequeued
        <5>. QED  BY <1>3, <5>1
      <4>4. CASE b # a
        BY <1>3, <2>7, <4>1, <4>4 DEF Takes, Dequeued
      <4>. QED  BY <4>2, <4>3, <4>4
    <3>2. CASE \E v \in Workers : wfile[b][v] = g
      <4>1. PICK v \in Workers : wfile[b][v] = g
        BY <3>2
      <4>2. ~(b = a /\ v = w)
        BY <2>7, <4>1, InboxAssumption DEF Takes, Delivery, WorkersDelivered
      <4>. QED  BY <1>3, <2>7, <4>1, <4>2 DEF Takes, WorkerTo
    <3>3. CASE \E k \in Handlers : hfile[b][k] = g /\ hpc[b][k] = "staged"
      BY <1>3, <2>7, <3>3 DEF Takes, handler
    <3>. QED  BY <2>2, <3>1, <3>2, <3>3
  <2>8. ASSUME NEW a \in Agents, Leaves(a) PROVE InFlight(g)'
    <3>1. CASE \E n \in 1 .. Len(queue[b]) : queue[b][n] = g
      <4>1. PICK n \in 1 .. Len(queue[b]) : queue[b][n] = g
        BY <3>1
      <4>2. CASE b = a
        <5>1. n # 1
          BY <2>8, <4>1, <4>2 DEF Leaves
        <5>2. n - 1 \in 1 .. Len(queue'[b]) /\ queue'[b][n - 1] = g
          BY <1>2, <2>8, <4>1, <4>2, <5>1 DEF Leaves, Dequeued
        <5>. QED  BY <1>3, <5>2
      <4>3. CASE b # a
        BY <1>3, <2>8, <4>1, <4>3 DEF Leaves, Dequeued
      <4>. QED  BY <4>2, <4>3
    <3>. QED  BY <1>3, <2>2, <2>8, <3>1 DEF Leaves, handler, worker
  <2>9. ASSUME NEW a \in Agents, NEW w \in Workers, Answers(a, w) PROVE InFlight(g)'
    <3>1. \A c \in Agents, v \in Workers : wfile'[c][v] = wfile[c][v]
      BY <2>9 DEF Answers, WorkerTo
    <3>. QED  BY <1>3, <2>2, <2>9, <3>1 DEF Answers, handler
  <2>10. ASSUME NEW a \in Agents, NEW w \in Workers, Frees(a, w) PROVE InFlight(g)'
    <3>1. wfile[a][w] # g
      BY <2>10 DEF Frees
    <3>. QED  BY <1>3, <2>2, <2>10, <3>1 DEF Frees, WorkerTo, handler
  <2>11. ASSUME NEW a \in Agents, Restarts(a) PROVE FALSE
    <3>1. place[g] # "coming"
      BY <2>1
    <3>. QED  BY <2>11, <3>1 DEF Restarts
  <2>. QED
    BY <1>4, <2>3, <2>4, <2>5, <2>6, <2>7, <2>8, <2>9, <2>10, <2>11, Steps DEF Calm
<1>6. CASE ~\A f \in Files : place'[f] = "processing" => place[f] = "processing"
  BY <1>4, <1>6, Steps DEF Calm, Forward, Clears, Drops, Submits, Marks, Rescues, Takes, Leaves,
                           Answers, Frees, Restarts
<1>. QED  BY <1>5, <1>6

(***************************************************************************)
(* A rescan, or a restart, that touches a message's way makes it raced.     *)
(***************************************************************************)

\* A rescan that submits a file in processing finds it in flight.
LEMMA RescueRaces ==
    ASSUME TypeOK, Flight, NEW a \in Agents, NEW f \in Files, Rescues(a, f)
    PROVE  id[f] \in raced'
BY DEF Flight, Rescues

\* A message of which something is known was delivered.
LEMMA ClaimDelivered ==
    ASSUME TypeOK, Delivery, NEW i \in Ids \ raced, NEW a \in Agents,
           Pending(a, i) \/ \E h \in Handlers : At(a, h, i)
    PROVE  \E f \in Files : id[f] = i /\ place[f] # "coming"
<1>1. CASE \E n \in 1 .. Len(queue[a]) : Queued(a, n, i)
  BY <1>1, MemoryType DEF Delivery, QueuesDelivered, Queued
<1>2. CASE \E w \in Workers : Has(a, w, i)
  BY <1>2, MemoryType DEF Delivery, WorkersDelivered, Has
<1>3. CASE taken[i][a] > 0
  BY <1>3 DEF Delivery, AnswersDelivered
<1>4. CASE \E h \in Handlers : At(a, h, i)
  BY <1>4, MemoryType DEF Delivery, HandlersDelivered, At
<1>. QED  BY <1>1, <1>2, <1>3, <1>4 DEF Pending

\* A restart races every message of which a claim is left.
LEMMA RestartRaces ==
    ASSUME TypeOK, Delivery, NEW i \in Ids, NEW a \in Agents, NEW b \in Agents, Restarts(a),
           Pending(b, i) \/ \E h \in Handlers : At(b, h, i)
    PROVE  i \in raced'
BY ClaimDelivered DEF Restarts

\* The queue of a loop to which a file is added, or from which one is taken.
LEMMA EnqueuedClaims ==
    ASSUME TypeOK, NEW a \in Agents, NEW f \in Files, Enqueued(a, f), NEW b \in Agents, NEW i \in Ids,
           NEW n \in 1 .. Len(queue'[b]), Queued(b, n, i)'
    PROVE  \/ n \in 1 .. Len(queue[b]) /\ Queued(b, n, i)
           \/ b = a /\ id[f] = i /\ n = Len(queue[b]) + 1
BY MemoryType DEF Enqueued, Queued

\* The claims in a queue from which a file is taken.
LEMMA DequeuedClaims ==
    ASSUME TypeOK, NEW a \in Agents, Dequeued(a), NEW b \in Agents, NEW i \in Ids,
           NEW n \in 1 .. Len(queue'[b]), Queued(b, n, i)'
    PROVE  \/ b # a /\ n \in 1 .. Len(queue[b]) /\ Queued(b, n, i)
           \/ b = a /\ n + 1 \in 1 .. Len(queue[b]) /\ Queued(b, n + 1, i)
BY MemoryType DEF Dequeued, Queued

\* What is pending was so before, unless it was submitted in this step.
LEMMA PendingStep ==
    ASSUME TypeOK, Delivery, Flight, [Next]_vars, NEW i \in Ids \ raced', NEW b \in Agents,
           Pending(b, i)'
    PROVE  \/ Pending(b, i)
           \/ \E h \in Handlers : Submits(b, h) /\ id[hfile[b][h]] = i
<1>. USE MemoryType
<1>1. CASE UNCHANGED <<queue, worker>> /\ taken'[i] = taken[i]
  BY <1>1 DEF Pending, Queued, Has, worker
<1>2. ASSUME NEW a \in Agents, NEW f \in Files, Enqueued(a, f), UNCHANGED <<worker, taken>>
      PROVE  Pending(b, i) \/ (b = a /\ id[f] = i)
  <2>1. CASE \E n \in 1 .. Len(queue'[b]) : Queued(b, n, i)'
    BY <1>2, <2>1, EnqueuedClaims DEF Pending
  <2>2. CASE ~\E n \in 1 .. Len(queue'[b]) : Queued(b, n, i)'
    BY <1>2, <2>2 DEF Pending, Has, worker
  <2>. QED  BY <2>1, <2>2
<1>3. ASSUME NEW a \in Agents, NEW f \in Files, Rescues(a, f) PROVE Pending(b, i)
  BY <1>2, <1>3, RescueRaces DEF Rescues
<1>4. ASSUME NEW a \in Agents, NEW h \in Handlers, Submits(a, h)
      PROVE  Pending(b, i) \/ (b = a /\ id[hfile[a][h]] = i)
  <2>1. hfile[a][h] \in Files
    BY <1>4 DEF Submits
  <2>. QED  BY <1>2, <1>4, <2>1 DEF Submits
<1>5. ASSUME NEW a \in Agents, Dequeued(a), \E n \in 1 .. Len(queue'[b]) : Queued(b, n, i)'
      PROVE  Pending(b, i)
  BY <1>5, DequeuedClaims DEF Pending
<1>6. ASSUME NEW a \in Agents, NEW w \in Workers, Takes(a, w) PROVE Pending(b, i)
  <2>1. CASE \E n \in 1 .. Len(queue'[b]) : Queued(b, n, i)'
    BY <1>5, <1>6, <2>1 DEF Takes
  <2>2. CASE \E v \in Workers : Has(b, v, i)'
    <3>1. PICK v \in Workers : Has(b, v, i)'
      BY <2>2
    <3>2. CASE b = a /\ v = w
      <4>1. 1 \in 1 .. Len(queue[b]) /\ id[queue[b][1]] = i
        BY <1>6, <3>1, <3>2 DEF Takes, Dequeued, WorkerTo, Has
      <4>. QED  BY <4>1 DEF Pending, Queued
    <3>3. CASE ~(b = a /\ v = w)
      BY <1>6, <3>1, <3>3 DEF Takes, WorkerTo, Has, Pending
    <3>. QED  BY <3>2, <3>3
  <2>3. CASE taken'[i][b] > 0
    BY <1>6, <2>3 DEF Takes, Pending
  <2>. QED  BY <2>1, <2>2, <2>3 DEF Pending
<1>7. ASSUME NEW a \in Agents, Leaves(a) PROVE Pending(b, i)
  <2>1. CASE \E n \in 1 .. Len(queue'[b]) : Queued(b, n, i)'
    BY <1>5, <1>7, <2>1 DEF Leaves
  <2>2. CASE ~\E n \in 1 .. Len(queue'[b]) : Queued(b, n, i)'
    BY <1>7, <2>2 DEF Leaves, Pending, Has, worker
  <2>. QED  BY <2>1, <2>2
<1>8. ASSUME NEW a \in Agents, NEW w \in Workers, Answers(a, w) PROVE Pending(b, i)
  BY <1>8 DEF Answers, WorkerTo, Pending, Queued, Has
<1>9. ASSUME NEW a \in Agents, NEW w \in Workers, Frees(a, w) PROVE Pending(b, i)
  BY <1>9 DEF Frees, WorkerTo, Pending, Queued, Has
<1>10. ASSUME NEW a \in Agents, Restarts(a) PROVE Pending(b, i)
  BY <1>10 DEF Restarts, Pending, Queued, Has
<1>. QED
  BY <1>1, <1>3, <1>4, <1>6, <1>7, <1>8, <1>9, <1>10, Steps
     DEF Calm, Clears, Stages, Drops, Marks

\* A loop remembers what it has submitted: a second submission of a message would race.
LEMMA RememberedStep ==
    ASSUME TypeOK, Delivery, Flight, Remembered, [Next]_vars PROVE Remembered'
<1>. SUFFICES ASSUME NEW i \in Ids \ raced', NEW b \in Agents, Pending(b, i)'
              PROVE  i \in seen'[b] \/ \E h \in Handlers : hpc'[b][h] = "submitted" /\ At(b, h, i)'
  BY DEF Remembered
<1>1. CASE \E h \in Handlers : Submits(b, h) /\ id[hfile[b][h]] = i
  BY <1>1 DEF Submits, HandlerTo, At
<1>2. CASE Pending(b, i)
  <2>1. i \in Ids \ raced
    BY Onward
  <2>2. i \in seen[b] \/ \E h \in Handlers : hpc[b][h] = "submitted" /\ At(b, h, i)
    BY <1>2, <2>1 DEF Remembered
  <2>3. CASE UNCHANGED <<handler, seen>>
    BY <2>2, <2>3 DEF handler, At
  <2>4. ASSUME NEW a \in Agents, NEW h \in Handlers, NEW f \in Files, Clears(a, h, f)
        PROVE  i \in seen'[b] \/ \E k \in Handlers : hpc'[b][k] = "submitted" /\ At(b, k, i)'
    BY <2>2, <2>4 DEF Clears, HandlerTo, At
  <2>5. ASSUME NEW a \in Agents, NEW h \in Handlers, Stages(a, h) \/ Drops(a, h) \/ Submits(a, h)
        PROVE  i \in seen'[b] \/ \E k \in Handlers : hpc'[b][k] = "submitted" /\ At(b, k, i)'
    BY <2>2, <2>5 DEF Stages, Drops, Submits, HandlerTo, At
  <2>6. ASSUME NEW a \in Agents, NEW h \in Handlers, Marks(a, h)
        PROVE  i \in seen'[b] \/ \E k \in Handlers : hpc'[b][k] = "submitted" /\ At(b, k, i)'
    <3>1. CASE i \in seen[b]
      BY <2>6, <3>1 DEF Marks
    <3>0. i \notin raced'
      OBVIOUS
    <3>2. ASSUME NEW k \in Handlers, hpc[b][k] = "submitted", At(b, k, i)
          PROVE  i \in seen'[b] \/ (hpc'[b][k] = "submitted" /\ At(b, k, i)')
      <4>1. CASE b = a /\ k = h
        BY <2>6, <3>0, <3>2, <4>1 DEF Marks, At
      <4>2. CASE ~(b = a /\ k = h)
        BY <2>6, <3>2, <4>2 DEF Marks, HandlerTo, At
      <4>. QED  BY <4>1, <4>2
    <3>. QED  BY <2>2, <3>1, <3>2
  <2>7. ASSUME NEW a \in Agents, Restarts(a) PROVE FALSE
    BY <1>2, <2>7, RestartRaces
  <2>. QED
    BY <2>3, <2>4, <2>5, <2>6, <2>7, Steps DEF Calm, Rescues, Takes, Leaves, Answers, Frees
<1>. QED  BY <1>1, <1>2, PendingStep

\* A file still in the inbox is cleared only when no claim is left: staging it makes the
\* first one.
LEMMA UnclaimedStep ==
    ASSUME TypeOK, Delivery, StagedLeft, Flight, Together, Remembered, Unclaimed, [Next]_vars
    PROVE  Unclaimed'
<1>. SUFFICES ASSUME NEW i \in Ids \ raced', NEW b \in Agents, NEW j \in Handlers,
                     hpc'[b][j] = "cleared", At(b, j, i)', to[i] # Everyone,
                     place'[hfile'[b][j]] = "inbox"
              PROVE  ~Pending(b, i)' /\ \A k \in Handlers : ~Bound(b, k, i)'
  BY DEF Unclaimed
<1>0. i \in Ids \ raced
  BY Onward
<1>1. ASSUME hpc[b][j] = "cleared", hfile'[b][j] = hfile[b][j]
      PROVE  ~Pending(b, i)' /\ \A k \in Handlers : ~Bound(b, k, i)'
  <2>1. hfile[b][j] \in Files /\ place[hfile[b][j]] = "inbox" /\ At(b, j, i)
    BY <1>1, Onward, MemoryType DEF At, Delivery, HandlersDelivered
  <2>2. ~Pending(b, i) /\ \A k \in Handlers : ~Bound(b, k, i)
    BY <1>0, <1>1, <2>1 DEF Unclaimed
  <2>3. ~\E h \in Handlers : Submits(b, h) /\ id[hfile[b][h]] = i
    BY <2>2 DEF Submits, Bound, At, Directed
  <2>4. ~Pending(b, i)'
    BY <2>2, <2>3, PendingStep
  <2>5. \A k \in Handlers : ~Bound(b, k, i)'
    <3>1. CASE UNCHANGED handler
      BY <2>2, <3>1 DEF handler, Bound, At
    <3>2. ASSUME NEW a \in Agents, NEW h \in Handlers, NEW f \in Files, Clears(a, h, f)
          PROVE  \A k \in Handlers : ~Bound(b, k, i)'
      BY <2>2, <3>2 DEF Clears, HandlerTo, Bound, At
    <3>3. ASSUME NEW a \in Agents, NEW h \in Handlers, Stages(a, h)
          PROVE  \A k \in Handlers : ~Bound(b, k, i)'
      <4>1. CASE a = b /\ id[hfile[b][h]] = i
        <5>1. h # j
          BY <3>3, <4>1 DEF Stages, HandlerTo
        <5>2. hfile[b][h] = hfile[b][j]
          BY <1>0, <1>1, <2>1, <3>3, <4>1, <5>1 DEF Together, Stages, At
        <5>. QED  BY <1>1, <2>1, <3>3, <4>1, <5>2 DEF Stages
      <4>2. CASE ~(a = b /\ id[hfile[b][h]] = i)
        BY <2>2, <3>3, <4>2 DEF Stages, HandlerTo, Bound, At
      <4>. QED  BY <4>1, <4>2
    <3>4. ASSUME NEW a \in Agents, NEW h \in Handlers, Drops(a, h) \/ Submits(a, h) \/ Marks(a, h)
          PROVE  \A k \in Handlers : ~Bound(b, k, i)'
      BY <2>2, <3>4 DEF Drops, Submits, Marks, HandlerTo, Bound, At
    <3>5. ASSUME NEW a \in Agents, Restarts(a) PROVE \A k \in Handlers : ~Bound(b, k, i)'
      BY <2>2, <3>5 DEF Restarts, Bound, At
    <3>. QED
      BY <3>1, <3>2, <3>3, <3>4, <3>5, Steps DEF Calm, Rescues, Takes, Leaves, Answers, Frees
  <2>. QED  BY <2>4, <2>5
<1>2. ASSUME NEW f \in Files, Clears(b, j, f)
      PROVE  ~Pending(b, i)' /\ \A k \in Handlers : ~Bound(b, k, i)'
  <2>1. hfile'[b][j] = f /\ id[f] = i /\ Directed(f) /\ hpc[b][j] = "idle" /\ place[f] = "inbox"
    BY <1>2 DEF Clears, HandlerTo, At, Directed
  <2>2. ~Overtaken(b, j, f) /\ i \notin seen[b]
    BY <1>2, <2>1 DEF Clears
  <2>3. \A k \in Handlers : At(b, k, i) => k # j /\ hfile[b][k] = f
    BY <2>1, <2>2 DEF Overtaken, At
  <2>4. \A k \in Handlers : At(b, k, i) => hpc[b][k] = "cleared"
    <3>1. \A k \in Handlers : hpc[b][k] \in {"idle", "cleared", "staged", "submitted"}
      BY DEF TypeOK
    <3>2. \A k \in Handlers : At(b, k, i) => hpc[b][k] # "idle" /\ hfile[b][k] = f
      BY <2>3 DEF At
    <3>3. \A k \in Handlers : At(b, k, i) => hpc[b][k] \notin {"staged", "submitted"}
      BY <2>1, <3>2 DEF StagedLeft
    <3>. QED  BY <3>1, <3>2, <3>3
  <2>5. ~Pending(b, i)
    BY <1>0, <2>2, <2>4 DEF Remembered
  <2>6. ~Pending(b, i)'
    BY <1>2, <2>5, PendingStep DEF Submits, Clears, HandlerTo
  <2>7. \A k \in Handlers : ~Bound(b, k, i)'
    BY <1>2, <2>1, <2>4 DEF Clears, HandlerTo, Bound, At
  <2>. QED  BY <2>6, <2>7
<1>3. \/ hpc[b][j] = "cleared" /\ hfile'[b][j] = hfile[b][j]
      \/ \E f \in Files : Clears(b, j, f)
  <2>1. CASE UNCHANGED handler
    BY <2>1 DEF handler
  <2>2. ASSUME NEW a \in Agents, NEW h \in Handlers, NEW f \in Files, Clears(a, h, f)
        PROVE  (hpc[b][j] = "cleared" /\ hfile'[b][j] = hfile[b][j]) \/ Clears(b, j, f)
    BY <2>2 DEF Clears, HandlerTo
  <2>3. ASSUME NEW a \in Agents, NEW h \in Handlers,
               Stages(a, h) \/ Drops(a, h) \/ Submits(a, h) \/ Marks(a, h)
        PROVE  hpc[b][j] = "cleared" /\ hfile'[b][j] = hfile[b][j]
    BY <2>3 DEF Stages, Drops, Submits, Marks, HandlerTo
  <2>4. ASSUME NEW a \in Agents, Restarts(a)
        PROVE  hpc[b][j] = "cleared" /\ hfile'[b][j] = hfile[b][j]
    BY <2>4 DEF Restarts
  <2>. QED  BY <2>1, <2>2, <2>3, <2>4, Steps DEF Calm, Rescues, Takes, Leaves, Answers, Frees
<1>. QED  BY <1>1, <1>2, <1>3

\* A step that makes no claim and shifts no queue leaves one claim at most.
LEMMA ClaimsKept ==
    ASSUME NEW i \in Ids, NEW b \in Agents, OneClaim(b, i), queue'[b] = queue[b],
           taken'[i][b] = taken[i][b],
           \A h \in Handlers : Bound(b, h, i)' => Bound(b, h, i),
           \A w \in Workers : Has(b, w, i)' => Has(b, w, i)
    PROVE  OneClaim(b, i)'
<1>1. \A n : Queued(b, n, i)' <=> Queued(b, n, i)
  BY DEF Queued
<1>2. Pending(b, i)' => Pending(b, i)
  BY <1>1 DEF Pending
<1>. QED  BY <1>1, <1>2 DEF OneClaim

\* The first claim is a handler's: it is made where there is none.
LEMMA FirstClaim ==
    ASSUME NEW i \in Ids, NEW b \in Agents, OneClaim(b, i), NEW j \in Handlers,
           ~Pending(b, i), UNCHANGED <<queue, worker, taken>>,
           \A h \in Handlers : Bound(b, h, i)' => h = j
    PROVE  OneClaim(b, i)'
<1>1. \A n : Queued(b, n, i)' <=> Queued(b, n, i)
  BY DEF Queued
<1>2. \A w \in Workers : Has(b, w, i)' <=> Has(b, w, i)
  BY DEF Has, worker
<1>3. Pending(b, i)' => Pending(b, i)
  BY <1>1, <1>2 DEF Pending
<1>. QED  BY <1>1, <1>2, <1>3 DEF OneClaim

\* A claim goes from one stage to the next, and is not duplicated there.
LEMMA ClaimsStep ==
    ASSUME TypeOK, Delivery, StagedLeft, Flight, Together, Remembered, Unclaimed, Claims, [Next]_vars
    PROVE  Claims'
<1>. USE MemoryType
<1>. SUFFICES ASSUME NEW i \in Ids \ raced', NEW b \in Agents PROVE OneClaim(b, i)'
  BY DEF Claims
<1>0. i \in Ids \ raced /\ OneClaim(b, i) /\ Len(queue[b]) \in Nat
  BY Onward DEF Claims
<1>1. CASE Calm
  BY <1>0, <1>1, ClaimsKept DEF Calm, handler, worker, Bound, At, Has
<1>2. ASSUME NEW a \in Agents, NEW h \in Handlers, NEW f \in Files, Clears(a, h, f)
      PROVE  OneClaim(b, i)'
  <2>1. CASE a = b /\ id[f] = i /\ to[i] = Everyone
    <3>1. ~Overtaken(a, h, f) /\ i \notin seen[b]
      BY <1>2, <2>1 DEF Clears
    <3>2. \A k \in Handlers : ~At(b, k, i)
      BY <1>2, <2>1, <3>1 DEF Overtaken, At, Directed, Clears
    <3>3. ~Pending(b, i)
      BY <1>0, <3>1, <3>2 DEF Remembered
    <3>4. \A k \in Handlers : Bound(b, k, i)' => k = h
      BY <1>2, <3>2 DEF Clears, HandlerTo, Bound, At
    <3>. QED  BY <1>0, <1>2, <3>3, <3>4, FirstClaim DEF Clears
  <2>2. CASE ~(a = b /\ id[f] = i /\ to[i] = Everyone)
    <3>1. \A k \in Handlers : Bound(b, k, i)' => Bound(b, k, i)
      BY <1>2, <2>2 DEF Clears, HandlerTo, Bound, At
    <3>. QED  BY <1>0, <1>2, <3>1, ClaimsKept DEF Clears, Has, worker
  <2>. QED  BY <2>1, <2>2
<1>3. ASSUME NEW a \in Agents, NEW h \in Handlers, Stages(a, h) PROVE OneClaim(b, i)'
  <2>1. CASE a = b /\ id[hfile[b][h]] = i
    <3>1. ~Pending(b, i) /\ \A k \in Handlers : ~Bound(b, k, i)
      BY <1>0, <1>3, <2>1 DEF Unclaimed, Stages, At, Directed
    <3>2. \A k \in Handlers : Bound(b, k, i)' => k = h
      BY <1>3, <3>1 DEF Stages, HandlerTo, Bound, At
    <3>. QED  BY <1>0, <1>3, <3>1, <3>2, FirstClaim DEF Stages
  <2>2. CASE ~(a = b /\ id[hfile[b][h]] = i)
    <3>1. \A k \in Handlers : Bound(b, k, i)' => Bound(b, k, i)
      BY <1>3, <2>2 DEF Stages, HandlerTo, Bound, At
    <3>. QED  BY <1>0, <1>3, <3>1, ClaimsKept DEF Stages, Has, worker
  <2>. QED  BY <2>1, <2>2
<1>4. ASSUME NEW a \in Agents, NEW h \in Handlers, Drops(a, h) \/ Marks(a, h)
      PROVE  OneClaim(b, i)'
  <2>1. \A k \in Handlers : Bound(b, k, i)' => Bound(b, k, i)
    BY <1>4 DEF Drops, Marks, HandlerTo, Bound, At
  <2>. QED  BY <1>0, <1>4, <2>1, ClaimsKept DEF Drops, Marks, Has, worker
<1>5. ASSUME NEW a \in Agents, NEW f \in Files, Enqueued(a, f), ~(a = b /\ id[f] = i),
             UNCHANGED <<worker, taken>>, \A k \in Handlers : Bound(b, k, i)' => Bound(b, k, i)
      PROVE  OneClaim(b, i)'
  <2>1. \A n \in 1 .. Len(queue'[b]) : Queued(b, n, i)' => n \in 1 .. Len(queue[b]) /\ Queued(b, n, i)
    BY <1>5, EnqueuedClaims
  <2>2. \A w \in Workers : Has(b, w, i)' <=> Has(b, w, i)
    BY <1>5 DEF Has, worker
  <2>3. Pending(b, i)' => Pending(b, i)
    BY <1>5, <2>1, <2>2 DEF Pending
  <2>. QED  BY <1>0, <1>5, <2>1, <2>2, <2>3 DEF OneClaim
<1>6. ASSUME NEW a \in Agents, NEW h \in Handlers, Submits(a, h) PROVE OneClaim(b, i)'
  <2>0. hfile[a][h] \in Files
    BY <1>6 DEF Submits
  <2>1. CASE a = b /\ id[hfile[b][h]] = i
    <3>1. Bound(b, h, i)
      BY <1>6, <2>1 DEF Submits, Bound, At, Directed
    <3>2. ~Pending(b, i) /\ \A k \in Handlers : Bound(b, k, i) => k = h
      BY <1>0, <3>1 DEF OneClaim
    <3>3. \A k \in Handlers : ~Bound(b, k, i)'
      BY <1>6, <2>1, <3>2 DEF Submits, HandlerTo, Bound, At
    <3>4. \A n \in 1 .. Len(queue'[b]) : Queued(b, n, i)' => n = Len(queue[b]) + 1
      BY <1>6, <2>0, <2>1, <3>2, EnqueuedClaims DEF Submits, Pending
    <3>5. \A w \in Workers : ~Has(b, w, i)'
      BY <1>6, <3>2 DEF Submits, Pending, Has, worker
    <3>6. taken'[i][b] = taken[i][b] /\ taken[i][b] = 0
      BY <1>6, <3>2 DEF Submits, Pending
    <3>. QED  BY <3>3, <3>4, <3>5, <3>6 DEF OneClaim
  <2>2. CASE ~(a = b /\ id[hfile[b][h]] = i)
    <3>1. \A k \in Handlers : Bound(b, k, i)' => Bound(b, k, i)
      BY <1>6, <2>2 DEF Submits, HandlerTo, Bound, At
    <3>. QED  BY <1>5, <1>6, <2>0, <2>2, <3>1 DEF Submits
  <2>. QED  BY <2>1, <2>2
<1>7. ASSUME NEW a \in Agents, NEW f \in Files, Rescues(a, f) PROVE OneClaim(b, i)'
  <2>1. id[f] # i
    BY <1>7, RescueRaces
  <2>2. \A k \in Handlers : Bound(b, k, i)' => Bound(b, k, i)
    BY <1>7 DEF Rescues, handler, Bound, At
  <2>. QED  BY <1>5, <1>7, <2>1, <2>2 DEF Rescues
<1>8. ASSUME NEW a \in Agents, NEW w \in Workers, Takes(a, w) PROVE OneClaim(b, i)'
  <2>0. \A k \in Handlers : Bound(b, k, i)' <=> Bound(b, k, i)
    BY <1>8 DEF Takes, handler, Bound, At
  <2>1. CASE a # b
    <3>1. queue'[b] = queue[b] /\ \A v \in Workers : Has(b, v, i)' => Has(b, v, i)
      BY <1>8, <2>1 DEF Takes, Dequeued, WorkerTo, Has
    <3>. QED  BY <1>0, <1>8, <2>0, <3>1, ClaimsKept DEF Takes
  <2>2. CASE a = b
    <3>1. \A n \in 1 .. Len(queue'[b]) :
             Queued(b, n, i)' => n + 1 \in 1 .. Len(queue[b]) /\ Queued(b, n + 1, i)
      BY <1>8, <2>2, DequeuedClaims DEF Takes
    <3>2. ASSUME NEW v \in Workers, Has(b, v, i)'
          PROVE  Has(b, v, i) \/ (v = w /\ 1 \in 1 .. Len(queue[b]) /\ Queued(b, 1, i))
      <4>1. CASE v = w
        BY <1>0, <1>8, <2>2, <3>2, <4>1 DEF Takes, Dequeued, WorkerTo, Has, Queued
      <4>2. CASE v # w
        BY <1>8, <3>2, <4>2 DEF Takes, WorkerTo, Has
      <4>. QED  BY <4>1, <4>2
    <3>3. taken'[i][b] = taken[i][b]
      BY <1>8 DEF Takes
    <3>4. Pending(b, i)' => Pending(b, i)
      BY <3>1, <3>2, <3>3 DEF Pending
    <3>5. CASE 1 \in 1 .. Len(queue[b]) /\ Queued(b, 1, i)
      <4>1. \A n \in 1 .. Len(queue'[b]) : ~Queued(b, n, i)'
        BY <1>0, <3>1, <3>5 DEF OneClaim
      <4>2. \A v \in Workers : Has(b, v, i)' => v = w
        BY <1>0, <3>2, <3>5 DEF OneClaim
      <4>3. taken[i][b] = 0
        BY <1>0, <3>5 DEF OneClaim
      <4>. QED  BY <1>0, <2>0, <3>3, <3>4, <4>1, <4>2, <4>3 DEF OneClaim
    <3>6. CASE ~(1 \in 1 .. Len(queue[b]) /\ Queued(b, 1, i))
      <4>1. \A v \in Workers : Has(b, v, i)' => Has(b, v, i)
        BY <3>2, <3>6
      <4>2. \A m, n \in 1 .. Len(queue'[b]) : Queued(b, m, i)' /\ Queued(b, n, i)' => m = n
        BY <1>0, <3>1, <2>2, <1>8 DEF OneClaim, Takes, Dequeued
      <4>. QED  BY <1>0, <2>0, <3>1, <3>3, <3>4, <4>1, <4>2 DEF OneClaim
    <3>. QED  BY <3>5, <3>6
  <2>. QED  BY <2>1, <2>2
<1>9. ASSUME NEW a \in Agents, Leaves(a) PROVE OneClaim(b, i)'
  <2>0. \A k \in Handlers : Bound(b, k, i)' <=> Bound(b, k, i)
    BY <1>9 DEF Leaves, handler, Bound, At
  <2>1. (\A v \in Workers : Has(b, v, i)' <=> Has(b, v, i)) /\ taken' = taken
    BY <1>9 DEF Leaves, worker, Has
  <2>2. CASE a # b
    BY <1>0, <1>9, <2>0, <2>1, <2>2, ClaimsKept DEF Leaves, Dequeued
  <2>3. CASE a = b
    <3>1. \A n \in 1 .. Len(queue'[b]) :
             Queued(b, n, i)' => n + 1 \in 1 .. Len(queue[b]) /\ Queued(b, n + 1, i)
      BY <1>9, <2>3, DequeuedClaims DEF Leaves
    <3>2. \A m, n \in 1 .. Len(queue'[b]) : Queued(b, m, i)' /\ Queued(b, n, i)' => m = n
      BY <1>0, <3>1, <2>3, <1>9 DEF OneClaim, Leaves, Dequeued
    <3>3. Pending(b, i)' => Pending(b, i)
      BY <2>1, <3>1 DEF Pending
    <3>. QED  BY <1>0, <2>0, <2>1, <3>1, <3>2, <3>3 DEF OneClaim
  <2>. QED  BY <2>2, <2>3
<1>10. ASSUME NEW a \in Agents, NEW w \in Workers, Answers(a, w) PROVE OneClaim(b, i)'
  <2>0. \A k \in Handlers : Bound(b, k, i)' <=> Bound(b, k, i)
    BY <1>10 DEF Answers, handler, Bound, At
  <2>1. \A n : Queued(b, n, i)' <=> Queued(b, n, i)
    BY <1>10 DEF Answers, Queued
  <2>2. CASE b = a /\ id[wfile[a][w]] = i
    <3>1. Has(b, w, i)
      BY <1>10, <2>2 DEF Answers, Has
    <3>2. /\ taken[i][b] = 0 /\ \A v \in Workers : Has(b, v, i) => v = w
          /\ \A n \in 1 .. Len(queue[b]) : ~Queued(b, n, i)
          /\ \A h \in Handlers : ~Bound(b, h, i)
      BY <1>0, <3>1 DEF OneClaim, Pending
    <3>3. taken'[i][b] = 1
      BY <1>10, <2>2, <3>2 DEF Answers
    <3>4. \A v \in Workers : ~Has(b, v, i)'
      BY <1>10, <2>2, <3>2 DEF Answers, WorkerTo, Has
    <3>5. queue' = queue
      BY <1>10 DEF Answers
    <3>. QED  BY <2>0, <2>1, <3>2, <3>3, <3>4, <3>5 DEF OneClaim
  <2>3. CASE ~(b = a /\ id[wfile[a][w]] = i)
    <3>1. taken'[i][b] = taken[i][b] /\ queue'[b] = queue[b]
      BY <1>10, <2>3 DEF Answers
    <3>2. \A v \in Workers : Has(b, v, i)' => Has(b, v, i)
      BY <1>10, <2>3 DEF Answers, WorkerTo, Has
    <3>. QED  BY <1>0, <2>0, <3>1, <3>2, ClaimsKept
  <2>. QED  BY <2>2, <2>3
<1>11. ASSUME NEW a \in Agents, NEW w \in Workers, Frees(a, w) PROVE OneClaim(b, i)'
  <2>1. \A v \in Workers : Has(b, v, i)' => Has(b, v, i)
    BY <1>11 DEF Frees, WorkerTo, Has
  <2>. QED  BY <1>0, <1>11, <2>1, ClaimsKept DEF Frees, handler, Bound, At
<1>12. ASSUME NEW a \in Agents, Restarts(a) PROVE OneClaim(b, i)'
  <2>1. CASE a = b
    <3>1. taken'[i][b] = 0
      BY <1>12, RestartRaces DEF Restarts, Pending
    <3>2. /\ queue'[b] = <<>> /\ \A h \in Handlers : ~Bound(b, h, i)'
          /\ \A w \in Workers : ~Has(b, w, i)'
      BY <1>12, <2>1 DEF Restarts, Bound, At, Has
    <3>3. \A n \in 1 .. Len(queue'[b]) : ~Queued(b, n, i)'
      BY <3>2 DEF Queued
    <3>. QED  BY <3>1, <3>2, <3>3 DEF OneClaim
  <2>2. CASE a # b
    <3>1. /\ queue'[b] = queue[b] /\ taken' = taken
          /\ \A h \in Handlers : Bound(b, h, i)' => Bound(b, h, i)
          /\ \A w \in Workers : Has(b, w, i)' => Has(b, w, i)
      BY <1>12, <2>2 DEF Restarts, Bound, At, Has
    <3>. QED  BY <1>0, <3>1, ClaimsKept
  <2>. QED  BY <2>1, <2>2
<1>. QED
  BY <1>1, <1>2, <1>3, <1>4, <1>6, <1>7, <1>8, <1>9, <1>10, <1>11, <1>12, Steps

\* At first there is no claim.
LEMMA OnceInit == ASSUME Init PROVE OnceInv
<1>1. \A a \in Agents : queue[a] = <<>> /\ Len(queue[a]) = 0
  BY DEF Init
<1>2. \A a \in Agents, h \in Handlers : hpc[a][h] = "idle"
  BY DEF Init
<1>3. \A a \in Agents, w \in Workers : wpc[a][w] = "free" /\ wfile[a][w] = NoFile
  BY DEF Init
<1>4. \A i \in Ids, a \in Agents : taken[i][a] = 0
  BY DEF Init
<1>5. \A i \in Ids, a \in Agents : ~Pending(a, i) /\ \A h \in Handlers : ~Bound(a, h, i)
  BY <1>1, <1>2, <1>3, <1>4 DEF Pending, Queued, Has, Bound, At
<1>6. Delivery /\ StagedLeft /\ Together
  BY <1>1, <1>2, <1>3, <1>4
     DEF Delivery, HandlersDelivered, QueuesDelivered, WorkersDelivered, AnswersDelivered, StagedLeft,
         Together
<1>7. Flight
  BY DEF Flight, Init
<1>10. Mine
  BY <1>4 DEF Mine
<1>8. Remembered /\ Unclaimed
  BY <1>5 DEF Remembered, Unclaimed
<1>9. Claims
  BY <1>1, <1>3, <1>4, <1>5 DEF Claims, OneClaim, Queued, Has
<1>. QED  BY <1>6, <1>7, <1>8, <1>9, <1>10 DEF OnceInv

\* A message that is not raced is processed once by a loop, and by one loop with a name if it is
\* for one agent.
THEOREM ProcessedOnce == Spec => []OnceUnlessRaced
<1>1. Init => MayInv /\ OnceInv
  BY OnceInit DEF Init, MayInv, HandlersMay, QueuesMay, WorkersMay, PollsMay, RecipientUnlessRescued
<1>2. TypeOK /\ MayInv /\ OnceInv /\ [Next]_vars => MayInv' /\ OnceInv'
  <2>. SUFFICES ASSUME TypeOK, MayInv, OnceInv, [Next]_vars PROVE MayInv' /\ OnceInv'
    OBVIOUS
  <2>0. MayInv'
    BY HandlersMayStep, QueuesMayStep, WorkersMayStep, PollsMayStep, RecipientStep DEF MayInv
  <2>1. Delivery' /\ StagedLeft'
    BY HandlersDeliveredStep, QueuesDeliveredStep, WorkersDeliveredStep, AnswersDeliveredStep,
       StagedLeftStep DEF OnceInv, Delivery
  <2>2. Flight' /\ Together' /\ Mine'
    BY FlightStep, TogetherStep, MineStep DEF OnceInv
  <2>3. Remembered' /\ Unclaimed' /\ Claims'
    BY RememberedStep, UnclaimedStep, ClaimsStep DEF OnceInv
  <2>. QED  BY <2>0, <2>1, <2>2, <2>3 DEF OnceInv
<1>3. TypeOK /\ OnceInv => OnceUnlessRaced
  <2>. SUFFICES ASSUME TypeOK, OnceInv, NEW i \in Ids \ raced
                PROVE  /\ \A a \in Agents : taken[i][a] <= 1
                       /\ to[i] # Everyone => \A a, b \in Agents \ nameless :
                                                 taken[i][a] > 0 /\ taken[i][b] > 0 => a = b
    BY DEF OnceUnlessRaced
  <2>1. \A a \in Agents : taken[i][a] <= 1
    BY DEF OnceInv, Claims, OneClaim
  <2>2. \A a \in Agents : taken[i][a] > 0 => to[i] \in {a, Everyone} \/ a \in nameless
    BY DEF OnceInv, Mine
  <2>. QED  BY <2>1, <2>2
<1>. QED  BY <1>1, <1>2, <1>3, TypeCorrect, PTL DEF Spec
=============================================================================
