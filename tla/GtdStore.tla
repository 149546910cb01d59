------------------------------ MODULE GtdStore ------------------------------
(***************************************************************************)
(* mcp_tools/gtd_tools.py, gtd_journal.py, and the GTD parts of dreaming.py *)
(* and agent_run.py: the unified GTD store.                                 *)
(*                                                                          *)
(* Items are in list files that several processes change under one flock.   *)
(* A transfer saves the destination, then the source, and then appends an   *)
(* event to the process's own journal file, from which the lists can be     *)
(* folded again and a reopened item finds its way home.  Lookups of the     *)
(* agent runner read the files one after the other, without the lock.       *)
(***************************************************************************)
EXTENDS Integers

CONSTANTS Procs, NoProc,   \* processes that change the store
          Sink,            \* those that capture through skos.gtd_ingest
          Readers,         \* agent_run lookups
          Items,
          Archive,         \* GTD_FILES in order: 0 the inbox, Archive the last one
          None, NoJob,
          MaxFaults        \* bound: kills and failed appends

Lists == 0 .. Archive
Live  == 0 .. (Archive - 1)
Inbox == 0
Someday == Archive - 1

Acts == {"capture", "clarify", "move", "done", "reopen"}
Jobs == [act : Acts, item : Items, src : Lists, dst : Lists \cup {None}]

ASSUME GtdAssumption ==
    /\ NoProc \notin Procs /\ Sink \subseteq Procs
    /\ Archive \in Nat /\ Archive > 1
    /\ None \notin Lists /\ NoJob \notin Jobs
    /\ MaxFaults \in Nat

VARIABLES
    exist,     \* the list files that exist
    copies,    \* how many copies of an item a list file holds
    lock,      \* .gtd.lock
    pc, job,   \* the processes
    seeding,   \* the file a process has found missing
    jlist,     \* the journal: where its fold has an item
    jfrom,     \* the journal: the live list of the item's last done or move event
    torn,      \* processes whose journal file ends in an incomplete line
    scan,      \* lookups: idle, scanning or missed
    pos, want, \* the file a lookup reads next, the item it looks for
    known,     \* history: lookups whose item was in the store when they began
    behind,    \* history: lookups whose item was moved to a file already read
    stored,    \* history: items that have been stored
    dreamed,   \* history: items stored without an event
    home,      \* history: the live list from which an item was last archived
    faulty,    \* history: items hit by a kill or a lost event
    overtaken, \* history: items changed between their capture and its event
    raced,     \* history: a file was made anew when it already existed
    faults

store   == <<exist, copies>>
journal == <<jlist, jfrom, torn>>
lookup  == <<scan, pos, want, known, behind>>
history == <<stored, dreamed, home, faulty, overtaken, raced, faults>>
vars == <<store, lock, pc, job, seeding, journal, lookup, history>>

Init ==
    /\ exist \in {{}, Lists}
    /\ copies = [l \in Lists |-> [i \in Items |-> 0]]
    /\ lock = NoProc
    /\ pc = [p \in Procs |-> "idle"] /\ job = [p \in Procs |-> NoJob]
    /\ seeding = [p \in Procs |-> None]
    /\ jlist = [i \in Items |-> None] /\ jfrom = [i \in Items |-> None] /\ torn = {}
    /\ scan = [r \in Readers |-> "idle"] /\ pos = [r \in Readers |-> 0]
    /\ want \in [Readers -> Items]
    /\ known = {} /\ behind = {}
    /\ stored = {} /\ dreamed = {} /\ home = [i \in Items |-> Inbox]
    /\ faulty = {} /\ overtaken = {} /\ raced = FALSE /\ faults = 0

Fault == faults < MaxFaults /\ faults' = faults + 1

InStore(i) == \E l \in Lists : copies[l][i] > 0

\* _find_item_across_lists: the first file that has the item.
FoundIn(i, l) == copies[l][i] > 0 /\ \A k \in Lists : k < l => copies[k][i] = 0

Unused(i) == i \notin stored /\ \A p \in Procs : pc[p] \notin {"idle", "seed"} => job[p].item # i

----------------------------------------------------------------------------
(* _gtd_dir: every access makes the files it finds missing.                *)

SeedLook(p, l) ==
    /\ pc[p] = "idle" /\ l \notin exist
    /\ pc' = [pc EXCEPT ![p] = "seed"]
    /\ seeding' = [seeding EXCEPT ![p] = l]
    /\ UNCHANGED <<store, lock, job, journal, lookup, history>>

\* The empty list is written whether or not the file has come to exist.
SeedWrite(p) ==
    /\ pc[p] = "seed"
    /\ exist' = exist \cup {seeding[p]}
    /\ copies' = [copies EXCEPT ![seeding[p]] = [i \in Items |-> 0]]
    /\ raced' = (raced \/ seeding[p] \in exist)
    /\ pc' = [pc EXCEPT ![p] = "idle"]
    /\ seeding' = [seeding EXCEPT ![p] = None]
    /\ UNCHANGED <<lock, job, journal, lookup, stored, dreamed, home, faulty, overtaken, faults>>

----------------------------------------------------------------------------
(* The handlers, up to the first save.                                     *)

\* The lock is taken and the item looked for.  Without it the handler lets go again.
Begin(p, j) ==
    /\ pc[p] = "idle" /\ exist = Lists /\ lock = NoProc
    /\ lock' = p
    /\ pc' = [pc EXCEPT ![p] = "dest"]
    /\ job' = [job EXCEPT ![p] = j]
    /\ overtaken' = IF \E q \in Procs : pc[q] \in {"read", "late"} /\ job[q].item = j.item
                    THEN overtaken \cup {j.item} ELSE overtaken
    /\ UNCHANGED <<store, seeding, journal, lookup, stored, dreamed, home, faulty, raced, faults>>

\* A capture whose source_ref is in the store already changes nothing.
Capture(p, i) ==
    /\ Unused(i)
    /\ Begin(p, [act |-> "capture", item |-> i, src |-> Inbox, dst |-> Inbox])

Clarify(p, i) ==
    /\ copies[Inbox][i] > 0
    /\ \E d \in Live \ {Inbox} :
          Begin(p, [act |-> "clarify", item |-> i, src |-> Inbox, dst |-> d])

\* Also out of the archive, and to the list the item is in.
MoveItem(p, i) ==
    \E l \in Lists, d \in Lists \ {Inbox} :
        FoundIn(i, l) /\ Begin(p, [act |-> "move", item |-> i, src |-> l, dst |-> d])

Done(p, i) ==
    \E l \in Live :
        FoundIn(i, l) /\ Begin(p, [act |-> "done", item |-> i, src |-> l, dst |-> Archive])

Reopen(p, i) ==
    /\ FoundIn(i, Archive)
    /\ \E d \in Live \ {Inbox} :
          Begin(p, [act |-> "reopen", item |-> i, src |-> Archive, dst |-> d])

\* _prior_list_for.  What is archived has the status done, which names no list.
PriorList(i) == IF jfrom[i] # None THEN jfrom[i] ELSE Inbox

ReopenAtHome(p, i) ==
    /\ FoundIn(i, Archive)
    /\ Begin(p, [act |-> "reopen", item |-> i, src |-> Archive, dst |-> PriorList(i)])

----------------------------------------------------------------------------
(* The two saves.  A seeding process that strikes between the load and the  *)
(* save of a list is undone by the save; that case is left out.            *)

\* The destination first.  skos.gtd_ingest.capture returns and lets go of the lock.
SaveDestination(p) ==
    /\ pc[p] = "dest"
    /\ LET j == job[p] IN
          /\ copies' = [copies EXCEPT ![j.dst][j.item] = @ + 1]
          /\ stored' = stored \cup {j.item}
          /\ pc' = [pc EXCEPT ![p] = IF j.act # "capture" THEN "source"
                                     ELSE IF p \in Sink THEN "read" ELSE "journal"]
          /\ lock' = IF j.act = "capture" /\ p \in Sink THEN NoProc ELSE lock
    /\ UNCHANGED <<exist, job, seeding, journal, lookup, dreamed, home, faulty, overtaken, raced,
                   faults>>

\* The source is saved with so many copies of the item, and the history follows.
SaveSource(p, left) ==
    /\ LET j == job[p] IN
          /\ copies' = [copies EXCEPT ![j.src][j.item] = left]
          /\ home' = IF j.dst = Archive /\ j.src \in Live THEN [home EXCEPT ![j.item] = j.src]
                     ELSE home
          /\ behind' = behind \cup
                {r \in Readers : scan[r] = "scanning" /\ want[r] = j.item /\ pos[r] > j.dst}
    /\ pc' = [pc EXCEPT ![p] = "journal"]
    /\ UNCHANGED <<exist, lock, job, seeding, journal, scan, pos, want, known, stored, dreamed,
                   faulty, overtaken, raced, faults>>

AtSource(p) == copies[job[p].src][job[p].item]

\* Seeded fault: the source is saved without every copy of the item.
RemoveAll(p) == pc[p] = "source" /\ SaveSource(p, 0)

\* Seeded fault: the removal does not look whether the item is there.
RemoveBlindly(p) == pc[p] = "source" /\ SaveSource(p, AtSource(p) - 1)

\* _remove_item_from_list: one copy.
RemoveSource(p) ==
    /\ pc[p] = "source"
    /\ SaveSource(p, IF AtSource(p) > 0 THEN AtSource(p) - 1 ELSE 0)

----------------------------------------------------------------------------
(* The event, gtd_journal.append.                                          *)

\* The process is through; flock lets go of what it held.
End(p) ==
    /\ pc' = [pc EXCEPT ![p] = "idle"]
    /\ job' = [job EXCEPT ![p] = NoJob]
    /\ seeding' = [seeding EXCEPT ![p] = None]
    /\ lock' = IF lock = p THEN NoProc ELSE lock

\* Seeded fault: only done events name the list an item goes back to.
FromOfDone(j) == IF j.act = "done" THEN j.src ELSE jfrom[j.item]

EventFrom(j) == IF j.act \in {"done", "move"} /\ j.src \in Live THEN j.src ELSE jfrom[j.item]

\* Seeded fault: the event names the list the item came from.
EventToSource(j) == j.src

\* Where the fold puts the item; nowhere, if the capture could not read it back.
EventTo(j) == j.dst

\* After an incomplete line the event is on that line, and readers skip both.
Append(p) ==
    /\ pc[p] \in {"journal", "late"}
    /\ LET j == job[p] IN
          IF p \in torn
          THEN /\ torn' = torn \ {p} /\ faulty' = faulty \cup {j.item}
               /\ UNCHANGED <<jlist, jfrom>>
          ELSE /\ jlist' = [jlist EXCEPT ![j.item] = EventTo(j)]
               /\ jfrom' = [jfrom EXCEPT ![j.item] = EventFrom(j)]
               /\ UNCHANGED <<torn, faulty>>
    /\ End(p)
    /\ UNCHANGED <<store, lookup, stored, dreamed, home, overtaken, raced, faults>>

\* _journal: an append that fails is logged, and the handler goes on.
AppendFails(p) ==
    /\ pc[p] \in {"journal", "late"} /\ Fault
    /\ faulty' = faulty \cup {job[p].item}
    /\ End(p)
    /\ UNCHANGED <<store, journal, lookup, stored, dreamed, home, overtaken, raced>>

\* A capture through the sink reads the item back from the inbox, without the lock.
ReadBack(p) ==
    /\ pc[p] = "read"
    /\ pc' = [pc EXCEPT ![p] = "late"]
    /\ job' = [job EXCEPT ![p].dst = IF copies[Inbox][job[p].item] > 0 THEN Inbox ELSE None]
    /\ UNCHANGED <<store, lock, seeding, journal, lookup, history>>

\* A kill; while it appends it may leave part of a line.
Kill(p) ==
    /\ pc[p] # "idle" /\ Fault
    /\ End(p)
    /\ torn' \in {torn} \cup (IF pc[p] \in {"journal", "late"} THEN {torn \cup {p}} ELSE {})
    /\ faulty' = IF pc[p] \in {"source", "journal", "read", "late"}
                 THEN faulty \cup {job[p].item} ELSE faulty
    /\ UNCHANGED <<store, jlist, jfrom, lookup, stored, dreamed, home, overtaken, raced>>

----------------------------------------------------------------------------

\* _capture_to_gtd_someday: under the lock, into a file it makes if need be, without
\* an event.
Dream(i) ==
    /\ lock = NoProc /\ Unused(i)
    /\ copies' = [copies EXCEPT ![Someday][i] = 1]
    /\ exist' = exist \cup {Someday}
    /\ stored' = stored \cup {i} /\ dreamed' = dreamed \cup {i}
    /\ UNCHANGED <<lock, pc, job, seeding, journal, lookup, home, faulty, overtaken, raced, faults>>

\* agent_run._find_gtd_item.
LookupStart(r, i) ==
    /\ scan[r] # "scanning"
    /\ scan' = [scan EXCEPT ![r] = "scanning"]
    /\ pos' = [pos EXCEPT ![r] = 0] /\ want' = [want EXCEPT ![r] = i]
    /\ known' = IF InStore(i) THEN known \cup {r} ELSE known \ {r}
    /\ behind' = behind \ {r}
    /\ UNCHANGED <<store, lock, pc, job, seeding, journal, history>>

\* Seeded fault: the archive is not read.
LookupLive(r) ==
    /\ scan[r] = "scanning" /\ copies[pos[r]][want[r]] = 0
    /\ IF pos[r] < Someday
       THEN pos' = [pos EXCEPT ![r] = @ + 1] /\ UNCHANGED scan
       ELSE scan' = [scan EXCEPT ![r] = "missed"] /\ pos' = [pos EXCEPT ![r] = 0]
    /\ UNCHANGED <<store, lock, pc, job, seeding, journal, want, known, behind, history>>

LookupStep(r) ==
    /\ scan[r] = "scanning" /\ copies[pos[r]][want[r]] = 0
    /\ \/ /\ pos[r] < Archive
          /\ pos' = [pos EXCEPT ![r] = @ + 1] /\ UNCHANGED scan
       \/ /\ pos[r] = Archive
          /\ scan' = [scan EXCEPT ![r] = "missed"] /\ pos' = [pos EXCEPT ![r] = 0]
    /\ UNCHANGED <<store, lock, pc, job, seeding, journal, want, known, behind, history>>

LookupFinds(r) ==
    /\ scan[r] = "scanning" /\ copies[pos[r]][want[r]] > 0
    /\ scan' = [scan EXCEPT ![r] = "idle"] /\ pos' = [pos EXCEPT ![r] = 0]
    /\ known' = known \ {r} /\ behind' = behind \ {r}
    /\ UNCHANGED <<store, lock, pc, job, seeding, journal, want, history>>

Start(p, i) == \/ Capture(p, i) \/ Clarify(p, i) \/ MoveItem(p, i)
               \/ Done(p, i) \/ Reopen(p, i) \/ ReopenAtHome(p, i)

Next ==
    \/ \E p \in Procs :
          \/ \E l \in Lists : SeedLook(p, l)
          \/ \E i \in Items : Start(p, i)
          \/ SeedWrite(p) \/ SaveDestination(p) \/ RemoveSource(p) \/ ReadBack(p)
          \/ Append(p) \/ AppendFails(p) \/ Kill(p)
    \/ \E i \in Items : Dream(i)
    \/ \E r \in Readers : LookupStep(r) \/ LookupFinds(r) \/ \E i \in Items : LookupStart(r, i)

Spec == Init /\ [][Next]_vars

----------------------------------------------------------------------------
(* Properties.                                                             *)

TypeOK ==
    /\ exist \subseteq Lists
    /\ copies \in [Lists -> [Items -> Nat]]
    /\ lock \in Procs \cup {NoProc}
    /\ pc \in [Procs -> {"idle", "seed", "dest", "source", "journal", "read", "late"}]
    /\ job \in [Procs -> Jobs \cup {NoJob}]
    /\ seeding \in [Procs -> Lists \cup {None}]
    /\ jlist \in [Items -> Lists \cup {None}] /\ jfrom \in [Items -> Live \cup {None}]
    /\ torn \subseteq Procs
    /\ scan \in [Readers -> {"idle", "scanning", "missed"}]
    /\ pos \in [Readers -> Lists] /\ want \in [Readers -> Items]
    /\ known \subseteq Readers /\ behind \subseteq Readers
    /\ stored \subseteq Items /\ dreamed \subseteq Items /\ home \in [Items -> Live]
    /\ faulty \subseteq Items /\ overtaken \subseteq Items /\ raced \in BOOLEAN
    /\ faults \in 0 .. MaxFaults

\* Kills, moves onto the own list and concurrent writers duplicate an item at worst:
\* what was stored is in some list, unless two processes made the same file.
NothingLost == ~raced => \A i \in stored : InStore(i)

Busy(i) == \E p \in Procs : pc[p] \notin {"idle", "seed", "dest"} /\ job[p].item = i

\* The fold of the journal is the store: an item is once where its last event put it,
\* unless a fault hit it, it never had an event, or it was changed between its capture
\* through the sink and the event of that capture.
FoldMatchesStore ==
    ~raced =>
        \A i \in stored \ (dreamed \cup faulty \cup overtaken) : ~Busy(i) =>
            \A l \in Lists : copies[l][i] = IF l = jlist[i] THEN 1 ELSE 0

\* An item reopened without a destination goes back to the list from which it was
\* archived, however it got there and whichever process archived it, unless a fault
\* cost an event of it.
ReopenGoesHome ==
    [][\A p \in Procs, i \in Items :
          ReopenAtHome(p, i) /\ i \notin faulty => job'[p].dst = home[i]]_vars

\* A lookup without the lock does not find an item of the store only if the item was
\* moved, while it read, to a file it had read already.
MissesOnlyWhatMovedBehind ==
    ~raced => \A r \in Readers : scan[r] = "missed" /\ r \in known => r \in behind
=============================================================================
