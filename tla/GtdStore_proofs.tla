-------------------------- MODULE GtdStore_proofs --------------------------
(***************************************************************************)
(* Proofs about GtdStore: type correctness, that no stored item is lost,    *)
(* what an unlocked lookup may miss, that the fold of the journal is the    *)
(* store, and that a reopened item goes home, for any number of processes,  *)
(* lists, items, lookups and faults.                                       *)
(***************************************************************************)
EXTENDS GtdStore, TLAPS

USE GtdAssumption

\* A process is changing the store under the lock.
Working(p) == pc[p] \in {"dest", "source", "journal"}

\* A capture through the sink is on its way to its event.
Capturing(p) == pc[p] \in {"read", "late"}

\* What a job looks like where its process is.
Shaped(p) ==
    /\ pc[p] = "seed" => seeding[p] \in Lists
    /\ Working(p) => job[p] \in Jobs /\ job[p].dst \in Lists /\ lock = p
    /\ pc[p] = "source" => job[p].act # "capture"
    /\ Working(p) /\ job[p].dst = Archive => job[p].act \in {"done", "move"}
    /\ pc[p] \in {"dest", "source"} => exist = Lists
    /\ Capturing(p) => job[p] \in Jobs /\ job[p].act = "capture"
    /\ Working(p) /\ job[p].act = "capture" => job[p].dst = Inbox
    /\ pc[p] = "read" => job[p].dst = Inbox

Typed == TypeOK /\ \A p \in Procs : Shaped(p)

----------------------------------------------------------------------------
(* Type correctness.                                                       *)

\* Setting one entry of the table of copies keeps its type.
LEMMA NestedType ==
    ASSUME NEW A, NEW B, NEW C, NEW t \in [A -> [B -> C]], NEW x \in A, NEW y \in B, NEW c \in C
    PROVE  [t EXCEPT ![x][y] = c] \in [A -> [B -> C]]
  OBVIOUS

\* The lists a job may name.
LEMMA ListFacts ==
    /\ Inbox \in Live /\ Someday \in Live /\ Archive \in Lists /\ Archive \notin Live
    /\ Live \subseteq Lists /\ Lists = Live \cup {Archive} /\ None \notin Lists
    /\ Someday < Archive /\ Archive \in Nat
  BY DEF Inbox, Someday, Live, Lists

\* What a process starts under the lock is a job.
LEMMA BeginType ==
    ASSUME Typed, NEW p \in Procs, NEW j \in Jobs, j.dst \in Lists,
           j.dst = Archive => j.act \in {"done", "move"}, j.act = "capture" => j.dst = Inbox,
           Begin(p, j)
    PROVE  Typed'
<1>1. /\ pc' = [pc EXCEPT ![p] = "dest"] /\ job' = [job EXCEPT ![p] = j]
      /\ lock = NoProc /\ lock' = p /\ exist = Lists /\ exist' = exist /\ seeding' = seeding
  BY DEF Begin, store
<1>2. j.item \in Items
  BY DEF Jobs
<1>3. TypeOK'
  <2>1. overtaken' \subseteq Items
    BY <1>2 DEF Begin, Typed, TypeOK
  <2>2. /\ pc' \in [Procs -> {"idle", "seed", "dest", "source", "journal", "read", "late"}]
        /\ job' \in [Procs -> Jobs \cup {NoJob}] /\ lock' \in Procs \cup {NoProc}
    BY <1>1 DEF Typed, TypeOK
  <2>. QED  BY <2>1, <2>2 DEF Begin, Typed, TypeOK, store, journal, lookup
<1>4. ASSUME NEW q \in Procs PROVE Shaped(q)'
  <2>1. CASE q = p
    <3>1. pc'[q] = "dest" /\ job'[q] = j
      BY <1>1, <2>1 DEF Typed, TypeOK
    <3>. QED  BY <3>1, <1>1, <2>1 DEF Shaped, Working, Capturing
  <2>2. CASE q # p
    <3>1. pc'[q] = pc[q] /\ job'[q] = job[q] /\ seeding'[q] = seeding[q] /\ exist' = exist
      BY <1>1, <2>2 DEF Typed, TypeOK
    <3>2. Shaped(q) /\ ~Working(q)
      BY <1>1 DEF Typed, Shaped
    <3>. QED  BY <3>1, <3>2 DEF Shaped, Working, Capturing
  <2>. QED  BY <2>1, <2>2
<1>. QED  BY <1>3, <1>4 DEF Typed

\* A started handler.
LEMMA StartType ==
    ASSUME Typed, NEW p \in Procs, NEW i \in Items, Start(p, i)
    PROVE  \E j \in Jobs : /\ j.item = i /\ j.dst \in Lists
                           /\ j.dst = Archive => j.act \in {"done", "move"}
                           /\ j.act = "capture" => j.dst = Inbox /\ Unused(i)
                           /\ j.act # "capture" => j.src \in Lists /\ copies[j.src][i] > 0
                           /\ Begin(p, j)
<1>. USE ListFacts
<1>1. CASE Capture(p, i)
  <2>. DEFINE j == [act |-> "capture", item |-> i, src |-> Inbox, dst |-> Inbox]
  <2>1. j \in Jobs
    BY DEF Jobs, Acts
  <2>. QED  BY <1>1, <2>1 DEF Capture
<1>2. CASE Clarify(p, i)
  <2>1. PICK d \in Live \ {Inbox} :
            Begin(p, [act |-> "clarify", item |-> i, src |-> Inbox, dst |-> d])
    BY <1>2 DEF Clarify
  <2>. DEFINE j == [act |-> "clarify", item |-> i, src |-> Inbox, dst |-> d]
  <2>2. j \in Jobs
    BY DEF Jobs, Acts
  <2>. QED  BY <1>2, <2>1, <2>2 DEF Clarify
<1>3. CASE MoveItem(p, i)
  <2>1. PICK l \in Lists, d \in Lists \ {Inbox} :
            FoundIn(i, l) /\ Begin(p, [act |-> "move", item |-> i, src |-> l, dst |-> d])
    BY <1>3 DEF MoveItem
  <2>. DEFINE j == [act |-> "move", item |-> i, src |-> l, dst |-> d]
  <2>2. j \in Jobs
    BY DEF Jobs, Acts
  <2>. QED  BY <2>1, <2>2 DEF FoundIn
<1>4. CASE Done(p, i)
  <2>1. PICK l \in Live :
            FoundIn(i, l) /\ Begin(p, [act |-> "done", item |-> i, src |-> l, dst |-> Archive])
    BY <1>4 DEF Done
  <2>. DEFINE j == [act |-> "done", item |-> i, src |-> l, dst |-> Archive]
  <2>2. j \in Jobs
    BY DEF Jobs, Acts
  <2>. QED  BY <2>1, <2>2 DEF FoundIn
<1>5. CASE Reopen(p, i) \/ ReopenAtHome(p, i)
  <2>1. PriorList(i) \in Live
    BY DEF PriorList, Typed, TypeOK
  <2>2. PICK d \in Live :
            FoundIn(i, Archive) /\ Begin(p, [act |-> "reopen", item |-> i, src |-> Archive, dst |-> d])
    BY <1>5, <2>1 DEF Reopen, ReopenAtHome
  <2>. DEFINE j == [act |-> "reopen", item |-> i, src |-> Archive, dst |-> d]
  <2>3. j \in Jobs
    BY DEF Jobs, Acts
  <2>. QED  BY <2>2, <2>3 DEF FoundIn
<1>. QED  BY <1>1, <1>2, <1>3, <1>4, <1>5 DEF Start

\* How the copies change, action by action.
LEMMA Saved ==
    ASSUME Typed, NEW p \in Procs, SaveDestination(p)
    PROVE  /\ copies' \in [Lists -> [Items -> Nat]]
           /\ \A l \in Lists, i \in Items :
                 copies'[l][i] = IF l = job[p].dst /\ i = job[p].item THEN copies[l][i] + 1
                                 ELSE copies[l][i]
<1>1. /\ copies \in [Lists -> [Items -> Nat]] /\ job[p].dst \in Lists /\ job[p].item \in Items
      /\ copies' = [copies EXCEPT ![job[p].dst][job[p].item] = copies[job[p].dst][job[p].item] + 1]
  BY DEF Typed, TypeOK, Shaped, Working, SaveDestination, Jobs
<1>2. copies[job[p].dst][job[p].item] + 1 \in Nat
  BY <1>1
<1>3. copies' \in [Lists -> [Items -> Nat]]
  BY <1>1, <1>2, NestedType
<1>. QED  BY <1>1, <1>3

LEMMA Removed ==
    ASSUME Typed, NEW p \in Procs, RemoveSource(p)
    PROVE  /\ copies' \in [Lists -> [Items -> Nat]]
           /\ \A l \in Lists, i \in Items :
                 copies'[l][i] = IF l = job[p].src /\ i = job[p].item /\ copies[l][i] > 0
                                 THEN copies[l][i] - 1 ELSE copies[l][i]
<1>. DEFINE n == IF AtSource(p) > 0 THEN AtSource(p) - 1 ELSE 0
<1>1. /\ copies \in [Lists -> [Items -> Nat]] /\ job[p].src \in Lists /\ job[p].item \in Items
  BY DEF Typed, TypeOK, Shaped, Working, RemoveSource, Jobs
<1>2. copies' = [copies EXCEPT ![job[p].src][job[p].item] = n]
  BY DEF RemoveSource, SaveSource
<1>3. n \in Nat
  BY <1>1 DEF AtSource
<1>4. copies' \in [Lists -> [Items -> Nat]]
  BY <1>1, <1>2, <1>3, NestedType
<1>. QED  BY <1>1, <1>2, <1>4 DEF AtSource

LEMMA Seeded ==
    ASSUME Typed, NEW p \in Procs, SeedWrite(p)
    PROVE  /\ copies' \in [Lists -> [Items -> Nat]]
           /\ \A l \in Lists, i \in Items :
                 copies'[l][i] = IF l = seeding[p] THEN 0 ELSE copies[l][i]
  BY DEF Typed, TypeOK, Shaped, SeedWrite

LEMMA Dreamt ==
    ASSUME Typed, NEW i \in Items, Dream(i)
    PROVE  /\ copies' \in [Lists -> [Items -> Nat]]
           /\ \A l \in Lists, k \in Items :
                 copies'[l][k] = IF l = Someday /\ k = i THEN 1 ELSE copies[l][k]
<1>1. copies \in [Lists -> [Items -> Nat]] /\ Someday \in Lists
  BY ListFacts DEF Typed, TypeOK
<1>2. copies' = [copies EXCEPT ![Someday][i] = 1]
  BY DEF Dream
<1>3. copies' \in [Lists -> [Items -> Nat]]
  BY <1>1, <1>2, NestedType
<1>. QED  BY <1>1, <1>2, <1>3

\* What a step of one process leaves to the others.
OneStep(p) == \/ \E l \in Lists : SeedLook(p, l)
              \/ SeedWrite(p) \/ SaveDestination(p) \/ RemoveSource(p) \/ ReadBack(p)
              \/ Append(p) \/ AppendFails(p) \/ Kill(p)

LEMMA OthersKeep ==
    ASSUME Typed, NEW p \in Procs, OneStep(p), NEW q \in Procs, q # p
    PROVE  pc'[q] = pc[q] /\ job'[q] = job[q] /\ seeding'[q] = seeding[q]
<1>1. /\ pc \in [Procs -> {"idle", "seed", "dest", "source", "journal", "read", "late"}]
      /\ job \in [Procs -> Jobs \cup {NoJob}] /\ seeding \in [Procs -> Lists \cup {None}]
  BY DEF Typed, TypeOK
<1>. QED  BY <1>1 DEF OneStep, SeedLook, SeedWrite, SaveDestination, RemoveSource, SaveSource,
                      ReadBack, Append, AppendFails, Kill, End

\* The steps of a process that has begun.
LEMMA OneStepType ==
    ASSUME Typed, NEW p \in Procs, OneStep(p)
    PROVE  Typed'
<1>. USE ListFacts DEF store, journal, lookup, history
<1>0. /\ pc \in [Procs -> {"idle", "seed", "dest", "source", "journal", "read", "late"}]
      /\ job \in [Procs -> Jobs \cup {NoJob}] /\ seeding \in [Procs -> Lists \cup {None}]
      /\ Shaped(p)
  BY DEF Typed, TypeOK
<1>1. SUFFICES TypeOK' /\ Shaped(p)' /\ (\A q \in Procs : q # p => (lock # q => lock' # q))
                      /\ (\A q \in Procs : q # p => (lock = q => lock' = q))
                      /\ (exist = Lists => exist' = Lists)
  <2>1. ASSUME NEW q \in Procs, q # p PROVE Shaped(q)'
    <3>1. Shaped(q) /\ pc'[q] = pc[q] /\ job'[q] = job[q] /\ seeding'[q] = seeding[q]
      BY <2>1, OthersKeep DEF Typed
    <3>. QED  BY <1>1, <2>1, <3>1 DEF Shaped, Working, Capturing
  <2>. QED  BY <1>1, <2>1 DEF Typed
<1>2. ASSUME NEW l \in Lists, SeedLook(p, l)
      PROVE  TypeOK' /\ Shaped(p)' /\ lock' = lock /\ exist' = exist
  <2>1. pc'[p] = "seed" /\ seeding'[p] = l
    BY <1>2, <1>0 DEF SeedLook
  <2>. QED  BY <1>2, <2>1 DEF SeedLook, Typed, TypeOK, Shaped, Working, Capturing
<1>3. ASSUME SeedWrite(p)
      PROVE  TypeOK' /\ Shaped(p)' /\ lock' = lock /\ (exist = Lists => exist' = Lists)
  <2>1. pc'[p] = "idle" /\ seeding[p] \in Lists
    BY <1>3, <1>0 DEF SeedWrite, Shaped
  <2>2. TypeOK'
    BY <1>3, <2>1, Seeded DEF SeedWrite, Typed, TypeOK
  <2>. QED  BY <1>3, <2>1, <2>2 DEF SeedWrite, Shaped, Working, Capturing
<1>4. ASSUME SaveDestination(p)
      PROVE  /\ TypeOK' /\ Shaped(p)' /\ exist' = exist
             /\ lock = p /\ lock' \in {NoProc, p}
  <2>1. /\ lock = p /\ job[p] \in Jobs /\ job[p].dst \in Lists /\ job[p].item \in Items
        /\ exist = Lists
    BY <1>4, <1>0 DEF SaveDestination, Shaped, Working, Jobs
  <2>2. pc' \in [Procs -> {"idle", "seed", "dest", "source", "journal", "read", "late"}]
    BY <1>4, <1>0 DEF SaveDestination
  <2>3. lock' \in Procs \cup {NoProc} /\ stored' \subseteq Items
    BY <1>4, <2>1 DEF SaveDestination, Typed, TypeOK
  <2>4. TypeOK'
    BY <1>4, <2>2, <2>3, Saved DEF SaveDestination, Typed, TypeOK
  <2>5. CASE job[p].act # "capture"
    <3>1. pc'[p] = "source" /\ lock' = p /\ job' = job /\ exist' = exist
      BY <1>4, <1>0, <2>1, <2>5 DEF SaveDestination
    <3>. QED  BY <1>4, <1>0, <2>1, <2>4, <2>5, <3>1 DEF SaveDestination, Shaped, Working, Capturing
  <2>6. CASE job[p].act = "capture"
    <3>1. /\ pc'[p] = IF p \in Sink THEN "read" ELSE "journal"
          /\ lock' = IF p \in Sink THEN NoProc ELSE p
          /\ job' = job /\ exist' = exist
      BY <1>4, <1>0, <2>1, <2>6 DEF SaveDestination
    <3>. QED  BY <1>4, <1>0, <2>1, <2>4, <2>6, <3>1 DEF SaveDestination, Shaped, Working, Capturing
  <2>. QED  BY <2>5, <2>6
<1>5. ASSUME RemoveSource(p)
      PROVE  TypeOK' /\ Shaped(p)' /\ lock' = lock /\ exist' = exist
  <2>1. job[p] \in Jobs /\ job[p].item \in Items /\ pc'[p] = "journal" /\ job' = job
    BY <1>5, <1>0 DEF RemoveSource, SaveSource, Shaped, Working, Jobs
  <2>2. home' \in [Items -> Live]
    BY <1>5, <2>1 DEF RemoveSource, SaveSource, Typed, TypeOK
  <2>3. pc' \in [Procs -> {"idle", "seed", "dest", "source", "journal", "read", "late"}]
    BY <1>5, <1>0 DEF RemoveSource, SaveSource
  <2>4. behind' \subseteq Readers
    BY <1>5 DEF RemoveSource, SaveSource, Typed, TypeOK
  <2>5. TypeOK'
    BY <1>5, <2>2, <2>3, <2>4, Removed DEF RemoveSource, SaveSource, Typed, TypeOK
  <2>. QED  BY <1>5, <1>0, <2>1, <2>5 DEF RemoveSource, SaveSource, Shaped, Working, Capturing
<1>6. ASSUME ReadBack(p)
      PROVE  TypeOK' /\ Shaped(p)' /\ lock' = lock /\ exist' = exist
  <2>1. job[p] \in Jobs /\ job[p].act = "capture"
    BY <1>6, <1>0 DEF ReadBack, Shaped, Capturing
  <2>2. PICK d \in {Inbox, None} : job' = [job EXCEPT ![p] = [job[p] EXCEPT !.dst = d]]
    BY <1>6, <1>0 DEF ReadBack
  <2>3. [job[p] EXCEPT !.dst = d] \in Jobs /\ [job[p] EXCEPT !.dst = d].act = "capture"
    BY <2>1, <2>2 DEF Jobs, Acts
  <2>4. job' \in [Procs -> Jobs \cup {NoJob}] /\ job'[p] \in Jobs /\ job'[p].act = "capture"
    BY <1>0, <2>2, <2>3
  <2>5. pc'[p] = "late"
        /\ pc' \in [Procs -> {"idle", "seed", "dest", "source", "journal", "read", "late"}]
    BY <1>6, <1>0 DEF ReadBack
  <2>6. TypeOK'
    BY <1>6, <2>4, <2>5 DEF ReadBack, Typed, TypeOK
  <2>. QED  BY <1>6, <2>4, <2>5, <2>6 DEF ReadBack, Shaped, Working, Capturing
<1>7. ASSUME End(p), exist' = exist
      PROVE  /\ pc' \in [Procs -> {"idle", "seed", "dest", "source", "journal", "read", "late"}]
             /\ job' \in [Procs -> Jobs \cup {NoJob}] /\ seeding' \in [Procs -> Lists \cup {None}]
             /\ lock' \in Procs \cup {NoProc} /\ Shaped(p)'
             /\ lock' = IF lock = p THEN NoProc ELSE lock
  BY <1>7, <1>0 DEF End, Typed, TypeOK, Shaped, Working, Capturing
<1>8. ASSUME Append(p)
      PROVE  TypeOK' /\ Shaped(p)' /\ lock' = (IF lock = p THEN NoProc ELSE lock) /\ exist' = exist
  <2>1. job[p] \in Jobs /\ job[p].item \in Items /\ job[p].dst \in Lists \cup {None}
    BY <1>8, <1>0 DEF Append, Shaped, Working, Capturing, Jobs
  <2>2. EventTo(job[p]) \in Lists \cup {None} /\ EventFrom(job[p]) \in Live \cup {None}
    BY <2>1 DEF EventTo, EventFrom, Typed, TypeOK
  <2>3. /\ jlist' \in [Items -> Lists \cup {None}] /\ jfrom' \in [Items -> Live \cup {None}]
        /\ torn' \subseteq Procs /\ faulty' \subseteq Items
    BY <1>8, <2>1, <2>2 DEF Append, Typed, TypeOK
  <2>. QED  BY <1>8, <1>7, <2>3 DEF Append, Typed, TypeOK
<1>9. ASSUME AppendFails(p)
      PROVE  TypeOK' /\ Shaped(p)' /\ lock' = (IF lock = p THEN NoProc ELSE lock) /\ exist' = exist
  <2>1. job[p].item \in Items
    BY <1>9, <1>0 DEF AppendFails, Shaped, Working, Capturing, Jobs
  <2>2. faults' \in 0 .. MaxFaults
    BY <1>9 DEF AppendFails, Fault, Typed, TypeOK
  <2>. QED  BY <1>9, <1>7, <2>1, <2>2 DEF AppendFails, Typed, TypeOK
<1>10. ASSUME Kill(p)
       PROVE  TypeOK' /\ Shaped(p)' /\ lock' = (IF lock = p THEN NoProc ELSE lock) /\ exist' = exist
  <2>1. pc[p] \in {"source", "journal", "read", "late"} => job[p].item \in Items
    BY <1>0 DEF Shaped, Working, Capturing, Jobs
  <2>2. faults' \in 0 .. MaxFaults
    BY <1>10 DEF Kill, Fault, Typed, TypeOK
  <2>3. torn' \subseteq Procs /\ faulty' \subseteq Items
    BY <1>10, <2>1 DEF Kill, Typed, TypeOK
  <2>. QED  BY <1>10, <1>7, <2>2, <2>3 DEF Kill, Typed, TypeOK
<1>. QED  BY <1>2, <1>3, <1>4, <1>5, <1>6, <1>8, <1>9, <1>10 DEF OneStep

LEMMA DreamType ==
    ASSUME Typed, NEW i \in Items, Dream(i)
    PROVE  Typed'
<1>. USE ListFacts
<1>1. TypeOK'
  BY Dreamt DEF Dream, Typed, TypeOK, store, journal, lookup
<1>2. \A q \in Procs : Shaped(q)'
  BY DEF Dream, Typed, Shaped, Working, Capturing
<1>. QED  BY <1>1, <1>2 DEF Typed

Looks(r) == LookupStep(r) \/ LookupFinds(r) \/ \E i \in Items : LookupStart(r, i)

LEMMA LooksType ==
    ASSUME Typed, NEW r \in Readers, Looks(r)
    PROVE  Typed'
<1>0. /\ scan \in [Readers -> {"idle", "scanning", "missed"}] /\ pos \in [Readers -> Lists]
      /\ want \in [Readers -> Items] /\ 0 \in Lists
  BY DEF Typed, TypeOK, Lists
<1>1. /\ scan' \in [Readers -> {"idle", "scanning", "missed"}] /\ pos' \in [Readers -> Lists]
      /\ want' \in [Readers -> Items] /\ known' \subseteq Readers /\ behind' \subseteq Readers
  <2>1. CASE LookupStep(r)
    <3>1. pos[r] < Archive => pos[r] + 1 \in Lists
      BY <1>0 DEF Lists
    <3>2. scan' \in [Readers -> {"idle", "scanning", "missed"}]
      BY <2>1, <1>0 DEF LookupStep
    <3>3. pos' \in [Readers -> Lists]
      BY <2>1, <1>0, <3>1 DEF LookupStep
    <3>. QED  BY <2>1, <3>2, <3>3 DEF LookupStep, Typed, TypeOK
  <2>2. CASE LookupFinds(r)
    BY <2>2, <1>0 DEF LookupFinds, Typed, TypeOK
  <2>3. ASSUME NEW i \in Items, LookupStart(r, i)
        PROVE  /\ scan' \in [Readers -> {"idle", "scanning", "missed"}]
               /\ pos' \in [Readers -> Lists] /\ want' \in [Readers -> Items]
               /\ known' \subseteq Readers /\ behind' \subseteq Readers
    BY <2>3, <1>0 DEF LookupStart, Typed, TypeOK
  <2>. QED  BY <2>1, <2>2, <2>3 DEF Looks
<1>2. UNCHANGED <<store, lock, pc, job, seeding, journal, history>>
  BY DEF Looks, LookupStep, LookupFinds, LookupStart
<1>3. TypeOK'
  BY <1>1, <1>2 DEF Typed, TypeOK, store, journal, history
<1>4. \A q \in Procs : Shaped(q)'
  BY <1>2 DEF Typed, Shaped, Working, Capturing, store
<1>. QED  BY <1>3, <1>4 DEF Typed

\* A step is of one of four kinds.
LEMMA StepKinds ==
    ASSUME [Next]_vars
    PROVE  \/ \E p \in Procs, i \in Items : Start(p, i)
           \/ \E p \in Procs : OneStep(p)
           \/ \E i \in Items : Dream(i)
           \/ \E r \in Readers : Looks(r)
           \/ UNCHANGED vars
  BY DEF Next, OneStep, Looks

LEMMA TypedStep == Typed /\ [Next]_vars => Typed'
<1>. SUFFICES ASSUME Typed, [Next]_vars PROVE Typed'
  OBVIOUS
<1>1. ASSUME NEW p \in Procs, NEW i \in Items, Start(p, i) PROVE Typed'
  BY <1>1, StartType, BeginType
<1>2. ASSUME UNCHANGED vars PROVE Typed'
  BY <1>2 DEF Typed, TypeOK, Shaped, Working, Capturing, vars, store, journal, lookup, history
<1>. QED  BY <1>1, <1>2, StepKinds, OneStepType, DreamType, LooksType

LEMMA TypedInit == Init => Typed
<1>. SUFFICES ASSUME Init PROVE Typed
  OBVIOUS
<1>1. /\ copies \in [Lists -> [Items -> Nat]] /\ exist \subseteq Lists
      /\ 0 \in Lists /\ 0 \in 0 .. MaxFaults
  BY DEF Init, Lists
<1>2. TypeOK
  <2>1. jlist \in [Items -> Lists \cup {None}] /\ jfrom \in [Items -> Live \cup {None}]
    BY DEF Init
  <2>2. home \in [Items -> Live] /\ pos \in [Readers -> Lists] /\ want \in [Readers -> Items]
    BY <1>1, ListFacts DEF Init
  <2>3. pc \in [Procs -> {"idle", "seed", "dest", "source", "journal", "read", "late"}]
    BY DEF Init
  <2>4. /\ job \in [Procs -> Jobs \cup {NoJob}] /\ seeding \in [Procs -> Lists \cup {None}]
        /\ scan \in [Readers -> {"idle", "scanning", "missed"}]
    BY DEF Init
  <2>. QED  BY <1>1, <2>1, <2>2, <2>3, <2>4 DEF Init, TypeOK
<1>3. \A p \in Procs : Shaped(p)
  BY DEF Init, Shaped, Working, Capturing
<1>. QED  BY <1>2, <1>3 DEF Typed

LEMMA AlwaysTyped == Spec => []Typed
  BY TypedInit, TypedStep, PTL DEF Spec

\* Type correctness: the lists never hold fewer than no copy, a job names lists that
\* exist, and faults keep their bound.
THEOREM TypeCorrect == Spec => []TypeOK
<1>1. Typed => TypeOK
  BY DEF Typed
<1>. QED  BY <1>1, AlwaysTyped, PTL

----------------------------------------------------------------------------
(* Nothing is lost.  Between the two saves of a transfer the destination    *)
(* holds the item, twice if it is the source as well.                      *)

Kept(p) ==
    /\ pc[p] = "dest" /\ job[p].act # "capture" =>
          job[p].src \in Lists /\ copies[job[p].src][job[p].item] > 0
    /\ pc[p] = "source" =>
          copies[job[p].dst][job[p].item] > (IF job[p].src = job[p].dst THEN 1 ELSE 0)

\* A file that does not exist holds nothing.
Empty(l) == \A i \in Items : copies[l][i] = 0

KeptInv ==
    ~raced => /\ \A i \in stored : InStore(i)
              /\ \A l \in Lists \ exist : Empty(l)
              /\ \A p \in Procs : Kept(p)

\* A lookup that may not miss has the item before it.
Ahead(r) ==
    /\ scan[r] # "missed"
    /\ scan[r] = "scanning" => \E l \in Lists : l >= pos[r] /\ copies[l][want[r]] > 0

AheadInv == ~raced => \A r \in known \ behind : Ahead(r)

LEMMA RacedStays ==
    ASSUME [Next]_vars
    PROVE  raced => raced'
<1>1. ASSUME NEW p \in Procs, NEW i \in Items, Start(p, i) PROVE raced' = raced
  BY <1>1 DEF Start, Capture, Clarify, MoveItem, Done, Reopen, ReopenAtHome, Begin
<1>2. ASSUME NEW p \in Procs, OneStep(p) PROVE raced => raced'
  BY <1>2 DEF OneStep, SeedLook, SeedWrite, SaveDestination, RemoveSource, SaveSource, ReadBack,
              Append, AppendFails, Kill, history
<1>3. ASSUME NEW i \in Items, Dream(i) PROVE raced' = raced
  BY <1>3 DEF Dream
<1>4. ASSUME NEW r \in Readers, Looks(r) PROVE raced' = raced
  BY <1>4 DEF Looks, LookupStep, LookupFinds, LookupStart, history
<1>. QED  BY <1>1, <1>2, <1>3, <1>4, StepKinds DEF vars, history

\* The steps that leave the lists alone, or do as long as nothing races.
Idles(p) == \/ \E l \in Lists : SeedLook(p, l)
            \/ SeedWrite(p) \/ ReadBack(p) \/ Append(p) \/ AppendFails(p) \/ Kill(p)

LEMMA IdleFacts ==
    ASSUME Typed, KeptInv, NEW p \in Procs, Idles(p), ~raced, ~raced'
    PROVE  /\ \A l \in Lists, i \in Items : copies'[l][i] = copies[l][i]
           /\ exist \subseteq exist' /\ stored' = stored /\ lookup' = lookup
           /\ pc'[p] \notin {"dest", "source"}
<1>0. pc \in [Procs -> {"idle", "seed", "dest", "source", "journal", "read", "late"}]
  BY DEF Typed, TypeOK
<1>1. CASE SeedWrite(p)
  <2>1. seeding[p] \in Lists \ exist
    BY <1>1 DEF SeedWrite, Typed, Shaped
  <2>2. Empty(seeding[p])
    BY <2>1 DEF KeptInv
  <2>. QED  BY <1>1, <1>0, <2>1, <2>2, Seeded DEF SeedWrite, Empty
<1>2. CASE ~SeedWrite(p)
  BY <1>2, <1>0 DEF Idles, SeedLook, ReadBack, Append, AppendFails, Kill, End, store, history
<1>. QED  BY <1>1, <1>2

LEMMA KeptStep ==
    ASSUME Typed, KeptInv, [Next]_vars
    PROVE  KeptInv'
<1>. SUFFICES ASSUME ~raced, ~raced'
              PROVE  /\ \A i \in stored' : InStore(i)'
                     /\ \A l \in Lists \ exist' : Empty(l)'
                     /\ \A p \in Procs : Kept(p)'
  BY RacedStays DEF KeptInv
<1>0. /\ pc \in [Procs -> {"idle", "seed", "dest", "source", "journal", "read", "late"}]
      /\ job \in [Procs -> Jobs \cup {NoJob}] /\ copies \in [Lists -> [Items -> Nat]]
      /\ stored \subseteq Items /\ \A p \in Procs : Shaped(p)
  BY DEF Typed, TypeOK
<1>i. /\ \A i \in stored : InStore(i)
      /\ \A l \in Lists \ exist : Empty(l)
      /\ \A p \in Procs : Kept(p)
  BY DEF KeptInv
<1>1. ASSUME NEW p \in Procs, NEW i \in Items, Start(p, i)
      PROVE  /\ \A k \in stored' : InStore(k)'
             /\ \A l \in Lists \ exist' : Empty(l)'
             /\ \A q \in Procs : Kept(q)'
  <2>1. PICK j \in Jobs : /\ j.item = i
                          /\ j.act # "capture" => j.src \in Lists /\ copies[j.src][i] > 0
                          /\ Begin(p, j)
    BY <1>1, StartType
  <2>2. /\ copies' = copies /\ exist' = exist /\ stored' = stored
        /\ pc' = [pc EXCEPT ![p] = "dest"] /\ job' = [job EXCEPT ![p] = j]
    BY <2>1 DEF Begin, store
  <2>3. ASSUME NEW q \in Procs PROVE Kept(q)'
    <3>1. CASE q = p
      <4>1. pc'[q] = "dest" /\ job'[q] = j
        BY <3>1, <2>2, <1>0
      <4>. QED  BY <4>1, <2>1, <2>2 DEF Kept
    <3>2. CASE q # p
      BY <3>2, <2>2, <1>0, <1>i DEF Kept
    <3>. QED  BY <3>1, <3>2
  <2>. QED  BY <2>2, <2>3, <1>i DEF InStore, Empty
<1>2. ASSUME NEW p \in Procs, Idles(p)
      PROVE  /\ \A i \in stored' : InStore(i)'
             /\ \A l \in Lists \ exist' : Empty(l)'
             /\ \A q \in Procs : Kept(q)'
  <2>1. /\ \A l \in Lists, i \in Items : copies'[l][i] = copies[l][i]
        /\ exist \subseteq exist' /\ stored' = stored /\ pc'[p] \notin {"dest", "source"}
    BY <1>2, IdleFacts
  <2>2. ASSUME NEW q \in Procs PROVE Kept(q)'
    <3>1. CASE q = p
      BY <3>1, <2>1 DEF Kept
    <3>2. CASE q # p
      <4>1. pc'[q] = pc[q] /\ job'[q] = job[q]
        BY <1>2, <3>2, OthersKeep DEF Idles, OneStep
      <4>2. pc[q] \in {"dest", "source"} => job[q].item \in Items /\ job[q].dst \in Lists
        BY <1>0 DEF Shaped, Working, Jobs
      <4>. QED  BY <4>1, <4>2, <2>1, <1>i DEF Kept
    <3>. QED  BY <3>1, <3>2
  <2>3. \A i \in stored' : InStore(i)'
    BY <2>1, <1>0, <1>i DEF InStore
  <2>. QED  BY <2>1, <2>2, <2>3, <1>i DEF Empty
<1>3. ASSUME NEW p \in Procs, SaveDestination(p)
      PROVE  /\ \A i \in stored' : InStore(i)'
             /\ \A l \in Lists \ exist' : Empty(l)'
             /\ \A q \in Procs : Kept(q)'
  <2>0. /\ pc[p] = "dest" /\ lock = p /\ job[p].item \in Items /\ job[p].dst \in Lists
        /\ exist = Lists /\ exist' = exist /\ job' = job /\ stored' = stored \cup {job[p].item}
        /\ pc'[p] = "source" => job[p].act # "capture"
        /\ pc'[p] # "dest"
    BY <1>3, <1>0 DEF SaveDestination, Shaped, Working, Jobs
  <2>1. \A l \in Lists, i \in Items :
           copies'[l][i] = IF l = job[p].dst /\ i = job[p].item THEN copies[l][i] + 1
                           ELSE copies[l][i]
    BY <1>3, Saved
  <2>2. ASSUME NEW i \in stored' PROVE InStore(i)'
    <3>1. CASE i = job[p].item
      BY <3>1, <2>0, <2>1, <1>0 DEF InStore
    <3>2. CASE i # job[p].item
      BY <3>2, <2>0, <2>1, <1>0, <1>i DEF InStore
    <3>. QED  BY <3>1, <3>2
  <2>3. ASSUME NEW q \in Procs PROVE Kept(q)'
    <3>1. CASE q = p
      BY <3>1, <2>0, <2>1, <1>0, <1>i DEF Kept
    <3>2. CASE q # p
      <4>1. pc'[q] = pc[q] /\ pc[q] \notin {"dest", "source"}
        BY <3>2, <2>0, <1>0, <1>3, OthersKeep DEF OneStep, Shaped, Working
      <4>. QED  BY <4>1 DEF Kept
    <3>. QED  BY <3>1, <3>2
  <2>. QED  BY <2>0, <2>2, <2>3
<1>4. ASSUME NEW p \in Procs, RemoveSource(p)
      PROVE  /\ \A i \in stored' : InStore(i)'
             /\ \A l \in Lists \ exist' : Empty(l)'
             /\ \A q \in Procs : Kept(q)'
  <2>0. /\ pc[p] = "source" /\ lock = p /\ job[p].item \in Items /\ job[p].dst \in Lists
        /\ exist = Lists /\ exist' = exist /\ stored' = stored /\ pc'[p] = "journal"
    BY <1>4, <1>0 DEF RemoveSource, SaveSource, Shaped, Working, Jobs
  <2>1. \A l \in Lists, i \in Items :
           copies'[l][i] = IF l = job[p].src /\ i = job[p].item /\ copies[l][i] > 0
                           THEN copies[l][i] - 1 ELSE copies[l][i]
    BY <1>4, Removed
  <2>2. ASSUME NEW i \in stored' PROVE InStore(i)'
    <3>1. CASE i = job[p].item
      <4>1. copies[job[p].dst][i] > (IF job[p].src = job[p].dst THEN 1 ELSE 0)
        BY <3>1, <2>0, <1>i DEF Kept
      <4>2. copies'[job[p].dst][i] > 0
        BY <3>1, <4>1, <2>0, <2>1, <1>0
      <4>. QED  BY <4>2, <2>0 DEF InStore
    <3>2. CASE i # job[p].item
      BY <3>2, <2>0, <2>1, <1>0, <1>i DEF InStore
    <3>. QED  BY <3>1, <3>2
  <2>3. ASSUME NEW q \in Procs PROVE Kept(q)'
    <3>1. CASE q = p
      BY <3>1, <2>0 DEF Kept
    <3>2. CASE q # p
      <4>1. pc'[q] = pc[q] /\ pc[q] \notin {"dest", "source"}
        BY <3>2, <2>0, <1>0, <1>4, OthersKeep DEF OneStep, Shaped, Working
      <4>. QED  BY <4>1 DEF Kept
    <3>. QED  BY <3>1, <3>2
  <2>. QED  BY <2>0, <2>2, <2>3
<1>5. ASSUME NEW i \in Items, Dream(i)
      PROVE  /\ \A k \in stored' : InStore(k)'
             /\ \A l \in Lists \ exist' : Empty(l)'
             /\ \A q \in Procs : Kept(q)'
  <2>0. /\ lock = NoProc /\ stored' = stored \cup {i} /\ exist' = exist \cup {Someday}
        /\ pc' = pc /\ job' = job
    BY <1>5 DEF Dream
  <2>1. \A l \in Lists, k \in Items :
           copies'[l][k] = IF l = Someday /\ k = i THEN 1 ELSE copies[l][k]
    BY <1>5, Dreamt
  <2>2. ASSUME NEW k \in stored' PROVE InStore(k)'
    <3>1. CASE k = i
      BY <3>1, <2>1, ListFacts DEF InStore
    <3>2. CASE k # i
      BY <3>2, <2>0, <2>1, <1>0, <1>i DEF InStore
    <3>. QED  BY <3>1, <3>2
  <2>3. \A q \in Procs : pc[q] \notin {"dest", "source"}
    BY <2>0, <1>0 DEF Shaped, Working
  <2>. QED  BY <2>0, <2>1, <2>2, <2>3, <1>i DEF Kept, Empty
<1>6. CASE UNCHANGED <<copies, exist, stored, pc, job>>
  BY <1>6, <1>i DEF InStore, Empty, Kept
<1>7. ASSUME NEW r \in Readers, Looks(r) PROVE UNCHANGED <<copies, exist, stored, pc, job>>
  BY <1>7 DEF Looks, LookupStep, LookupFinds, LookupStart, store, history
<1>8. UNCHANGED vars => UNCHANGED <<copies, exist, stored, pc, job>>
  BY DEF vars, store, history
<1>9. ASSUME NEW p \in Procs, OneStep(p) PROVE Idles(p) \/ SaveDestination(p) \/ RemoveSource(p)
  BY <1>9 DEF OneStep, Idles
<1>. QED  BY <1>1, <1>2, <1>3, <1>4, <1>5, <1>6, <1>7, <1>8, <1>9, StepKinds

LEMMA AlwaysKept == Spec => []KeptInv
<1>1. Init => KeptInv
  BY DEF Init, KeptInv, Empty, Kept
<1>2. Typed /\ KeptInv /\ [Next]_vars => KeptInv'
  BY KeptStep
<1>. QED  BY <1>1, <1>2, AlwaysTyped, PTL DEF Spec

\* What was stored stays in some list, unless two processes make one file.
THEOREM ItemsKept == Spec => []NothingLost
<1>1. KeptInv => NothingLost
  BY DEF KeptInv, NothingLost
<1>. QED  BY <1>1, AlwaysKept, PTL

----------------------------------------------------------------------------
(* Lookups.                                                                *)

\* A step of another kind that takes no copy away from where a lookup has yet to read.
LEMMA AheadKept ==
    ASSUME Typed, NEW r \in Readers, Ahead(r),
           scan'[r] = scan[r], pos'[r] = pos[r], want'[r] = want[r],
           \A l \in Lists : copies[l][want[r]] > 0 => copies'[l][want[r]] > 0
    PROVE  Ahead(r)'
  BY DEF Ahead, Typed, TypeOK

LEMMA AheadStep ==
    ASSUME Typed, KeptInv, AheadInv, [Next]_vars
    PROVE  AheadInv'
<1>. SUFFICES ASSUME ~raced, ~raced', NEW r \in Readers, r \in known' \ behind'
              PROVE  Ahead(r)'
  <2>1. known' \subseteq Readers
    BY TypedStep DEF Typed, TypeOK
  <2>. QED  BY <2>1, RacedStays DEF AheadInv
<1>0. /\ scan \in [Readers -> {"idle", "scanning", "missed"}] /\ pos \in [Readers -> Lists]
      /\ want \in [Readers -> Items] /\ copies \in [Lists -> [Items -> Nat]]
      /\ \A p \in Procs : Shaped(p)
  BY DEF Typed, TypeOK
<1>i. \A s \in known \ behind : Ahead(s)
  BY DEF AheadInv
<1>1. CASE UNCHANGED <<copies, lookup>>
  BY <1>1, <1>i DEF Ahead, lookup
<1>2. ASSUME NEW p \in Procs, Idles(p) PROVE Ahead(r)'
  <2>1. (\A l \in Lists, i \in Items : copies'[l][i] = copies[l][i]) /\ lookup' = lookup
    BY <1>2, IdleFacts
  <2>. QED  BY <2>1, <1>0, <1>i, AheadKept DEF lookup
<1>3. ASSUME NEW p \in Procs, SaveDestination(p) PROVE Ahead(r)'
  <2>1. lookup' = lookup
    BY <1>3 DEF SaveDestination
  <2>2. \A l \in Lists, i \in Items : copies[l][i] > 0 => copies'[l][i] > 0
    BY <1>3, <1>0, Saved
  <2>. QED  BY <2>1, <2>2, <1>0, <1>i, AheadKept DEF lookup
<1>4. ASSUME NEW i \in Items, Dream(i) PROVE Ahead(r)'
  <2>1. lookup' = lookup
    BY <1>4 DEF Dream
  <2>2. \A l \in Lists, k \in Items : copies[l][k] > 0 => copies'[l][k] > 0
    BY <1>4, <1>0, Dreamt
  <2>. QED  BY <2>1, <2>2, <1>0, <1>i, AheadKept DEF lookup
<1>5. ASSUME NEW p \in Procs, RemoveSource(p) PROVE Ahead(r)'
  <2>0. /\ pc[p] = "source" /\ job[p].item \in Items /\ job[p].dst \in Lists
        /\ scan' = scan /\ pos' = pos /\ want' = want /\ known' = known
        /\ behind' = behind \cup
              {s \in Readers : scan[s] = "scanning" /\ want[s] = job[p].item /\ pos[s] > job[p].dst}
    BY <1>5, <1>0 DEF RemoveSource, SaveSource, Shaped, Working, Jobs
  <2>1. \A l \in Lists, i \in Items :
           copies'[l][i] = IF l = job[p].src /\ i = job[p].item /\ copies[l][i] > 0
                           THEN copies[l][i] - 1 ELSE copies[l][i]
    BY <1>5, Removed
  <2>2. Ahead(r)
    BY <2>0, <1>i
  <2>3. CASE want[r] # job[p].item
    BY <2>0, <2>1, <2>2, <2>3, <1>0, AheadKept
  <2>4. CASE want[r] = job[p].item /\ scan[r] = "scanning"
    <3>1. job[p].dst >= pos[r]
      BY <2>0, <2>4, <1>0 DEF Lists
    <3>2. copies[job[p].dst][job[p].item] > (IF job[p].src = job[p].dst THEN 1 ELSE 0)
      BY <2>0 DEF KeptInv, Kept
    <3>3. copies'[job[p].dst][job[p].item] > 0
      <4>1. copies[job[p].dst][job[p].item] \in Nat
        BY <2>0, <1>0
      <4>2. CASE job[p].src = job[p].dst
        BY <4>1, <4>2, <3>2, <2>0, <2>1
      <4>3. CASE job[p].src # job[p].dst
        BY <4>1, <4>3, <3>2, <2>0, <2>1
      <4>. QED  BY <4>2, <4>3
    <3>. QED  BY <2>0, <2>4, <3>1, <3>3 DEF Ahead
  <2>5. CASE scan[r] # "scanning"
    BY <2>0, <2>2, <2>5 DEF Ahead
  <2>. QED  BY <2>3, <2>4, <2>5
<1>6. ASSUME NEW s \in Readers, Looks(s) PROVE Ahead(r)'
  <2>0. copies' = copies
    BY <1>6 DEF Looks, LookupStep, LookupFinds, LookupStart, store
  <2>1. CASE r # s
    <3>1. /\ scan'[r] = scan[r] /\ pos'[r] = pos[r] /\ want'[r] = want[r]
          /\ r \in known \ behind
      BY <1>6, <1>0, <2>1 DEF Looks, LookupStep, LookupFinds, LookupStart
    <3>. QED  BY <3>1, <2>0, <1>i, AheadKept
  <2>2. CASE r = s /\ LookupStep(s)
    <3>1. /\ r \in known \ behind /\ want' = want
          /\ scan[r] = "scanning" /\ copies[pos[r]][want[r]] = 0
      BY <2>2 DEF LookupStep
    <3>2. PICK l \in Lists : l >= pos[r] /\ copies[l][want[r]] > 0
      BY <3>1, <1>i DEF Ahead
    <3>3. l >= pos[r] + 1 /\ pos[r] < Archive
      BY <3>1, <3>2, <1>0 DEF Lists
    <3>4. scan'[r] = "scanning" /\ pos'[r] = pos[r] + 1
      BY <2>2, <3>3, <1>0 DEF LookupStep
    <3>. QED  BY <2>0, <3>1, <3>2, <3>3, <3>4 DEF Ahead
  <2>3. CASE r = s /\ LookupFinds(s)
    BY <2>3 DEF LookupFinds
  <2>4. ASSUME NEW i \in Items, r = s, LookupStart(s, i) PROVE Ahead(r)'
    <3>1. scan'[r] = "scanning" /\ pos'[r] = 0 /\ want'[r] = i
      BY <2>4, <1>0 DEF LookupStart
    <3>2. InStore(i)
      BY <2>4 DEF LookupStart
    <3>3. \A l \in Lists : l >= 0
      BY DEF Lists
    <3>. QED  BY <2>0, <3>1, <3>2, <3>3 DEF Ahead, InStore
  <2>. QED  BY <1>6, <2>1, <2>2, <2>3, <2>4 DEF Looks
<1>7. ASSUME NEW p \in Procs, NEW i \in Items, Start(p, i) PROVE UNCHANGED <<copies, lookup>>
  BY <1>7, StartType DEF Begin, store
<1>8. ASSUME NEW p \in Procs, OneStep(p) PROVE Idles(p) \/ SaveDestination(p) \/ RemoveSource(p)
  BY <1>8 DEF OneStep, Idles
<1>9. UNCHANGED vars => UNCHANGED <<copies, lookup>>
  BY DEF vars, store
<1>. QED  BY <1>1, <1>2, <1>3, <1>4, <1>5, <1>6, <1>7, <1>8, <1>9, StepKinds

\* A lookup without the lock misses an item of the store only if it was moved behind it.
THEOREM MissesExplained == Spec => []MissesOnlyWhatMovedBehind
<1>1. Init => AheadInv
  BY DEF Init, AheadInv
<1>2. Typed /\ KeptInv /\ AheadInv /\ [Next]_vars => AheadInv'
  BY AheadStep
<1>3. AheadInv => MissesOnlyWhatMovedBehind
  BY DEF AheadInv, Ahead, MissesOnlyWhatMovedBehind
<1>. QED  BY <1>1, <1>2, <1>3, AlwaysTyped, AlwaysKept, PTL DEF Spec

----------------------------------------------------------------------------
(* The fold of the journal.  At rest an item has at most one copy, where    *)
(* its last event put it; what a process at work on it has done so far      *)
(* tells where its copies are before that event.                           *)

\* At most one copy, in d.
Single(i, d) == \A l \in Lists : copies[l][i] <= (IF l = d THEN 1 ELSE 0)

Holds(p, i) == (Working(p) \/ Capturing(p)) /\ job[p].item = i

Saving(p, i) == pc[p] \in {"source", "journal"} /\ job[p].item = i

\* The item i that the process p is at.
Placed(p, i) ==
    Holds(p, i) =>
        /\ i \in stored <=> ~(pc[p] = "dest" /\ job[p].act = "capture")
        /\ i \notin faulty =>
              /\ pc[p] = "dest" /\ job[p].act # "capture" => Single(i, job[p].src)
              /\ pc[p] = "source" =>
                    \A l \in Lists : copies[l][i] <= (IF l = job[p].src THEN 1 ELSE 0)
                                                  + (IF l = job[p].dst THEN 1 ELSE 0)
              /\ pc[p] = "journal" => Single(i, job[p].dst)
              /\ Capturing(p) /\ i \notin overtaken => Single(i, job[p].dst)
              /\ Working(p) /\ job[p].src = Archive /\ job[p].dst = Archive => PriorList(i) = home[i]
              /\ pc[p] = "journal" /\ job[p].src \in Live /\ job[p].dst = Archive =>
                    home[i] = job[p].src

\* What changes an item before the event of its capture has overtaken it.
Overtakes(p, q) ==
    p # q /\ Working(p) /\ Capturing(q) /\ job[p].item = job[q].item => job[p].item \in overtaken

AtRest(i) ==
    i \notin faulty /\ (\A p \in Procs : ~Saving(p, i)) =>
        /\ \E d \in Lists : Single(i, d)
        /\ i \notin dreamed \cup overtaken /\ (\A p \in Procs : ~(Capturing(p) /\ job[p].item = i)) =>
              Single(i, jlist[i])
        /\ copies[Archive][i] > 0 => PriorList(i) = home[i]

FoldInv ==
    /\ \A l \in Lists, i \in Items : copies[l][i] > 0 => i \in stored
    /\ \A p \in Procs, i \in Items : Placed(p, i)
    /\ \A p, q \in Procs : Overtakes(p, q)
    /\ \A i \in Items : AtRest(i)

\* A step elsewhere leaves what a process has done so far.
LEMMA PlacedFrame ==
    ASSUME Typed, Typed', NEW q \in Procs, NEW i \in Items, Placed(q, i),
           pc'[q] = pc[q], job'[q] = job[q],
           \A l \in Lists : copies'[l][i] <= copies[l][i],
           i \in stored' <=> i \in stored, i \in faulty => i \in faulty',
           i \in overtaken => i \in overtaken', PriorList(i)' = PriorList(i), home'[i] = home[i]
    PROVE  Placed(q, i)'
<1>1. \A l \in Lists : copies[l][i] \in Nat /\ copies'[l][i] \in Nat
  BY DEF Typed, TypeOK
<1>2. \A d : Single(i, d) => Single(i, d)'
  BY <1>1 DEF Single
<1>3. (Working(q)' <=> Working(q)) /\ (Capturing(q)' <=> Capturing(q)) /\ (Holds(q, i)' <=> Holds(q, i))
  BY DEF Working, Capturing, Holds
<1>4. SUFFICES ASSUME Holds(q, i), i \notin faulty'
               PROVE  /\ pc[q] = "dest" /\ job[q].act # "capture" => Single(i, job[q].src)'
                      /\ pc[q] = "source" =>
                            \A l \in Lists : copies'[l][i] <= (IF l = job[q].src THEN 1 ELSE 0)
                                                          + (IF l = job[q].dst THEN 1 ELSE 0)
                      /\ pc[q] = "journal" => Single(i, job[q].dst)'
                      /\ Capturing(q) /\ i \notin overtaken' => Single(i, job[q].dst)'
  BY <1>3 DEF Placed
<1>5. /\ pc[q] = "dest" /\ job[q].act # "capture" => Single(i, job[q].src)
      /\ pc[q] = "source" =>
            \A l \in Lists : copies[l][i] <= (IF l = job[q].src THEN 1 ELSE 0)
                                          + (IF l = job[q].dst THEN 1 ELSE 0)
      /\ pc[q] = "journal" => Single(i, job[q].dst)
      /\ Capturing(q) /\ i \notin overtaken => Single(i, job[q].dst)
  BY <1>4 DEF Placed
<1>. QED  BY <1>1, <1>2, <1>5

\* A step elsewhere leaves an item at rest.
LEMMA RestFrame ==
    ASSUME Typed, Typed', NEW i \in Items, AtRest(i),
           \A p \in Procs : Saving(p, i) => Saving(p, i)',
           \A p \in Procs : Capturing(p) /\ job[p].item = i => (Capturing(p) /\ job[p].item = i)',
           \A l \in Lists : copies'[l][i] <= copies[l][i],
           i \in faulty => i \in faulty', i \in dreamed \cup overtaken => i \in dreamed' \cup overtaken',
           jlist'[i] = jlist[i], PriorList(i)' = PriorList(i), home'[i] = home[i]
    PROVE  AtRest(i)'
<1>1. \A l \in Lists : copies[l][i] \in Nat /\ copies'[l][i] \in Nat
  BY DEF Typed, TypeOK
<1>2. \A d : Single(i, d) => Single(i, d)'
  BY <1>1 DEF Single
<1>3. copies'[Archive][i] > 0 => copies[Archive][i] > 0
  BY <1>1, ListFacts
<1>. QED  BY <1>2, <1>3 DEF AtRest

\* What a step means for an item that it does not touch.
Aside(i) ==
    /\ \A q \in Procs : \/ pc'[q] = pc[q] /\ job'[q] = job[q]
                        \/ ~Holds(q, i) /\ ~Holds(q, i)'
    /\ \A l \in Lists : copies'[l][i] <= copies[l][i]
    /\ (i \in stored' <=> i \in stored) /\ (i \in faulty => i \in faulty')
    /\ (i \in overtaken => i \in overtaken') /\ (i \in dreamed => i \in dreamed')
    /\ jlist'[i] = jlist[i] /\ jfrom'[i] = jfrom[i] /\ home'[i] = home[i]

LEMMA AsideKeeps ==
    ASSUME Typed, Typed', FoldInv, NEW i \in Items, Aside(i)
    PROVE  (\A q \in Procs : Placed(q, i)') /\ AtRest(i)'
<1>1. PriorList(i)' = PriorList(i)
  BY DEF Aside, PriorList
<1>2. ASSUME NEW q \in Procs PROVE Placed(q, i)'
  <2>1. CASE pc'[q] = pc[q] /\ job'[q] = job[q]
    BY <1>1, <2>1, PlacedFrame DEF Aside, FoldInv
  <2>2. CASE ~Holds(q, i)'
    BY <2>2 DEF Placed
  <2>. QED  BY <2>1, <2>2 DEF Aside
<1>3. \A q \in Procs : Saving(q, i) => Saving(q, i)'
  BY DEF Aside, Saving, Holds, Working
<1>4. \A q \in Procs : Capturing(q) /\ job[q].item = i => (Capturing(q) /\ job[q].item = i)'
  BY DEF Aside, Capturing, Holds
<1>. QED  BY <1>1, <1>2, <1>3, <1>4, RestFrame DEF Aside, FoldInv

LEMMA StoredStep ==
    ASSUME Typed, FoldInv, [Next]_vars
    PROVE  \A l \in Lists, i \in Items : copies'[l][i] > 0 => i \in stored'
<1>0. /\ \A l \in Lists, i \in Items : copies[l][i] > 0 => i \in stored
      /\ copies \in [Lists -> [Items -> Nat]]
  BY DEF FoldInv, Typed, TypeOK
<1>1. CASE UNCHANGED <<copies, stored>>
  BY <1>0, <1>1
<1>2. ASSUME NEW p \in Procs, SaveDestination(p)
      PROVE  \A l \in Lists, i \in Items : copies'[l][i] > 0 => i \in stored'
  <2>1. stored' = stored \cup {job[p].item}
    BY <1>2 DEF SaveDestination
  <2>. QED  BY <2>1, <1>0, <1>2, Saved
<1>3. ASSUME NEW p \in Procs, RemoveSource(p)
      PROVE  \A l \in Lists, i \in Items : copies'[l][i] > 0 => i \in stored'
  <2>1. stored' = stored
    BY <1>3 DEF RemoveSource, SaveSource
  <2>. QED  BY <2>1, <1>0, <1>3, Removed
<1>4. ASSUME NEW p \in Procs, SeedWrite(p)
      PROVE  \A l \in Lists, i \in Items : copies'[l][i] > 0 => i \in stored'
  <2>1. stored' = stored
    BY <1>4 DEF SeedWrite
  <2>. QED  BY <2>1, <1>0, <1>4, Seeded
<1>5. ASSUME NEW k \in Items, Dream(k)
      PROVE  \A l \in Lists, i \in Items : copies'[l][i] > 0 => i \in stored'
  <2>1. stored' = stored \cup {k}
    BY <1>5 DEF Dream
  <2>. QED  BY <2>1, <1>0, <1>5, Dreamt
<1>6. ASSUME NEW p \in Procs, NEW i \in Items, Start(p, i) PROVE UNCHANGED <<copies, stored>>
  BY <1>6, StartType DEF Begin, store
<1>7. ASSUME NEW p \in Procs, OneStep(p), ~SaveDestination(p), ~RemoveSource(p), ~SeedWrite(p)
      PROVE  UNCHANGED <<copies, stored>>
  BY <1>7 DEF OneStep, SeedLook, ReadBack, Append, AppendFails, Kill, store, history
<1>8. ASSUME NEW r \in Readers, Looks(r) PROVE UNCHANGED <<copies, stored>>
  BY <1>8 DEF Looks, LookupStep, LookupFinds, LookupStart, store, history
<1>9. UNCHANGED vars => UNCHANGED <<copies, stored>>
  BY DEF vars, store, history
<1>. QED  BY <1>1, <1>2, <1>3, <1>4, <1>5, <1>6, <1>7, <1>8, <1>9, StepKinds

\* A process at work has the lock to itself.
LEMMA OneWorks ==
    ASSUME Typed, NEW p \in Procs, Working(p), NEW q \in Procs, Working(q)
    PROVE  q = p
  BY DEF Typed, Shaped

LEMMA OvertakesStep ==
    ASSUME Typed, FoldInv, [Next]_vars, NEW p \in Procs, NEW q \in Procs
    PROVE  Overtakes(p, q)'
<1>0. /\ pc \in [Procs -> {"idle", "seed", "dest", "source", "journal", "read", "late"}]
      /\ job \in [Procs -> Jobs \cup {NoJob}] /\ Overtakes(p, q)
  BY DEF FoldInv, Typed, TypeOK
<1>1. CASE UNCHANGED <<pc, job, overtaken>>
  BY <1>0, <1>1 DEF Overtakes, Working, Capturing
<1>2. ASSUME NEW s \in Procs, NEW i \in Items, Start(s, i) PROVE Overtakes(p, q)'
  <2>1. PICK j \in Jobs : j.item = i /\ Begin(s, j)
    BY <1>2, StartType
  <2>2. /\ pc' = [pc EXCEPT ![s] = "dest"] /\ job' = [job EXCEPT ![s] = j]
        /\ \A t \in Procs : ~Working(t)
        /\ overtaken' = IF \E t \in Procs : pc[t] \in {"read", "late"} /\ job[t].item = j.item
                        THEN overtaken \cup {j.item} ELSE overtaken
    BY <2>1 DEF Begin, Typed, Shaped
  <2>3. SUFFICES ASSUME p # q, Working(p)', Capturing(q)', (job[p].item = job[q].item)'
                 PROVE  job'[p].item \in overtaken'
    BY DEF Overtakes
  <2>4. p = s /\ q # s
    BY <2>2, <2>3, <1>0 DEF Working, Capturing
  <2>5. job'[p] = j /\ job'[q] = job[q] /\ pc'[q] = pc[q]
    BY <2>2, <2>4, <1>0
  <2>. QED  BY <2>2, <2>3, <2>5 DEF Capturing
<1>3. ASSUME NEW s \in Procs, OneStep(s) PROVE Overtakes(p, q)'
  <2>1. overtaken' = overtaken
    BY <1>3 DEF OneStep, SeedLook, SeedWrite, SaveDestination, RemoveSource, SaveSource, ReadBack,
                Append, AppendFails, Kill, history
  <2>2. Working(s)' => Working(s) /\ job'[s] = job[s]
    BY <1>3, <1>0 DEF OneStep, SeedLook, SeedWrite, SaveDestination, RemoveSource, SaveSource,
                      ReadBack, Append, AppendFails, Kill, End, Working
  <2>3. Capturing(s)' => job'[s].item = job[s].item /\ (Capturing(s) \/ Working(s))
    <3>1. CASE ReadBack(s)
      <4>1. PICK d : job' = [job EXCEPT ![s] = [job[s] EXCEPT !.dst = d]]
        BY <3>1, <1>0 DEF ReadBack
      <4>2. job[s] \in Jobs
        BY <3>1 DEF ReadBack, Typed, Shaped, Capturing
      <4>. QED  BY <3>1, <4>1, <4>2, <1>0 DEF ReadBack, Capturing, Jobs
    <3>2. CASE ~ReadBack(s)
      BY <1>3, <3>2, <1>0 DEF OneStep, SeedLook, SeedWrite, SaveDestination, RemoveSource,
                              SaveSource, Append, AppendFails, Kill, End, Working, Capturing
    <3>. QED  BY <3>1, <3>2
  <2>4. \A t \in Procs \ {s} : pc'[t] = pc[t] /\ job'[t] = job[t]
    BY <1>3, OthersKeep
  <2>5. SUFFICES ASSUME p # q, Working(p)', Capturing(q)', (job[p].item = job[q].item)'
                 PROVE  job'[p].item \in overtaken
    BY <2>1 DEF Overtakes
  <2>6. Working(p) /\ job'[p].item = job[p].item
    BY <2>2, <2>4, <2>5 DEF Working
  <2>7. Capturing(q) /\ job'[q].item = job[q].item
    <3>1. CASE q = s
      BY <3>1, <2>3, <2>5, <2>6, OneWorks
    <3>2. CASE q # s
      BY <3>2, <2>4, <2>5 DEF Capturing
    <3>. QED  BY <3>1, <3>2
  <2>. QED  BY <2>5, <2>6, <2>7, <1>0 DEF Overtakes
<1>4. ASSUME NEW i \in Items, Dream(i) PROVE UNCHANGED <<pc, job, overtaken>>
  BY <1>4 DEF Dream
<1>5. ASSUME NEW r \in Readers, Looks(r) PROVE UNCHANGED <<pc, job, overtaken>>
  BY <1>5 DEF Looks, LookupStep, LookupFinds, LookupStart, history
<1>6. UNCHANGED vars => UNCHANGED <<pc, job, overtaken>>
  BY DEF vars, history
<1>. QED  BY <1>1, <1>2, <1>3, <1>4, <1>5, <1>6, StepKinds

Folds(i) == (\A q \in Procs : Placed(q, i)) /\ AtRest(i)

\* A handler that starts on an item has it at rest.
LEMMA BeginFolds ==
    ASSUME Typed, Typed', FoldInv, NEW p \in Procs, NEW i \in Items, Start(p, i), NEW k \in Items
    PROVE  Folds(k)'
<1>0. /\ pc \in [Procs -> {"idle", "seed", "dest", "source", "journal", "read", "late"}]
      /\ job \in [Procs -> Jobs \cup {NoJob}] /\ copies \in [Lists -> [Items -> Nat]]
  BY DEF Typed, TypeOK
<1>1. PICK j \in Jobs : /\ j.item = i /\ j.dst \in Lists
                        /\ j.act = "capture" => j.dst = Inbox /\ Unused(i)
                        /\ j.act # "capture" => j.src \in Lists /\ copies[j.src][i] > 0
                        /\ Begin(p, j)
  BY StartType
<1>2. /\ pc[p] = "idle" /\ pc' = [pc EXCEPT ![p] = "dest"] /\ job' = [job EXCEPT ![p] = j]
      /\ copies' = copies /\ stored' = stored /\ faulty' = faulty /\ dreamed' = dreamed
      /\ home' = home /\ jlist' = jlist /\ jfrom' = jfrom
      /\ overtaken' = overtaken \/ overtaken' = overtaken \cup {i}
      /\ \A q \in Procs : ~Working(q)
  BY <1>1 DEF Begin, store, journal, Typed, Shaped
<1>3. /\ pc'[p] = "dest" /\ job'[p] = j
      /\ \A q \in Procs : q # p => pc'[q] = pc[q] /\ job'[q] = job[q]
  BY <1>0, <1>2
<1>4. PriorList(k)' = PriorList(k) /\ \A l \in Lists : copies'[l][k] <= copies[l][k]
  BY <1>0, <1>2 DEF PriorList
<1>5. CASE k # i
  <2>1. ~Holds(p, k) /\ ~Holds(p, k)'
    BY <1>1, <1>2, <1>3, <1>5 DEF Holds, Working, Capturing
  <2>2. Aside(k)
    BY <1>2, <1>3, <1>4, <1>5, <2>1 DEF Aside
  <2>. QED  BY <2>2, AsideKeeps DEF Folds
<1>6. CASE k = i
  <2>1. \A q \in Procs : ~Saving(q, i) /\ ~Saving(q, i)'
    BY <1>2, <1>3 DEF Saving, Working
  <2>2. AtRest(i)'
    <3>1. \A q \in Procs : Capturing(q) /\ job[q].item = i => (Capturing(q) /\ job[q].item = i)'
      BY <1>2, <1>3 DEF Capturing
    <3>2. AtRest(i)
      BY DEF FoldInv
    <3>. QED  BY <1>2, <1>4, <1>6, <2>1, <3>1, <3>2, RestFrame
  <2>3. ASSUME NEW q \in Procs, q # p PROVE Placed(q, i)'
    <3>1. Placed(q, i)
      BY DEF FoldInv
    <3>. QED  BY <1>2, <1>3, <1>4, <1>6, <2>3, <3>1, PlacedFrame
  <2>4. Placed(p, i)'
    <3>1. i \in stored <=> j.act # "capture"
      BY <1>0, <1>1 DEF FoldInv, Unused
    <3>2. ASSUME i \notin faulty, j.act # "capture"
          PROVE  Single(i, j.src) /\ (j.src = Archive => PriorList(i) = home[i])
      <4>1. PICK d \in Lists : Single(i, d)
        BY <2>1, <3>2 DEF FoldInv, AtRest
      <4>2. d = j.src
        BY <1>0, <1>1, <3>2, <4>1 DEF Single
      <4>3. j.src = Archive => PriorList(i) = home[i]
        BY <1>1, <2>1, <3>2 DEF FoldInv, AtRest
      <4>. QED  BY <4>1, <4>2, <4>3
    <3>3. Single(i, j.src)' <=> Single(i, j.src)
      BY <1>2 DEF Single
    <3>4. j.act = "capture" => j.dst # Archive
      BY <1>1, ListFacts
    <3>. QED  BY <1>2, <1>3, <1>4, <1>6, <3>1, <3>2, <3>3, <3>4 DEF Placed, Holds, Working, Capturing
  <2>. QED  BY <1>6, <2>2, <2>3, <2>4 DEF Folds
<1>. QED  BY <1>5, <1>6

\* The first save.
LEMMA SaveFolds ==
    ASSUME Typed, Typed', FoldInv, NEW p \in Procs, SaveDestination(p), NEW k \in Items
    PROVE  Folds(k)'
<1>0. /\ pc \in [Procs -> {"idle", "seed", "dest", "source", "journal", "read", "late"}]
      /\ copies \in [Lists -> [Items -> Nat]]
  BY DEF Typed, TypeOK
<1>1. /\ pc[p] = "dest" /\ Working(p) /\ job[p].dst \in Lists /\ job[p].item \in Items /\ job' = job
      /\ pc'[p] = IF job[p].act # "capture" THEN "source"
                  ELSE IF p \in Sink THEN "read" ELSE "journal"
      /\ job[p].act = "capture" => job[p].dst = Inbox
      /\ stored' = stored \cup {job[p].item}
      /\ faulty' = faulty /\ dreamed' = dreamed /\ overtaken' = overtaken
      /\ home' = home /\ jlist' = jlist /\ jfrom' = jfrom
  BY <1>0 DEF SaveDestination, Typed, Shaped, Working, Jobs, journal
<1>2. \A l \in Lists, n \in Items :
         copies'[l][n] = IF l = job[p].dst /\ n = job[p].item THEN copies[l][n] + 1
                         ELSE copies[l][n]
  BY Saved
<1>3. \A q \in Procs : q # p => pc'[q] = pc[q] /\ job'[q] = job[q] /\ ~Working(q)
  BY <1>1, OthersKeep, OneWorks DEF OneStep
<1>4. CASE k # job[p].item
  <2>1. ~Holds(p, k) /\ ~Holds(p, k)'
    BY <1>1, <1>4 DEF Holds
  <2>2. \A l \in Lists : copies'[l][k] <= copies[l][k]
    BY <1>0, <1>2, <1>4
  <2>3. Aside(k)
    BY <1>1, <1>3, <1>4, <2>1, <2>2 DEF Aside
  <2>. QED  BY <2>3, AsideKeeps DEF Folds
<1>5. CASE k = job[p].item
  <2>0. Placed(p, k) /\ Holds(p, k) /\ PriorList(k)' = PriorList(k)
    BY <1>1, <1>5 DEF FoldInv, Holds, PriorList
  <2>1. ASSUME NEW q \in Procs, q # p PROVE Placed(q, k)'
    <3>1. SUFFICES ASSUME Holds(q, k)' PROVE Placed(q, k)'
      BY DEF Placed
    <3>2. Capturing(q) /\ job[q].item = k /\ Capturing(q)' /\ ~Working(q)'
      BY <1>3, <2>1, <3>1 DEF Holds, Working, Capturing
    <3>3. k \in overtaken'
      BY <1>1, <1>5, <2>1, <3>2 DEF FoldInv, Overtakes
    <3>4. k \in stored' /\ pc'[q] \in {"read", "late"}
      BY <1>1, <1>5, <3>2 DEF Capturing
    <3>. QED  BY <3>2, <3>3, <3>4 DEF Placed, Working, Capturing
  <2>2. CASE job[p].act # "capture"
    <3>1. pc'[p] = "source" /\ k \in stored
      BY <1>1, <2>0, <2>2 DEF Placed
    <3>2. ASSUME k \notin faulty, NEW l \in Lists
          PROVE  copies'[l][k] <= (IF l = job[p].src THEN 1 ELSE 0)
                                  + (IF l = job[p].dst THEN 1 ELSE 0)
      <4>1. copies[l][k] <= (IF l = job[p].src THEN 1 ELSE 0) /\ copies[l][k] \in Nat
        BY <1>0, <1>1, <2>0, <2>2, <3>2 DEF Placed, Single
      <4>2. copies'[l][k] = IF l = job[p].dst THEN copies[l][k] + 1 ELSE copies[l][k]
        BY <1>1, <1>2, <1>5
      <4>. QED  BY <4>1, <4>2
    <3>3. k \notin faulty /\ job[p].src = Archive /\ job[p].dst = Archive => PriorList(k) = home[k]
      BY <1>1, <2>0 DEF Placed
    <3>4. Placed(p, k)'
      BY <1>1, <1>5, <2>0, <3>1, <3>2, <3>3 DEF Placed, Holds, Working, Capturing
    <3>5. AtRest(k)'
      BY <1>1, <1>5, <3>1 DEF AtRest, Saving
    <3>. QED  BY <1>5, <2>1, <3>4, <3>5 DEF Folds
  <2>3. CASE job[p].act = "capture"
    <3>1. k \notin stored
      BY <1>1, <2>0, <2>3 DEF Placed
    <3>2. \A l \in Lists : copies[l][k] = 0
      BY <1>0, <1>1, <3>1 DEF FoldInv
    <3>3. Single(k, Inbox)' /\ copies'[Archive][k] = 0 /\ Inbox \in Lists
      <4>1. Inbox \in Lists /\ Archive \in Lists /\ Archive # Inbox
        BY ListFacts
      <4>2. \A l \in Lists : copies'[l][k] = IF l = Inbox THEN 1 ELSE 0
        BY <1>1, <1>2, <1>5, <2>3, <3>2
      <4>3. \A l \in Lists : copies'[l][k] <= (IF l = Inbox THEN 1 ELSE 0)
        BY <4>2
      <4>. QED  BY <4>1, <4>2, <4>3 DEF Single
    <3>4. Placed(p, k)'
      <4>1. /\ pc'[p] \in {"read", "journal"} /\ k \in stored'
            /\ job'[p].dst = Inbox /\ Inbox # Archive
        BY <1>1, <1>5, <2>3, ListFacts
      <4>. QED  BY <3>3, <4>1 DEF Placed, Single, Working, Capturing
    <3>5. CASE pc'[p] = "read"
      <4>1. Capturing(p)' /\ job'[p].item = k
        BY <1>1, <1>5, <3>5 DEF Capturing
      <4>. QED  BY <1>5, <2>1, <3>3, <3>4, <4>1 DEF Folds, AtRest
    <3>6. CASE pc'[p] = "journal"
      BY <1>1, <1>5, <2>1, <3>4, <3>6 DEF Folds, AtRest, Saving
    <3>. QED  BY <1>1, <2>3, <3>5, <3>6
  <2>. QED  BY <2>2, <2>3
<1>. QED  BY <1>4, <1>5

\* The second save.
LEMMA RemoveFolds ==
    ASSUME Typed, Typed', FoldInv, NEW p \in Procs, RemoveSource(p), NEW k \in Items
    PROVE  Folds(k)'
<1>0. /\ pc \in [Procs -> {"idle", "seed", "dest", "source", "journal", "read", "late"}]
      /\ copies \in [Lists -> [Items -> Nat]] /\ home \in [Items -> Live]
  BY DEF Typed, TypeOK
<1>1. /\ pc[p] = "source" /\ Working(p) /\ job[p].item \in Items /\ job' = job
      /\ pc'[p] = "journal" /\ stored' = stored
      /\ faulty' = faulty /\ dreamed' = dreamed /\ overtaken' = overtaken
      /\ jlist' = jlist /\ jfrom' = jfrom
      /\ home' = IF job[p].dst = Archive /\ job[p].src \in Live
                 THEN [home EXCEPT ![job[p].item] = job[p].src] ELSE home
  BY <1>0 DEF RemoveSource, SaveSource, Typed, Shaped, Working, Jobs, journal
<1>2. \A l \in Lists, n \in Items :
         copies'[l][n] = IF l = job[p].src /\ n = job[p].item /\ copies[l][n] > 0
                         THEN copies[l][n] - 1 ELSE copies[l][n]
  BY Removed
<1>3. \A q \in Procs : q # p => pc'[q] = pc[q] /\ job'[q] = job[q] /\ ~Working(q)
  BY <1>1, OthersKeep, OneWorks DEF OneStep
<1>4. CASE k # job[p].item
  <2>1. ~Holds(p, k) /\ ~Holds(p, k)'
    BY <1>1, <1>4 DEF Holds
  <2>2. \A l \in Lists : copies'[l][k] <= copies[l][k]
    BY <1>0, <1>2, <1>4
  <2>3. home'[k] = home[k]
    BY <1>0, <1>1, <1>4
  <2>4. Aside(k)
    BY <1>1, <1>3, <1>4, <2>1, <2>2, <2>3 DEF Aside
  <2>. QED  BY <2>4, AsideKeeps DEF Folds
<1>5. CASE k = job[p].item
  <2>0. Placed(p, k) /\ Holds(p, k) /\ PriorList(k)' = PriorList(k) /\ k \in stored
    BY <1>1, <1>5 DEF FoldInv, Holds, PriorList, Placed
  <2>1. ASSUME NEW q \in Procs, q # p PROVE Placed(q, k)'
    <3>1. SUFFICES ASSUME Holds(q, k)' PROVE Placed(q, k)'
      BY DEF Placed
    <3>2. Capturing(q) /\ job[q].item = k /\ Capturing(q)' /\ ~Working(q)'
      BY <1>3, <2>1, <3>1 DEF Holds, Working, Capturing
    <3>3. k \in overtaken'
      BY <1>1, <1>5, <2>1, <3>2 DEF FoldInv, Overtakes
    <3>4. k \in stored' /\ pc'[q] \in {"read", "late"}
      BY <1>1, <2>0, <3>2 DEF Capturing
    <3>. QED  BY <3>2, <3>3, <3>4 DEF Placed, Working, Capturing
  <2>2. ASSUME k \notin faulty, NEW l \in Lists
        PROVE  copies'[l][k] <= (IF l = job[p].dst THEN 1 ELSE 0)
    <3>1. /\ copies[l][k] <= (IF l = job[p].src THEN 1 ELSE 0) + (IF l = job[p].dst THEN 1 ELSE 0)
          /\ copies[l][k] \in Nat
      BY <1>0, <1>1, <2>0, <2>2 DEF Placed
    <3>2. copies'[l][k] = IF l = job[p].src /\ copies[l][k] > 0 THEN copies[l][k] - 1
                          ELSE copies[l][k]
      BY <1>2, <1>5
    <3>. QED  BY <3>1, <3>2
  <2>3. k \notin faulty /\ job[p].src = Archive /\ job[p].dst = Archive =>
           PriorList(k)' = home'[k]
    BY <1>1, <2>0, ListFacts DEF Placed
  <2>4. job[p].src \in Live /\ job[p].dst = Archive => home'[k] = job[p].src
    BY <1>0, <1>1, <1>5
  <2>5. Placed(p, k)'
    BY <1>1, <2>0, <2>2, <2>3, <2>4 DEF Placed, Single, Working, Capturing
  <2>6. AtRest(k)'
    BY <1>1, <1>5 DEF AtRest, Saving
  <2>. QED  BY <2>1, <2>5, <2>6 DEF Folds
<1>. QED  BY <1>4, <1>5

\* The sink's capture reads its item back.
LEMMA ReadFolds ==
    ASSUME Typed, Typed', FoldInv, NEW p \in Procs, ReadBack(p), NEW k \in Items
    PROVE  Folds(k)'
<1>0. /\ pc \in [Procs -> {"idle", "seed", "dest", "source", "journal", "read", "late"}]
      /\ job \in [Procs -> Jobs \cup {NoJob}] /\ copies \in [Lists -> [Items -> Nat]]
  BY DEF Typed, TypeOK
<1>1. /\ pc[p] = "read" /\ Capturing(p) /\ job[p] \in Jobs /\ job[p].dst = Inbox
      /\ pc'[p] = "late" /\ copies' = copies /\ stored' = stored
      /\ faulty' = faulty /\ dreamed' = dreamed /\ overtaken' = overtaken
      /\ home' = home /\ jlist' = jlist /\ jfrom' = jfrom
  BY <1>0 DEF ReadBack, Typed, Shaped, Capturing, store, journal, history
<1>2. PICK d \in {Inbox, None} : /\ job' = [job EXCEPT ![p] = [job[p] EXCEPT !.dst = d]]
                                 /\ d = None => copies[Inbox][job[p].item] = 0
  <2>1. copies[Inbox][job[p].item] \in Nat
    BY <1>0, <1>1, ListFacts DEF Jobs
  <2>2. job' = [job EXCEPT ![p].dst = IF copies[Inbox][job[p].item] > 0 THEN Inbox ELSE None]
    BY DEF ReadBack
  <2>3. CASE copies[Inbox][job[p].item] > 0
    <3>1. job' = [job EXCEPT ![p] = [job[p] EXCEPT !.dst = Inbox]]
      BY <2>2, <2>3
    <3>. QED  BY <3>1, ListFacts
  <2>4. CASE ~(copies[Inbox][job[p].item] > 0)
    <3>1. job' = [job EXCEPT ![p] = [job[p] EXCEPT !.dst = None]]
      BY <2>2, <2>4
    <3>2. copies[Inbox][job[p].item] = 0
      BY <2>1, <2>4
    <3>. QED  BY <3>1, <3>2
  <2>. QED  BY <2>3, <2>4
<1>3. /\ job'[p].item = job[p].item /\ job'[p].act = job[p].act /\ job'[p].dst = d
      /\ \A q \in Procs : q # p => pc'[q] = pc[q] /\ job'[q] = job[q]
  BY <1>0, <1>1, <1>2, OthersKeep DEF Jobs, OneStep
<1>4. CASE k # job[p].item
  <2>1. ~Holds(p, k) /\ ~Holds(p, k)'
    BY <1>3, <1>4 DEF Holds
  <2>2. Aside(k)
    BY <1>0, <1>1, <1>3, <2>1 DEF Aside
  <2>. QED  BY <2>2, AsideKeeps DEF Folds
<1>5. CASE k = job[p].item
  <2>1. PriorList(k)' = PriorList(k) /\ (\A l \in Lists : copies'[l][k] <= copies[l][k])
    BY <1>0, <1>1 DEF PriorList
  <2>2. ASSUME NEW q \in Procs, q # p PROVE Placed(q, k)'
    BY <1>1, <1>3, <2>1, <2>2, PlacedFrame DEF FoldInv
  <2>3. Placed(p, k)'
    <3>1. Placed(p, k) /\ Holds(p, k)
      BY <1>1, <1>5 DEF FoldInv, Holds
    <3>2. k \in stored
      BY <1>1, <3>1 DEF Placed
    <3>3. k \notin faulty /\ k \notin overtaken =>
             \A l \in Lists : copies[l][k] <= (IF l = d THEN 1 ELSE 0)
      <4>1. SUFFICES ASSUME k \notin faulty, k \notin overtaken, NEW l \in Lists
                     PROVE  copies[l][k] <= (IF l = d THEN 1 ELSE 0)
        OBVIOUS
      <4>2. copies[l][k] <= (IF l = Inbox THEN 1 ELSE 0) /\ copies[l][k] \in Nat
        BY <1>0, <1>1, <3>1, <4>1 DEF Placed, Single
      <4>. QED  BY <1>2, <1>5, <4>2
    <3>. QED  BY <1>1, <1>3, <3>2, <3>3 DEF Placed, Single, Working, Capturing
  <2>4. AtRest(k)'
    <3>1. \A q \in Procs : Saving(q, k) => Saving(q, k)'
      BY <1>1, <1>3 DEF Saving
    <3>2. \A q \in Procs : Capturing(q) /\ job[q].item = k => (Capturing(q) /\ job[q].item = k)'
      BY <1>1, <1>3 DEF Capturing
    <3>. QED  BY <1>1, <2>1, <3>1, <3>2, RestFrame DEF FoldInv
  <2>. QED  BY <2>2, <2>3, <2>4 DEF Folds
<1>. QED  BY <1>4, <1>5

\* A process that ends without an event: what it was at is faulty, or untouched yet.
LEMMA EndFolds ==
    ASSUME Typed, Typed', FoldInv, NEW p \in Procs, OneStep(p), End(p), NEW k \in Items,
           copies' = copies, stored' = stored, dreamed' = dreamed, overtaken' = overtaken,
           home' = home, jlist' = jlist, jfrom' = jfrom, faulty \subseteq faulty',
           Holds(p, k) => k \in faulty' \/ pc[p] = "dest"
    PROVE  Folds(k)'
<1>0. /\ pc \in [Procs -> {"idle", "seed", "dest", "source", "journal", "read", "late"}]
      /\ job \in [Procs -> Jobs \cup {NoJob}] /\ copies \in [Lists -> [Items -> Nat]]
  BY DEF Typed, TypeOK
<1>1. pc'[p] = "idle" /\ ~Holds(p, k)' /\ PriorList(k)' = PriorList(k)
  BY <1>0 DEF End, Holds, Working, Capturing, PriorList
<1>2. \A q \in Procs : q # p => pc'[q] = pc[q] /\ job'[q] = job[q]
  BY OthersKeep
<1>3. \A l \in Lists : copies'[l][k] <= copies[l][k]
  BY <1>0
<1>4. CASE ~Holds(p, k)
  <2>1. Aside(k)
    BY <1>1, <1>2, <1>3, <1>4 DEF Aside
  <2>. QED  BY <2>1, AsideKeeps DEF Folds
<1>5. CASE Holds(p, k) /\ k \in faulty'
  <2>1. ASSUME NEW q \in Procs PROVE Placed(q, k)'
    <3>1. CASE q = p
      BY <1>1, <3>1 DEF Placed
    <3>2. CASE q # p
      BY <1>1, <1>2, <1>3, <3>2, PlacedFrame DEF FoldInv
    <3>. QED  BY <3>1, <3>2
  <2>. QED  BY <1>5, <2>1 DEF Folds, AtRest
<1>6. CASE Holds(p, k) /\ pc[p] = "dest"
  <2>1. ASSUME NEW q \in Procs PROVE Placed(q, k)'
    <3>1. CASE q = p
      BY <1>1, <3>1 DEF Placed
    <3>2. CASE q # p
      BY <1>1, <1>2, <1>3, <3>2, PlacedFrame DEF FoldInv
    <3>. QED  BY <3>1, <3>2
  <2>2. \A q \in Procs : Saving(q, k) => Saving(q, k)'
    BY <1>2, <1>6 DEF Saving
  <2>3. \A q \in Procs : Capturing(q) /\ job[q].item = k => (Capturing(q) /\ job[q].item = k)'
    BY <1>2, <1>6 DEF Capturing
  <2>4. AtRest(k)'
    BY <1>1, <1>3, <2>2, <2>3, RestFrame DEF FoldInv
  <2>. QED  BY <2>1, <2>4 DEF Folds
<1>. QED  BY <1>4, <1>5, <1>6

\* The event of what a process did.
LEMMA AppendFolds ==
    ASSUME Typed, Typed', FoldInv, NEW p \in Procs, Append(p), NEW k \in Items
    PROVE  Folds(k)'
<1>0. /\ pc \in [Procs -> {"idle", "seed", "dest", "source", "journal", "read", "late"}]
      /\ job \in [Procs -> Jobs \cup {NoJob}] /\ copies \in [Lists -> [Items -> Nat]]
      /\ jlist \in [Items -> Lists \cup {None}] /\ jfrom \in [Items -> Live \cup {None}]
  BY DEF Typed, TypeOK
<1>1. /\ pc[p] \in {"journal", "late"} /\ End(p) /\ job[p] \in Jobs /\ job[p].item \in Items
      /\ copies' = copies /\ stored' = stored /\ dreamed' = dreamed /\ overtaken' = overtaken
      /\ home' = home /\ OneStep(p)
  BY DEF Append, OneStep, Typed, Shaped, Working, Capturing, Jobs, store
<1>2. CASE p \in torn
  BY <1>1, <1>2, EndFolds DEF Append, Holds
<1>3. CASE p \notin torn
  <2>1. /\ jlist' = [jlist EXCEPT ![job[p].item] = job[p].dst]
        /\ jfrom' = [jfrom EXCEPT ![job[p].item] = EventFrom(job[p])]
        /\ faulty' = faulty
    BY <1>3 DEF Append, EventTo
  <2>2. /\ pc'[p] = "idle" /\ ~Holds(p, k)'
        /\ \A q \in Procs : q # p => pc'[q] = pc[q] /\ job'[q] = job[q]
    BY <1>0, <1>1, OthersKeep DEF End, Holds, Working, Capturing
  <2>3. \A l \in Lists : copies'[l][k] <= copies[l][k]
    BY <1>0, <1>1
  <2>4. CASE k # job[p].item
    <3>1. ~Holds(p, k) /\ jlist'[k] = jlist[k] /\ jfrom'[k] = jfrom[k]
      BY <1>0, <2>1, <2>4 DEF Holds
    <3>2. Aside(k)
      BY <1>1, <2>1, <2>2, <2>3, <3>1 DEF Aside
    <3>. QED  BY <3>2, AsideKeeps DEF Folds
  <2>5. CASE k = job[p].item
    <3>0. /\ Placed(p, k) /\ Holds(p, k) /\ jlist'[k] = job[p].dst
          /\ jfrom'[k] = EventFrom(job[p])
      BY <1>0, <1>1, <2>1, <2>5 DEF FoldInv, Holds, Working, Capturing
    <3>1. job[p].act = "capture" => PriorList(k)' = PriorList(k)
      BY <2>5, <3>0 DEF EventFrom, PriorList
    <3>2. pc[p] = "late" => job[p].act = "capture"
      BY DEF Typed, Shaped, Capturing
    <3>3. ASSUME NEW q \in Procs PROVE Placed(q, k)'
      <4>1. CASE q = p
        BY <2>2, <4>1 DEF Placed
      <4>2. CASE q # p /\ pc[p] = "late"
        BY <1>1, <2>1, <2>2, <2>3, <3>1, <3>2, <4>2, PlacedFrame DEF FoldInv
      <4>3. CASE q # p /\ pc[p] = "journal"
        <5>1. Working(p) /\ ~Working(q)
          BY <4>3, OneWorks DEF Working
        <5>2. SUFFICES ASSUME Holds(q, k)' PROVE Placed(q, k)'
          BY DEF Placed
        <5>3. Capturing(q) /\ job[q].item = k /\ Capturing(q)' /\ ~Working(q)'
          BY <2>2, <4>3, <5>1, <5>2 DEF Holds, Working, Capturing
        <5>4. k \in overtaken'
          BY <1>1, <2>5, <4>3, <5>1, <5>3 DEF FoldInv, Overtakes
        <5>5. k \in stored' /\ pc'[q] \in {"read", "late"}
          BY <1>1, <3>0, <4>3, <5>3 DEF Capturing, Placed
        <5>. QED  BY <5>3, <5>4, <5>5 DEF Placed, Working, Capturing
      <4>. QED  BY <1>1, <4>1, <4>2, <4>3
    <3>4. CASE pc[p] = "late"
      <4>1. Capturing(p) /\ ~Working(p)
        BY <3>4 DEF Capturing, Working
      <4>2. ASSUME k \notin faulty, \A q \in Procs : ~Saving(q, k)'
            PROVE  (\E d \in Lists : Single(k, d)')
                   /\ (copies'[Archive][k] > 0 => PriorList(k)' = home'[k])
        <5>1. \A q \in Procs : ~Saving(q, k)
          BY <2>2, <3>4, <4>2 DEF Saving
        <5>2. (\E d \in Lists : Single(k, d)) /\ (copies[Archive][k] > 0 => PriorList(k) = home[k])
          BY <4>2, <5>1 DEF FoldInv, AtRest
        <5>. QED  BY <1>1, <3>1, <3>2, <3>4, <5>2 DEF Single
      <4>3. k \notin faulty /\ k \notin overtaken => Single(k, jlist[k])'
        BY <1>1, <3>0, <4>1 DEF Placed, Single
      <4>. QED  BY <1>1, <2>1, <3>3, <4>2, <4>3 DEF Folds, AtRest
    <3>5. CASE pc[p] = "journal"
      <4>1. Working(p) /\ job[p].dst \in Lists
        BY <3>5 DEF Working, Typed, Shaped
      <4>2. k \notin faulty => Single(k, job[p].dst)
        BY <3>0, <3>5 DEF Placed
      <4>3. k \notin faulty => (\E d \in Lists : Single(k, d)') /\ Single(k, jlist[k])'
        BY <1>1, <3>0, <4>1, <4>2 DEF Single
      <4>4. ASSUME k \notin faulty, copies'[Archive][k] > 0 PROVE PriorList(k)' = home'[k]
        <5>1. job[p].dst = Archive
          BY <1>0, <1>1, <4>2, <4>4, ListFacts DEF Single
        <5>2. job[p].act \in {"done", "move"} /\ job[p].src \in Lists
          BY <1>1, <4>1, <5>1 DEF Typed, Shaped, Jobs
        <5>3. CASE job[p].src \in Live
          <6>1. home[k] = job[p].src /\ jfrom'[k] = job[p].src /\ job[p].src # None
            BY <3>0, <3>5, <4>4, <5>1, <5>2, <5>3, ListFacts DEF Placed, EventFrom
          <6>. QED  BY <1>1, <6>1 DEF PriorList
        <5>4. CASE job[p].src = Archive
          <6>1. PriorList(k) = home[k]
            BY <3>0, <4>1, <4>4, <5>1, <5>4 DEF Placed
          <6>2. jfrom'[k] = jfrom[k]
            BY <2>5, <3>0, <5>4, ListFacts DEF EventFrom
          <6>. QED  BY <1>1, <6>1, <6>2 DEF PriorList
        <5>. QED  BY <5>2, <5>3, <5>4, ListFacts
      <4>. QED  BY <2>1, <3>3, <4>3, <4>4 DEF Folds, AtRest
    <3>. QED  BY <1>1, <3>4, <3>5
  <2>. QED  BY <2>4, <2>5
<1>. QED  BY <1>2, <1>3

\* A dream's item is new.
LEMMA DreamFolds ==
    ASSUME Typed, Typed', FoldInv, NEW i \in Items, Dream(i), NEW k \in Items
    PROVE  Folds(k)'
<1>0. copies \in [Lists -> [Items -> Nat]]
      /\ pc \in [Procs -> {"idle", "seed", "dest", "source", "journal", "read", "late"}]
  BY DEF Typed, TypeOK
<1>1. /\ pc' = pc /\ job' = job /\ faulty' = faulty /\ overtaken' = overtaken
      /\ stored' = stored \cup {i} /\ dreamed' = dreamed \cup {i}
      /\ home' = home /\ jlist' = jlist /\ jfrom' = jfrom
  BY DEF Dream, journal
<1>2. \A l \in Lists, n \in Items :
         copies'[l][n] = IF l = Someday /\ n = i THEN 1 ELSE copies[l][n]
  BY Dreamt
<1>3. CASE k # i
  <2>1. \A l \in Lists : copies'[l][k] <= copies[l][k]
    BY <1>0, <1>2, <1>3
  <2>2. Aside(k)
    BY <1>1, <1>3, <2>1 DEF Aside
  <2>. QED  BY <2>2, AsideKeeps DEF Folds
<1>4. CASE k = i
  <2>1. \A q \in Procs : ~Holds(q, k)'
    BY <1>0, <1>1, <1>4 DEF Dream, Unused, Holds, Working, Capturing
  <2>2. \A l \in Lists : copies[l][k] = 0
    BY <1>0, <1>4 DEF Dream, Unused, FoldInv
  <2>3. Single(k, Someday)' /\ copies'[Archive][k] = 0 /\ Someday \in Lists
    <3>1. Someday \in Lists /\ Archive \in Lists /\ Archive # Someday
      BY ListFacts
    <3>2. \A l \in Lists : copies'[l][k] = IF l = Someday THEN 1 ELSE 0
      BY <1>2, <1>4, <2>2
    <3>3. \A l \in Lists : copies'[l][k] <= (IF l = Someday THEN 1 ELSE 0)
      BY <3>2
    <3>. QED  BY <3>1, <3>2, <3>3 DEF Single
  <2>4. AtRest(k)'
    BY <1>1, <1>4, <2>3 DEF AtRest
  <2>. QED  BY <2>1, <2>4 DEF Folds, Placed
<1>. QED  BY <1>3, <1>4

LEMMA FoldStep ==
    ASSUME Typed, FoldInv, [Next]_vars
    PROVE  FoldInv'
<1>0. Typed'
  BY TypedStep
<1>. SUFFICES ASSUME NEW k \in Items PROVE Folds(k)'
  BY StoredStep, OvertakesStep DEF FoldInv, Folds
<1>1. copies \in [Lists -> [Items -> Nat]] /\ copies' \in [Lists -> [Items -> Nat]]
  BY <1>0 DEF Typed, TypeOK
<1>2. ASSUME UNCHANGED <<copies, pc, job, jlist, jfrom, stored, dreamed, home, faulty, overtaken>>
      PROVE  Folds(k)'
  <2>1. Aside(k)
    BY <1>1, <1>2 DEF Aside
  <2>. QED  BY <1>0, <2>1, AsideKeeps DEF Folds
<1>3. ASSUME NEW p \in Procs, (\E l \in Lists : SeedLook(p, l)) \/ SeedWrite(p)
      PROVE  Folds(k)'
  <2>1. \A l \in Lists : copies'[l][k] <= copies[l][k]
    <3>1. CASE SeedWrite(p)
      BY <1>1, <3>1, Seeded
    <3>2. CASE ~SeedWrite(p)
      BY <1>1, <1>3, <3>2 DEF SeedLook, store
    <3>. QED  BY <3>1, <3>2
  <2>2. pc[p] \in {"idle", "seed"} /\ pc'[p] \in {"idle", "seed"}
    BY <1>3 DEF SeedLook, SeedWrite, Typed, TypeOK
  <2>3. \A q \in Procs : q # p => pc'[q] = pc[q] /\ job'[q] = job[q]
    BY <1>3, OthersKeep DEF OneStep
  <2>4. ~Holds(p, k) /\ ~Holds(p, k)'
    BY <2>2 DEF Holds, Working, Capturing
  <2>5. UNCHANGED <<jlist, jfrom, stored, dreamed, home, faulty, overtaken>>
    BY <1>3 DEF SeedLook, SeedWrite, journal, history
  <2>6. Aside(k)
    BY <2>1, <2>3, <2>4, <2>5 DEF Aside
  <2>. QED  BY <1>0, <2>6, AsideKeeps DEF Folds
<1>4. ASSUME NEW p \in Procs, AppendFails(p) \/ Kill(p) PROVE Folds(k)'
  <2>1. /\ End(p) /\ OneStep(p) /\ copies' = copies /\ stored' = stored /\ dreamed' = dreamed
        /\ overtaken' = overtaken /\ home' = home /\ jlist' = jlist /\ jfrom' = jfrom
        /\ faulty \subseteq faulty'
    BY <1>4 DEF AppendFails, Kill, OneStep, store, journal
  <2>2. Holds(p, k) => k \in faulty' \/ pc[p] = "dest"
    BY <1>4 DEF AppendFails, Kill, Holds, Working, Capturing
  <2>. QED  BY <1>0, <2>1, <2>2, EndFolds
<1>5. ASSUME NEW r \in Readers, Looks(r)
      PROVE  UNCHANGED <<copies, pc, job, jlist, jfrom, stored, dreamed, home, faulty, overtaken>>
  BY <1>5 DEF Looks, LookupStep, LookupFinds, LookupStart, store, journal, history
<1>6. UNCHANGED vars =>
        UNCHANGED <<copies, pc, job, jlist, jfrom, stored, dreamed, home, faulty, overtaken>>
  BY DEF vars, store, journal, history
<1>7. ASSUME NEW p \in Procs, OneStep(p) PROVE Folds(k)'
  BY <1>0, <1>3, <1>4, <1>7, SaveFolds, RemoveFolds, ReadFolds, AppendFolds DEF OneStep
<1>. QED  BY <1>0, <1>2, <1>5, <1>6, <1>7, StepKinds, BeginFolds, DreamFolds

LEMMA FoldInit == Init => FoldInv
<1>. SUFFICES ASSUME Init PROVE FoldInv
  OBVIOUS
<1>1. \A l \in Lists, i \in Items : copies[l][i] = 0
  BY DEF Init
<1>2. \A p \in Procs, i \in Items : ~Holds(p, i) /\ ~Working(p)
  BY DEF Init, Holds, Working, Capturing
<1>3. ASSUME NEW i \in Items PROVE AtRest(i)
  <2>1. \A d : Single(i, d)
    BY <1>1 DEF Single
  <2>. QED  BY <1>1, <2>1, ListFacts DEF AtRest
<1>4. \A l \in Lists, i \in Items : copies[l][i] > 0 => i \in stored
  BY <1>1
<1>5. (\A p \in Procs, i \in Items : Placed(p, i)) /\ (\A p, q \in Procs : Overtakes(p, q))
  BY <1>2 DEF Placed, Overtakes, Init, Working
<1>. QED  BY <1>3, <1>4, <1>5 DEF FoldInv

LEMMA AlwaysFolds == Spec => []FoldInv
<1>1. Typed /\ FoldInv /\ [Next]_vars => FoldInv'
  BY FoldStep
<1>. QED  BY <1>1, FoldInit, AlwaysTyped, PTL DEF Spec

\* The fold of the journal is the store, but for items hit by a fault, stored without an
\* event, or changed before the event of their capture.
THEOREM FoldFollows == Spec => []FoldMatchesStore
<1>1. Typed /\ KeptInv /\ FoldInv => FoldMatchesStore
  <2>. SUFFICES ASSUME Typed, KeptInv, FoldInv, ~raced,
                       NEW i \in stored \ (dreamed \cup faulty \cup overtaken), ~Busy(i),
                       NEW l \in Lists
                PROVE  copies[l][i] = IF l = jlist[i] THEN 1 ELSE 0
    BY DEF FoldMatchesStore
  <2>1. i \in Items /\ \A k \in Lists : copies[k][i] \in Nat
    BY DEF Typed, TypeOK
  <2>2. \A p \in Procs : ~Saving(p, i) /\ ~(Capturing(p) /\ job[p].item = i)
    BY DEF Busy, Saving, Capturing
  <2>3. Single(i, jlist[i])
    BY <2>1, <2>2 DEF FoldInv, AtRest
  <2>4. PICK k \in Lists : copies[k][i] > 0
    BY DEF KeptInv, InStore
  <2>5. k = jlist[i]
    BY <2>1, <2>3, <2>4 DEF Single
  <2>. QED  BY <2>1, <2>3, <2>4, <2>5 DEF Single
<1>. QED  BY <1>1, AlwaysTyped, AlwaysKept, AlwaysFolds, PTL

\* An item reopened without a destination goes back to the list it was archived from.
THEOREM ReopensGoHome == Spec => ReopenGoesHome
<1>1. ASSUME Typed, FoldInv, NEW p \in Procs, NEW i \in Items, ReopenAtHome(p, i), i \notin faulty
      PROVE  job'[p].dst = home[i]
  <2>1. lock = NoProc /\ copies[Archive][i] > 0
    BY <1>1 DEF ReopenAtHome, Begin, FoundIn
  <2>2. \A q \in Procs : ~Saving(q, i)
    BY <1>1, <2>1 DEF Typed, Shaped, Saving, Working
  <2>3. PriorList(i) = home[i]
    BY <1>1, <2>1, <2>2 DEF FoldInv, AtRest
  <2>4. job'[p].dst = PriorList(i)
    BY <1>1 DEF ReopenAtHome, Begin, Typed, TypeOK
  <2>. QED  BY <2>3, <2>4
<1>2. Typed /\ FoldInv =>
        [\A p \in Procs, i \in Items :
            ReopenAtHome(p, i) /\ i \notin faulty => job'[p].dst = home[i]]_vars
  BY <1>1
<1>. QED  BY <1>2, AlwaysTyped, AlwaysFolds, PTL DEF ReopenGoesHome

=============================================================================
