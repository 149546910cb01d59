------------------------ MODULE FleetPlacement_proofs ------------------------
(***************************************************************************)
(* FleetPlacement, for any nodes, services, controller passes and timing:   *)
(* a service runs twice only where its placement moved off a node in doubt, *)
(* and each move has a fault, or a late heartbeat, of its own.              *)
(***************************************************************************)
EXTENDS FleetPlacement, FiniteSetTheorems, TLAPS

\* What the control node has of a steady node is young enough.
Heard == \A n \in steady : /\ daemon[n] = "running" /\ n \notin cut
                           /\ seen[n] <= DeadAfter /\ beat[n] <= seen[n]

\* A pass calls dead only nodes that were in doubt, and is about to move a service
\* only off such a node, unless another pass has written in between.
Judged ==
    \A c \in Controllers :
        /\ dead[c] \subseteq doubt[c]
        /\ write[c] # NoWrite =>
              \/ write[c].service \in touched[c]
              \/ placement[write[c].service] \in dead[c] \cup {NoNode}

\* Only the owner of a service, or a ghost, has it in its copies, its pass or its units.
Held ==
    \A n \in Nodes, s \in Services :
        s \in copy[n] \/ s \in todo[n] \/ n \in units[s]
            => n = placement[s] \/ n \in ghosts[s]

IInv == TypeOK /\ Heard /\ Judged /\ Held

----------------------------------------------------------------------------

\* A tick adds one to an age, up to its maximum.
LEMMA OlderBy ==
    ASSUME NEW max \in Nat, NEW age \in 0 .. max
    PROVE  Older(age, max) \in 0 .. max /\ Older(age, max) <= age + 1
  BY DEF Older

\* No pass takes a steady node for dead.
LEMMA Window ==
    ASSUME TypeOK, Heard, NEW n \in steady
    PROVE  phase(seen[n]) # "Dead"
  BY PlacementAssumption DEF Heard, phase, TypeOK, MaxAge

\* A service outside its placement is on a ghost.
LEMMA Explained == IInv => DoubleRunExplained
  BY DEF IInv, Held, DoubleRunExplained, TypeOK

----------------------------------------------------------------------------

\* Every step keeps the types.
LEMMA TypeStep ==
    ASSUME TypeOK, [Next]_vars
    PROVE  TypeOK'
<1>. USE PlacementAssumption, NoWriteAssumption DEF TypeOK, clocks, tree, pass, history
<1>a. ASSUME NEW c \in Controllers, Return(c)
      PROVE  /\ dead' \in [Controllers -> SUBSET Nodes] /\ ready' \in [Controllers -> SUBSET Nodes]
             /\ doubt' \in [Controllers -> SUBSET Nodes]
  BY <1>a DEF Return
<1>1. ASSUME NEW n \in Nodes, StartRound(n)
      PROVE  TypeOK'
  BY <1>1 DEF StartRound, MaxAge
<1>2. ASSUME NEW n \in Nodes, NEW s \in Services, Converge(n, s)
      PROVE  TypeOK'
  <2>1. todo' \in [Nodes -> SUBSET Services]
    <3>1. todo' = [todo EXCEPT ![n] = todo[n] \ {s}]
      BY <1>2 DEF Converge
    <3>2. todo \in [Nodes -> SUBSET Services] /\ todo[n] \ {s} \in SUBSET Services
      OBVIOUS
    <3>. HIDE DEF TypeOK
    <3>. QED  BY <3>1, <3>2, Zenon
  <2>2. units' \in [Services -> SUBSET Nodes]
    <3>1. units' = units \/ units' = [units EXCEPT ![s] = units[s] \cup {n}]
      BY <1>2 DEF Converge
    <3>2. units \in [Services -> SUBSET Nodes] /\ units[s] \cup {n} \in SUBSET Nodes
      OBVIOUS
    <3>. HIDE DEF TypeOK
    <3>. QED  BY <3>1, <3>2, Zenon
  <2>. QED  BY <1>2, <2>1, <2>2 DEF Converge
<1>3. ASSUME NEW n \in Nodes, NEW s \in Services, UnitFails(n, s)
      PROVE  TypeOK'
  <2>1. units' \in [Services -> SUBSET Nodes]
    BY <1>3 DEF UnitFails
  <2>. QED  BY <1>3, <2>1 DEF UnitFails
<1>4. ASSUME NEW n \in Nodes, StopDaemon(n) \/ CutOff(n) \/ Lapse(n)
      PROVE  TypeOK'
  <2>1. faults' \in 0 .. MaxUpsets /\ edits' = edits
    BY <1>4 DEF StopDaemon, CutOff, Lapse, Fault, Upset
  <2>2. steady' \subseteq Nodes
    BY <1>4 DEF StopDaemon, CutOff, Lapse, Unsettled
  <2>3. UNCHANGED <<doubt, ghosts, moves, touched, clash>>
    BY <1>4 DEF StopDaemon, CutOff, Lapse, Unsettled
  <2>4. daemon' \in [Nodes -> {"stopped", "booting", "running"}]
    BY <1>4 DEF StopDaemon, CutOff, Lapse
  <2>5. seen' \in [Nodes -> 0 .. MaxAge]
    <3>1. seen' = seen \/ seen' = [seen EXCEPT ![n] = MaxAge]
      BY <1>4 DEF StopDaemon, CutOff, Lapse
    <3>2. seen \in [Nodes -> 0 .. MaxAge] /\ MaxAge \in 0 .. MaxAge
      BY DEF MaxAge
    <3>. HIDE DEF TypeOK
    <3>. QED  BY <3>1, <3>2
  <2>6. cut' \subseteq Nodes
    BY <1>4 DEF StopDaemon, CutOff, Lapse
  <2>7. UNCHANGED <<beat, placement, copy, spec, fits, frozen, plan, dead, ready, write, units>>
    BY <1>4 DEF StopDaemon, CutOff, Lapse
  <2>8. todo' \in [Nodes -> SUBSET Services]
    <3>1. CASE StopDaemon(n)
      <4>1. todo \in [Nodes -> SUBSET Services] /\ todo' = [todo EXCEPT ![n] = {}]
        BY <3>1 DEF StopDaemon
      <4>. HIDE DEF TypeOK
      <4>. QED  BY <4>1
    <3>2. CASE CutOff(n) \/ Lapse(n)
      BY <3>2 DEF CutOff, Lapse
    <3>. QED  BY <1>4, <3>1, <3>2
  <2>. QED  BY <2>1, <2>2, <2>3, <2>4, <2>5, <2>6, <2>7, <2>8
<1>5. ASSUME NEW n \in Nodes, StartDaemon(n) \/ Reconnect(n) \/ SyncBeat(n)
      PROVE  TypeOK'
  <2>1. daemon' \in [Nodes -> {"stopped", "booting", "running"}]
    BY <1>5 DEF StartDaemon, Reconnect, SyncBeat
  <2>2. cut' \subseteq Nodes /\ steady' \subseteq Nodes
    BY <1>5 DEF StartDaemon, Reconnect, SyncBeat
  <2>3. seen' \in [Nodes -> 0 .. MaxAge]
    BY <1>5 DEF StartDaemon, Reconnect, SyncBeat
  <2>4. UNCHANGED <<beat, todo, placement, copy, spec, fits, frozen, plan, dead, ready,
                    write, units, doubt, ghosts, moves, touched, clash, faults, edits>>
    BY <1>5 DEF StartDaemon, Reconnect, SyncBeat
  <2>. QED  BY <2>1, <2>2, <2>3, <2>4
<1>6. ASSUME NEW n \in Nodes, NEW s \in Services, SyncPlacement(n, s)
      PROVE  TypeOK'
  <2>1. copy' = [copy EXCEPT ![n] = copy[n] \cup {s}] \/ copy' = [copy EXCEPT ![n] = copy[n] \ {s}]
    BY <1>6 DEF SyncPlacement
  <2>2. copy' \in [Nodes -> SUBSET Services]
    <3>1. /\ copy \in [Nodes -> SUBSET Services]
          /\ copy[n] \cup {s} \in SUBSET Services /\ copy[n] \ {s} \in SUBSET Services
      OBVIOUS
    <3>. HIDE DEF TypeOK
    <3>. QED  BY <2>1, <3>1, Zenon
  <2>. QED  BY <1>6, <2>2 DEF SyncPlacement
<1>7. CASE Tick
  <2>1. MaxAge \in Nat
    BY DEF MaxAge
  <2>2. beat' \in [Nodes -> 0 .. MaxAge] /\ seen' \in [Nodes -> 0 .. MaxAge]
    BY <1>7, <2>1, OlderBy DEF Tick
  <2>. QED  BY <1>7, <2>2 DEF Tick
<1>8. ASSUME NEW c \in Controllers, StartReconcile(c)
      PROVE  TypeOK'
  BY <1>8 DEF StartReconcile
<1>9. ASSUME NEW c \in Controllers, NEW s \in Services, Keep(c, s) \/ Alert(c, s)
      PROVE  TypeOK'
  <2>0. Done(c, s)
    BY <1>9 DEF Keep, Alert
  <2>1. plan' \in [Controllers -> [Services -> {"auto", "manual", "done"}]]
    BY <2>0 DEF Done
  <2>2. /\ UNCHANGED <<clocks, todo, tree, write, units, steady, ghosts, moves, touched, clash,
                        faults, edits>>
        /\ Return(c)
    BY <1>9 DEF Keep, Alert
  <2>. QED  BY <1>a, <2>1, <2>2
<1>10. ASSUME NEW c \in Controllers, NEW s \in Services, Select(c, s)
       PROVE  TypeOK'
  <2>1. plan' \in [Controllers -> [Services -> {"auto", "manual", "done"}]]
    BY <1>10 DEF Select, Done
  <2>2. write' \in [Controllers -> Writes \cup {NoWrite}]
    BY <1>10 DEF Select, Writes
  <2>. QED  BY <1>10, <2>1, <2>2 DEF Select
<1>11. ASSUME NEW c \in Controllers, write_placement(c)
       PROVE  TypeOK'
  <2>1. write[c] \in Writes
    BY <1>11 DEF write_placement
  <2>. DEFINE s == write[c].service
  <2>2. s \in Services /\ write[c].to \in Nodes
    BY <2>1 DEF Writes
  <2>3. placement' \in [Services -> Nodes \cup {NoNode}]
    BY <1>11, <2>2 DEF write_placement
  <2>4. moves' \in [Services -> Nat]
    BY <1>11, <2>2 DEF write_placement
  <2>5. ghosts' \in [Services -> SUBSET Nodes]
    BY <1>11, <2>2 DEF write_placement
  <2>6. touched' \in [Controllers -> SUBSET Services]
    BY <1>11, <2>2 DEF write_placement
  <2>7. clash' \in BOOLEAN
    BY <1>11 DEF write_placement
  <2>8. write' \in [Controllers -> Writes \cup {NoWrite}]
    BY <1>11 DEF write_placement
  <2>. HIDE DEF s
  <2>. QED  BY <1>11, <1>a, <2>3, <2>4, <2>5, <2>6, <2>7, <2>8 DEF write_placement
<1>12. CASE Edit
  <2>1. faults' = faults /\ edits' \in 0 .. MaxUpsets
    BY <1>12 DEF Edit, Upset
  <2>2. spec' \in [Services -> {"auto", "manual", "deleted"}]
    BY <1>12 DEF Edit
  <2>3. fits' \subseteq Nodes /\ frozen' \in BOOLEAN
    BY <1>12 DEF Edit
  <2>4. UNCHANGED <<clocks, todo, placement, copy, pass, units, history>>
    BY <1>12 DEF Edit
  <2>. QED  BY <2>1, <2>2, <2>3, <2>4
<1>13. CASE UNCHANGED vars
  BY <1>13 DEF vars
<1>. QED
  BY <1>1, <1>2, <1>3, <1>4, <1>5, <1>6, <1>7, <1>8, <1>9, <1>10, <1>11, <1>12, <1>13
     DEF Next, DaemonStep, Sync, PassStep, PassGoesOn
----------------------------------------------------------------------------

\* The control node has heard of every steady node in time: what comes too late is
\* a lapse.
LEMMA HeardStep ==
    ASSUME TypeOK, Heard, [Next]_vars
    PROVE  Heard'
<1>. USE PlacementAssumption
<1>. DEFINE Fine(m) == /\ daemon[m] = "running" /\ m \notin cut
                       /\ seen[m] <= DeadAfter /\ beat[m] <= seen[m]
<1>0. \A m \in steady : m \in Nodes /\ Fine(m) /\ beat[m] \in Nat /\ seen[m] \in Nat
  BY DEF Heard, TypeOK, MaxAge
<1>1. ASSUME NEW n \in Nodes, StartRound(n), NEW m \in steady'
      PROVE  Fine(m)'
  <2>1. m \in steady /\ seen' = seen /\ cut' = cut
    BY <1>1 DEF StartRound, history
  <2>2. daemon'[m] = "running" /\ beat'[m] \in {0, beat[m]}
    BY <1>0, <1>1, <2>1 DEF StartRound, TypeOK
  <2>. QED  BY <1>0, <2>1, <2>2
<1>2. ASSUME NEW n \in Nodes, StopDaemon(n) \/ CutOff(n) \/ Lapse(n), NEW m \in steady'
      PROVE  Fine(m)'
  <2>1. m \in steady /\ m # n
    BY <1>2 DEF StopDaemon, CutOff, Lapse, Unsettled
  <2>2. daemon'[m] = daemon[m] /\ (m \in cut' <=> m \in cut) /\ seen'[m] = seen[m] /\ beat' = beat
    BY <1>0, <1>2, <2>1 DEF StopDaemon, CutOff, Lapse, TypeOK
  <2>. QED  BY <1>0, <2>1, <2>2
<1>3. ASSUME NEW n \in Nodes, StartDaemon(n) \/ Reconnect(n), NEW m \in steady'
      PROVE  Fine(m)'
  <2>1. m \in steady /\ seen' = seen /\ beat' = beat
    BY <1>3 DEF StartDaemon, Reconnect, history
  <2>2. daemon'[m] = daemon[m] /\ m \notin cut'
    BY <1>0, <1>3, <2>1 DEF StartDaemon, Reconnect, TypeOK
  <2>. QED  BY <1>0, <2>1, <2>2
<1>4. ASSUME NEW n \in Nodes, SyncBeat(n), NEW m \in steady'
      PROVE  Fine(m)'
  <2>1. /\ UNCHANGED <<daemon, cut, beat>> /\ n \notin cut
        /\ seen' = [seen EXCEPT ![n] = beat[n]]
    BY <1>4 DEF SyncBeat
  <2>2. CASE m = n
    <3>1. seen'[m] = beat[m] /\ beat[m] \in Nat
      BY <2>1, <2>2 DEF TypeOK, MaxAge
    <3>2. CASE m \in steady
      BY <1>0, <2>1, <3>1, <3>2
    <3>3. CASE m \notin steady
      BY <1>4, <2>1, <2>2, <3>1, <3>3 DEF SyncBeat
    <3>. QED  BY <3>2, <3>3
  <2>3. CASE m # n
    <3>1. m \in steady
      BY <1>4, <2>3 DEF SyncBeat
    <3>2. seen'[m] = seen[m]
      BY <1>0, <2>1, <2>3, <3>1 DEF TypeOK
    <3>. QED  BY <1>0, <2>1, <3>1, <3>2
  <2>. QED  BY <2>2, <2>3
<1>5. ASSUME Tick, NEW m \in steady'
      PROVE  Fine(m)'
  <2>1. m \in steady /\ m \in Nodes /\ daemon' = daemon /\ cut' = cut
    BY <1>0, <1>5 DEF Tick, history
  <2>2. /\ MaxAge \in Nat /\ seen[m] \in 0 .. MaxAge /\ seen'[m] = Older(seen[m], MaxAge)
        /\ beat[m] \in 0 .. MaxAge /\ beat'[m] = Older(beat[m], MaxAge)
    BY <1>5, <2>1 DEF TypeOK, MaxAge, Tick
  <2>3. seen[m] # DeadAfter
    BY <1>0, <1>5, <2>1 DEF Tick, Awaited
  <2>. QED  BY <1>0, <2>1, <2>2, <2>3 DEF Older, MaxAge
<1>6. ASSUME UNCHANGED <<clocks, steady>>, NEW m \in steady'
      PROVE  Fine(m)'
  BY <1>0, <1>6 DEF clocks
<1>7. \/ \E n \in Nodes : \/ StartRound(n) \/ StopDaemon(n) \/ CutOff(n) \/ Lapse(n)
                          \/ StartDaemon(n) \/ Reconnect(n) \/ SyncBeat(n)
      \/ Tick \/ UNCHANGED <<clocks, steady>>
  <2>1. ASSUME NEW n \in Nodes, NEW s \in Services,
               Converge(n, s) \/ UnitFails(n, s) \/ SyncPlacement(n, s)
        PROVE  UNCHANGED <<clocks, steady>>
    BY <2>1 DEF Converge, UnitFails, SyncPlacement, history
  <2>2. ASSUME NEW c \in Controllers, PassStep(c)
        PROVE  UNCHANGED <<clocks, steady>>
    BY <2>2 DEF PassStep, PassGoesOn, StartReconcile, Keep, Select, Alert, write_placement, history
  <2>. QED
    BY <2>1, <2>2 DEF Next, DaemonStep, Sync, Edit, vars, history
<1>8. \A m \in steady' : Fine(m)'
  BY <1>1, <1>2, <1>3, <1>4, <1>5, <1>6, <1>7
<1>. QED  BY <1>8 DEF Heard

\* A pass knows as dead no more than it knows to be in doubt, and its decisions
\* stand until another pass writes.
LEMMA JudgedStep ==
    ASSUME IInv, [Next]_vars
    PROVE  Judged'
<1>. DEFINE Right(k) ==
         /\ dead[k] \subseteq doubt[k]
         /\ write[k] # NoWrite =>
               \/ write[k].service \in touched[k]
               \/ placement[write[k].service] \in dead[k] \cup {NoNode}
<1>0. TypeOK /\ \A k \in Controllers : Right(k)
  BY DEF IInv, Judged
<1>a. ASSUME NEW c \in Controllers, Return(c), NEW k \in Controllers
      PROVE  /\ k # c => dead'[k] = dead[k] /\ doubt'[k] = doubt[k]
             /\ \/ dead'[k] = dead[k] /\ doubt'[k] = doubt[k]
                \/ dead'[k] = {} /\ write'[k] = NoWrite
  BY <1>0, <1>a DEF Return, TypeOK
<1>1. ASSUME NEW c \in Controllers, StartReconcile(c), NEW k \in Controllers
      PROVE  Right(k)'
  <2>1. UNCHANGED <<write, placement>>
    BY <1>1 DEF StartReconcile, tree
  <2>2. CASE k = c
    <3>1. dead'[k] = {n \in Nodes : phase(seen[n]) = "Dead"} /\ doubt'[k] = Nodes \ steady
      BY <1>0, <1>1, <2>2 DEF StartReconcile, TypeOK
    <3>2. dead'[k] \subseteq doubt'[k]
      <4>1. \A n \in steady : phase(seen[n]) # "Dead"
        BY Window DEF IInv
      <4>. QED  BY <3>1, <4>1
    <3>3. write'[k] = NoWrite
      BY <1>1, <2>1, <2>2 DEF StartReconcile
    <3>. QED  BY <3>2, <3>3
  <2>3. CASE k # c
    <3>1. dead'[k] = dead[k] /\ doubt'[k] = doubt[k] /\ touched'[k] = touched[k]
      BY <1>0, <1>1, <2>3 DEF StartReconcile, TypeOK
    <3>. QED  BY <1>0, <2>1, <3>1
  <2>. QED  BY <2>2, <2>3
<1>2. ASSUME NEW c \in Controllers, NEW s \in Services, Select(c, s), NEW k \in Controllers
      PROVE  Right(k)'
  <2>1. UNCHANGED <<dead, doubt, touched, placement>>
    BY <1>2 DEF Select, tree, history
  <2>2. CASE k = c
    <3>1. PICK n \in ready[c] : write' = [write EXCEPT ![c] = [service |-> s, to |-> n]]
      BY <1>2 DEF Select
    <3>2. write'[k].service = s
      BY <1>0, <2>2, <3>1 DEF TypeOK
    <3>3. placement[s] \in dead[c] \cup {NoNode}
      BY <1>2 DEF Select, Wanted
    <3>. QED  BY <1>0, <2>1, <2>2, <3>2, <3>3
  <2>3. CASE k # c
    <3>1. write'[k] = write[k]
      BY <1>0, <1>2, <2>3 DEF Select, TypeOK
    <3>. QED  BY <1>0, <2>1, <3>1
  <2>. QED  BY <2>2, <2>3
<1>3. ASSUME NEW c \in Controllers, write_placement(c), NEW k \in Controllers
      PROVE  Right(k)'
  <2>. DEFINE s == write[c].service
  <2>1. s \in Services /\ Return(c)
    BY <1>0, <1>3 DEF write_placement, TypeOK, Writes
  <2>2. CASE k = c
    <3>1. write'[k] = NoWrite
      BY <1>0, <1>3, <2>2 DEF write_placement, TypeOK
    <3>. QED  BY <1>0, <2>1, <2>2, <3>1, <1>a
  <2>3. CASE k # c
    <3>0. dead'[k] = dead[k] /\ doubt'[k] = doubt[k]
      BY <1>a, <2>1, <2>3
    <3>1. write'[k] = write[k] /\ touched'[k] = touched[k] \cup {s}
      BY <1>0, <1>3, <2>3 DEF write_placement, TypeOK
    <3>2. \A t \in Services : t # s => placement'[t] = placement[t]
      BY <1>0, <1>3 DEF write_placement, TypeOK
    <3>3. write[k] # NoWrite => write[k].service \in Services
      BY <1>0 DEF TypeOK, Writes
    <3>. HIDE DEF s
    <3>. QED  BY <1>0, <2>1, <3>0, <3>1, <3>2, <3>3
  <2>. QED  BY <2>2, <2>3
<1>4. ASSUME NEW c \in Controllers, NEW s \in Services, Keep(c, s) \/ Alert(c, s),
             NEW k \in Controllers
      PROVE  Right(k)'
  <2>1. UNCHANGED <<write, placement, touched>> /\ Return(c)
    BY <1>4 DEF Keep, Alert, tree
  <2>. QED  BY <1>0, <1>a, <2>1
<1>5. ASSUME UNCHANGED <<dead, doubt, write, placement, touched>>, NEW k \in Controllers
      PROVE  Right(k)'
  BY <1>0, <1>5
<1>6. \/ \E c \in Controllers : \/ StartReconcile(c) \/ write_placement(c)
                                \/ \E s \in Services : Keep(c, s) \/ Select(c, s) \/ Alert(c, s)
      \/ UNCHANGED <<dead, doubt, write, placement, touched>>
  <2>1. ASSUME NEW n \in Nodes,
               \/ StartRound(n) \/ StopDaemon(n) \/ CutOff(n) \/ Lapse(n)
               \/ StartDaemon(n) \/ Reconnect(n) \/ SyncBeat(n)
        PROVE  UNCHANGED <<dead, doubt, write, placement, touched>>
    BY <2>1 DEF StartRound, StopDaemon, CutOff, Lapse, Unsettled, StartDaemon, Reconnect, SyncBeat,
                tree, pass, history
  <2>2. ASSUME NEW n \in Nodes, NEW s \in Services,
               Converge(n, s) \/ UnitFails(n, s) \/ SyncPlacement(n, s)
        PROVE  UNCHANGED <<dead, doubt, write, placement, touched>>
    BY <2>2 DEF Converge, UnitFails, SyncPlacement, tree, pass, history
  <2>4. Tick \/ Edit \/ UNCHANGED vars => UNCHANGED <<dead, doubt, write, placement, touched>>
    BY DEF Tick, Edit, vars, tree, pass, history
  <2>. QED  BY <2>1, <2>2, <2>4 DEF Next, DaemonStep, Sync, PassStep, PassGoesOn
<1>7. \A k \in Controllers : Right(k)'
  BY <1>1, <1>2, <1>3, <1>4, <1>5, <1>6
<1>. QED  BY <1>7 DEF Judged

\* Whoever loses a service by a move becomes a ghost of it.
LEMMA HeldStep ==
    ASSUME IInv, [Next]_vars
    PROVE  Held'
<1>. DEFINE Has(m, t)  == t \in copy[m] \/ t \in todo[m] \/ m \in units[t]
            Mine(m, t) == m = placement[t] \/ m \in ghosts[t]
<1>0. TypeOK /\ \A m \in Nodes, t \in Services : Has(m, t) => Mine(m, t)
  BY DEF IInv, Held
<1>1. ASSUME NEW n \in Nodes, StartRound(n) \/ StopDaemon(n), NEW m \in Nodes, NEW t \in Services
      PROVE  (Has(m, t) => Mine(m, t))'
  <2>1. UNCHANGED <<copy, units, placement, ghosts>>
    BY <1>1 DEF StartRound, StopDaemon, Unsettled, tree, history
  <2>2. t \in todo'[m] => t \in todo[m] \/ t \in copy[m]
    <3>. todo \in [Nodes -> SUBSET Services]
      BY <1>0 DEF TypeOK
    <3>1. CASE StartRound(n)
      <4>1. todo' = [todo EXCEPT ![n] = copy[n]]
        BY <3>1 DEF StartRound
      <4>. QED  BY <4>1
    <3>2. CASE StopDaemon(n)
      <4>1. todo' = [todo EXCEPT ![n] = {}]
        BY <3>2 DEF StopDaemon
      <4>. QED  BY <4>1
    <3>. QED  BY <1>1, <3>1, <3>2
  <2>. QED  BY <1>0, <2>1, <2>2
<1>2. ASSUME NEW n \in Nodes, NEW s \in Services, Converge(n, s) \/ UnitFails(n, s),
             NEW m \in Nodes, NEW t \in Services
      PROVE  (Has(m, t) => Mine(m, t))'
  <2>1. UNCHANGED <<copy, placement, ghosts>>
    BY <1>2 DEF Converge, UnitFails, tree, history
  <2>2. t \in todo'[m] => t \in todo[m]
    <3>1. todo' = todo \/ todo' = [todo EXCEPT ![n] = todo[n] \ {s}]
      BY <1>2 DEF Converge, UnitFails
    <3>2. todo \in [Nodes -> SUBSET Services]
      BY <1>0 DEF TypeOK
    <3>3. CASE m = n
      BY <3>1, <3>2, <3>3
    <3>4. CASE m # n
      BY <3>1, <3>2, <3>4, Zenon
    <3>. QED  BY <3>3, <3>4
  <2>3. m \in units'[t] => m \in units[t] \/ t \in todo[m]
    <3>. units \in [Services -> SUBSET Nodes]
      BY <1>0 DEF TypeOK
    <3>1. CASE UnitFails(n, s)
      <4>1. units' = [units EXCEPT ![s] = units[s] \ {n}]
        BY <3>1 DEF UnitFails
      <4>. QED  BY <4>1
    <3>2. CASE Converge(n, s)
      <4>1. s \in todo[n] /\ (units' = units \/ units' = [units EXCEPT ![s] = units[s] \cup {n}])
        BY <3>2 DEF Converge
      <4>. QED  BY <4>1
    <3>. QED  BY <1>2, <3>1, <3>2
  <2>. QED  BY <1>0, <2>1, <2>2, <2>3
<1>3. ASSUME NEW n \in Nodes, NEW s \in Services, SyncPlacement(n, s),
             NEW m \in Nodes, NEW t \in Services
      PROVE  (Has(m, t) => Mine(m, t))'
  <2>1. UNCHANGED <<todo, units, placement, ghosts>>
    BY <1>3 DEF SyncPlacement, history
  <2>2. t \in copy'[m] => t \in copy[m] \/ placement[t] = m
    <3>0. copy \in [Nodes -> SUBSET Services]
      BY <1>0 DEF TypeOK
    <3>1. CASE placement[s] = n
      BY <1>3, <3>0, <3>1 DEF SyncPlacement
    <3>2. CASE placement[s] # n
      BY <1>3, <3>0, <3>2 DEF SyncPlacement
    <3>. QED  BY <3>1, <3>2
  <2>. QED  BY <1>0, <2>1, <2>2
<1>4. ASSUME NEW c \in Controllers, write_placement(c), NEW m \in Nodes, NEW t \in Services
      PROVE  (Has(m, t) => Mine(m, t))'
  <2>. DEFINE s == write[c].service
              old == placement[s]
              new == write[c].to
  <2>1. UNCHANGED <<copy, todo, units>> /\ s \in Services /\ new \in Nodes
    BY <1>0, <1>4 DEF write_placement, TypeOK, Writes
  <2>2. placement'[t] = IF t = s THEN new ELSE placement[t]
    BY <1>0, <1>4 DEF write_placement, TypeOK
  <2>3. ghosts[t] \subseteq ghosts'[t]
    BY <1>0, <1>4 DEF write_placement, TypeOK
  <2>4. CASE t = s /\ m = old /\ m # new
    <3>1. old # NoNode
      BY <2>4, PlacementAssumption
    <3>2. old \in doubt[c] \/ s \in touched[c]
      BY <1>4, <3>1 DEF write_placement, IInv, Judged
    <3>3. ghosts' = [ghosts EXCEPT ![s] = ghosts[s] \cup {old}]
      BY <1>4, <2>4, <3>1, <3>2 DEF write_placement
    <3>4. m \in ghosts'[t]
      BY <1>0, <2>1, <2>4, <3>3 DEF TypeOK
    <3>. QED  BY <3>4
  <2>5. CASE ~ (t = s /\ m = old /\ m # new)
    <3>1. Mine(m, t) => Mine(m, t)'
      BY <2>2, <2>3, <2>5
    <3>. QED  BY <1>0, <2>1, <3>1
  <2>. QED  BY <2>4, <2>5
<1>5. ASSUME UNCHANGED <<copy, todo, units, placement, ghosts>>, NEW m \in Nodes, NEW t \in Services
      PROVE  (Has(m, t) => Mine(m, t))'
  BY <1>0, <1>5
<1>6. \/ \E n \in Nodes : \/ StartRound(n) \/ StopDaemon(n)
                          \/ \E s \in Services : \/ Converge(n, s) \/ UnitFails(n, s)
                                                 \/ SyncPlacement(n, s)
      \/ \E c \in Controllers : write_placement(c)
      \/ UNCHANGED <<copy, todo, units, placement, ghosts>>
  <2>1. ASSUME NEW n \in Nodes,
               CutOff(n) \/ Lapse(n) \/ StartDaemon(n) \/ Reconnect(n) \/ SyncBeat(n)
        PROVE  UNCHANGED <<copy, todo, units, placement, ghosts>>
    BY <2>1 DEF CutOff, Lapse, Unsettled, StartDaemon, Reconnect, SyncBeat, tree, history
  <2>2. ASSUME NEW c \in Controllers, StartReconcile(c)
        PROVE  UNCHANGED <<copy, todo, units, placement, ghosts>>
    BY <2>2 DEF StartReconcile, tree
  <2>3. ASSUME NEW c \in Controllers, NEW s \in Services, Keep(c, s) \/ Select(c, s) \/ Alert(c, s)
        PROVE  UNCHANGED <<copy, todo, units, placement, ghosts>>
    BY <2>3 DEF Keep, Select, Alert, tree, history
  <2>4. Tick \/ Edit \/ UNCHANGED vars => UNCHANGED <<copy, todo, units, placement, ghosts>>
    BY DEF Tick, Edit, vars, tree, history
  <2>. QED  BY <2>1, <2>2, <2>3, <2>4 DEF Next, DaemonStep, Sync, PassStep, PassGoesOn
<1>7. \A m \in Nodes, t \in Services : (Has(m, t) => Mine(m, t))'
  BY <1>1, <1>2, <1>3, <1>4, <1>5, <1>6
<1>. QED  BY <1>7 DEF Held

----------------------------------------------------------------------------

\* The invariant holds at the start, and every step keeps it.
LEMMA Inductive == Spec => []IInv
<1>1. Init => IInv
  <2>. SUFFICES ASSUME Init PROVE IInv
    OBVIOUS
  <2>. USE PlacementAssumption, NoWriteAssumption DEF Init
  <2>1. MaxAge \in Nat
    BY DEF MaxAge
  <2>2. TypeOK
    <3>1. /\ beat \in [Nodes -> 0 .. MaxAge] /\ seen \in [Nodes -> 0 .. MaxAge]
          /\ moves \in [Services -> Nat] /\ faults \in 0 .. MaxUpsets /\ edits \in 0 .. MaxUpsets
      BY <2>1
    <3>2. spec \in [Services -> {"auto", "manual", "deleted"}]
      OBVIOUS
    <3>3. /\ plan \in [Controllers -> [Services -> {"auto", "manual", "done"}]]
          /\ dead \in [Controllers -> SUBSET Nodes] /\ ready \in [Controllers -> SUBSET Nodes]
          /\ write \in [Controllers -> Writes \cup {NoWrite}]
          /\ doubt \in [Controllers -> SUBSET Nodes]
          /\ touched \in [Controllers -> SUBSET Services]
      OBVIOUS
    <3>4. /\ daemon \in [Nodes -> {"stopped", "booting", "running"}]
          /\ todo \in [Nodes -> SUBSET Services] /\ cut \subseteq Nodes
          /\ placement \in [Services -> Nodes \cup {NoNode}]
          /\ copy \in [Nodes -> SUBSET Services]
          /\ fits \subseteq Nodes /\ frozen \in BOOLEAN /\ clash \in BOOLEAN
          /\ units \in [Services -> SUBSET Nodes] /\ steady \subseteq Nodes
          /\ ghosts \in [Services -> SUBSET Nodes]
      OBVIOUS
    <3>. QED  BY <3>1, <3>2, <3>3, <3>4 DEF TypeOK
  <2>3. Heard /\ Judged
    BY DEF Heard, Judged
  <2>4. Held
    BY DEF Held
  <2>. QED  BY <2>2, <2>3, <2>4 DEF IInv
<1>2. IInv /\ [Next]_vars => IInv'
  BY TypeStep, HeardStep, JudgedStep, HeldStep DEF IInv
<1>. QED  BY <1>1, <1>2, PTL DEF Spec

\* Every variable keeps its type, whatever the nodes, passes and bounds.
THEOREM TypeCorrect == Spec => []TypeOK
<1>1. IInv => TypeOK
  BY DEF IInv
<1>. QED  BY <1>1, Inductive, PTL

\* A service runs outside its placement only where it was moved off a node in doubt,
\* or two passes overlapped (service_controller.reconcile_once, converge_service).
THEOREM DoubleRunsExplained == Spec => []DoubleRunExplained
<1>. QED  BY Explained, Inductive, PTL

----------------------------------------------------------------------------
(***************************************************************************)
(* Every move of a service has a fault of its own.  A node comes into doubt *)
(* by a fault, and a move off it uses the fault up.  Faults not used up are *)
(* counted: one for each node that is not steady and may yet be found dead  *)
(* with the service on it, one for each stopped node with a heartbeat that  *)
(* may yet make it look alive again, and one while a pass is about to move  *)
(* the service.                                                             *)
(***************************************************************************)

\* Passes under way that may still place s, if no other has.
Passes(s) == {c \in Controllers : /\ s \notin touched[c]
                                  /\ \/ plan[c][s] # "done" /\ Wanted(c, s)
                                     \/ write[c] # NoWrite /\ write[c].service = s}

Leaving(s) == placement[s] # NoNode /\ Passes(s) # {}

\* The nodes s may be found dead on, now or after such a pass.
Exposed(s) == {n \in Nodes \ steady :
                  \/ seen[n] <= DeadAfter
                  \/ \E c \in Passes(s) : n \in ready[c]
                  \/ placement[s] = n /\ ~Leaving(s)}

\* The heartbeat is on its way, and the last one is not too old.
InTime(n) == n \notin cut /\ seen[n] <= DeadAfter

\* The nodes that will look alive though they are down.
Unheard == {n \in Nodes : /\ daemon[n] # "running" /\ beat[n] <= DeadAfter
                          /\ seen[n] # beat[n] /\ ~InTime(n)}

\* What is written was selected.
Intent == \A c \in Controllers : write[c] # NoWrite =>
             write[c].to \in ready[c] /\ plan[c][write[c].service] = "done"

Due(s) == IF Leaving(s) THEN 1 ELSE 0
Paid(s) == /\ IsFiniteSet(Exposed(s)) /\ IsFiniteSet(Unheard)
           /\ moves[s] + Due(s) + Cardinality(Exposed(s)) + Cardinality(Unheard) <= faults

MovesInv == Intent /\ (~clash => \A s \in Services : Paid(s))

\* A part of a finite set.
LEMMA Part ==
    ASSUME NEW S, IsFiniteSet(S), NEW T, T \subseteq S
    PROVE  /\ IsFiniteSet(T) /\ Cardinality(T) <= Cardinality(S)
           /\ Cardinality(T) \in Nat /\ Cardinality(S) \in Nat
BY FS_Subset, FS_CardinalityType

\* A finite set with one more element.
LEMMA OneMore ==
    ASSUME NEW S, IsFiniteSet(S), NEW x, NEW T, T \subseteq S \cup {x}
    PROVE  /\ IsFiniteSet(T) /\ Cardinality(T) <= Cardinality(S) + 1
           /\ Cardinality(T) \in Nat /\ Cardinality(S) \in Nat
<1>1. /\ IsFiniteSet(S \cup {x}) /\ Cardinality(S) \in Nat
      /\ Cardinality(S \cup {x}) \in {Cardinality(S), Cardinality(S) + 1}
  BY FS_AddElement, FS_CardinalityType
<1>. QED  BY <1>1, Part

\* A finite set with one element less.
LEMMA OneLess ==
    ASSUME NEW S, IsFiniteSet(S), NEW x \in S, NEW T, T \subseteq S \ {x}
    PROVE  /\ IsFiniteSet(T) /\ Cardinality(T) <= Cardinality(S) - 1
           /\ Cardinality(T) \in Nat /\ Cardinality(S) \in Nat
<1>1. IsFiniteSet(S \ {x}) /\ Cardinality(S) \in Nat /\ Cardinality(S \ {x}) = Cardinality(S) - 1
  BY FS_RemoveElement, FS_CardinalityType
<1>. QED  BY <1>1, Part

\* The account of a service stays in order when nothing new is charged to it.
LEMMA NothingCharged ==
    ASSUME TypeOK, NEW s \in Services, Paid(s), Exposed(s)' \subseteq Exposed(s),
           Unheard' \subseteq Unheard, Leaving(s)' => Leaving(s),
           moves'[s] = moves[s], faults' = faults
    PROVE  Paid(s)'
<1>1. /\ IsFiniteSet(Exposed(s)') /\ Cardinality(Exposed(s)') <= Cardinality(Exposed(s))
      /\ Cardinality(Exposed(s)') \in Nat /\ Cardinality(Exposed(s)) \in Nat
  BY Part DEF Paid
<1>2. /\ IsFiniteSet(Unheard') /\ Cardinality(Unheard') <= Cardinality(Unheard)
      /\ Cardinality(Unheard') \in Nat /\ Cardinality(Unheard) \in Nat
  BY Part DEF Paid
<1>3. Due(s)' <= Due(s) /\ Due(s)' \in Nat /\ Due(s) \in Nat
  BY DEF Due
<1>4. moves[s] \in Nat /\ faults \in Nat
  BY PlacementAssumption DEF TypeOK
<1>. QED  BY <1>1, <1>2, <1>3, <1>4 DEF Paid

\* A fault pays for one node more.
LEMMA FaultCharged ==
    ASSUME TypeOK, NEW s \in Services, Paid(s), NEW n,
           \/ Exposed(s)' \subseteq Exposed(s) \cup {n} /\ Unheard' \subseteq Unheard
           \/ Exposed(s)' \subseteq Exposed(s) /\ Unheard' \subseteq Unheard \cup {n},
           Leaving(s)' => Leaving(s), moves'[s] = moves[s], faults' = faults + 1
    PROVE  Paid(s)'
<1>0. IsFiniteSet(Exposed(s)) /\ IsFiniteSet(Unheard)
  BY DEF Paid
<1>3. Due(s)' <= Due(s) /\ Due(s)' \in Nat /\ Due(s) \in Nat
  BY DEF Due
<1>4. moves[s] \in Nat /\ faults \in Nat
  BY PlacementAssumption DEF TypeOK
<1>5. /\ IsFiniteSet(Exposed(s)') /\ IsFiniteSet(Unheard')
      /\ Cardinality(Exposed(s)') \in Nat /\ Cardinality(Exposed(s)) \in Nat
      /\ Cardinality(Unheard') \in Nat /\ Cardinality(Unheard) \in Nat
      /\ Cardinality(Exposed(s)') + Cardinality(Unheard')
            <= Cardinality(Exposed(s)) + Cardinality(Unheard) + 1
  <2>1. CASE Exposed(s)' \subseteq Exposed(s) \cup {n} /\ Unheard' \subseteq Unheard
    <3>1. /\ IsFiniteSet(Exposed(s)') /\ Cardinality(Exposed(s)') <= Cardinality(Exposed(s)) + 1
          /\ Cardinality(Exposed(s)') \in Nat /\ Cardinality(Exposed(s)) \in Nat
      BY <1>0, <2>1, OneMore
    <3>2. /\ IsFiniteSet(Unheard') /\ Cardinality(Unheard') <= Cardinality(Unheard)
          /\ Cardinality(Unheard') \in Nat /\ Cardinality(Unheard) \in Nat
      BY <1>0, <2>1, Part
    <3>. QED  BY <3>1, <3>2
  <2>2. CASE Exposed(s)' \subseteq Exposed(s) /\ Unheard' \subseteq Unheard \cup {n}
    <3>1. /\ IsFiniteSet(Exposed(s)') /\ Cardinality(Exposed(s)') <= Cardinality(Exposed(s))
          /\ Cardinality(Exposed(s)') \in Nat /\ Cardinality(Exposed(s)) \in Nat
      BY <1>0, <2>2, Part
    <3>2. /\ IsFiniteSet(Unheard') /\ Cardinality(Unheard') <= Cardinality(Unheard) + 1
          /\ Cardinality(Unheard') \in Nat /\ Cardinality(Unheard) \in Nat
      BY <1>0, <2>2, OneMore
    <3>. QED  BY <3>1, <3>2
  <2>. QED  BY <2>1, <2>2
<1>. QED  BY <1>3, <1>4, <1>5 DEF Paid

\* A down node that looks alive again was unheard.
LEMMA DownHeard ==
    ASSUME TypeOK, NEW s \in Services, Paid(s), NEW n \in Unheard,
           Exposed(s)' \subseteq Exposed(s) \cup {n}, Unheard' \subseteq Unheard \ {n},
           Leaving(s)' => Leaving(s), moves'[s] = moves[s], faults' = faults
    PROVE  Paid(s)'
<1>0. IsFiniteSet(Exposed(s)) /\ IsFiniteSet(Unheard)
  BY DEF Paid
<1>1. /\ IsFiniteSet(Exposed(s)') /\ Cardinality(Exposed(s)') <= Cardinality(Exposed(s)) + 1
      /\ Cardinality(Exposed(s)') \in Nat /\ Cardinality(Exposed(s)) \in Nat
  BY <1>0, OneMore
<1>2. /\ IsFiniteSet(Unheard') /\ Cardinality(Unheard') <= Cardinality(Unheard) - 1
      /\ Cardinality(Unheard') \in Nat /\ Cardinality(Unheard) \in Nat
  BY <1>0, OneLess
<1>3. Due(s)' <= Due(s) /\ Due(s)' \in Nat /\ Due(s) \in Nat
  BY DEF Due
<1>4. moves[s] \in Nat /\ faults \in Nat
  BY PlacementAssumption DEF TypeOK
<1>. QED  BY <1>1, <1>2, <1>3, <1>4 DEF Paid

\* A pass that is about to move s off a node takes that node's fault.
LEMMA PassTakes ==
    ASSUME TypeOK, NEW s \in Services, Paid(s), NEW n \in Exposed(s),
           Exposed(s)' \subseteq Exposed(s) \ {n}, Unheard' \subseteq Unheard,
           moves'[s] = moves[s], faults' = faults
    PROVE  Paid(s)'
<1>0. IsFiniteSet(Exposed(s)) /\ IsFiniteSet(Unheard)
  BY DEF Paid
<1>1. /\ IsFiniteSet(Exposed(s)') /\ Cardinality(Exposed(s)') <= Cardinality(Exposed(s)) - 1
      /\ Cardinality(Exposed(s)') \in Nat /\ Cardinality(Exposed(s)) \in Nat
  BY <1>0, OneLess
<1>2. /\ IsFiniteSet(Unheard') /\ Cardinality(Unheard') <= Cardinality(Unheard)
      /\ Cardinality(Unheard') \in Nat /\ Cardinality(Unheard) \in Nat
  BY <1>0, Part
<1>3. Due(s)' <= Due(s) + 1 /\ Due(s)' \in Nat /\ Due(s) \in Nat
  BY DEF Due
<1>4. moves[s] \in Nat /\ faults \in Nat
  BY PlacementAssumption DEF TypeOK
<1>. QED  BY <1>1, <1>2, <1>3, <1>4 DEF Paid

\* It gives the fault back when it does not move s.
LEMMA PassReturns ==
    ASSUME TypeOK, NEW s \in Services, Paid(s), Leaving(s), ~Leaving(s)', NEW n,
           Exposed(s)' \subseteq Exposed(s) \cup {n}, Unheard' \subseteq Unheard,
           moves'[s] = moves[s], faults' = faults
    PROVE  Paid(s)'
<1>0. IsFiniteSet(Exposed(s)) /\ IsFiniteSet(Unheard)
  BY DEF Paid
<1>1. /\ IsFiniteSet(Exposed(s)') /\ Cardinality(Exposed(s)') <= Cardinality(Exposed(s)) + 1
      /\ Cardinality(Exposed(s)') \in Nat /\ Cardinality(Exposed(s)) \in Nat
  BY <1>0, OneMore
<1>2. /\ IsFiniteSet(Unheard') /\ Cardinality(Unheard') <= Cardinality(Unheard)
      /\ Cardinality(Unheard') \in Nat /\ Cardinality(Unheard) \in Nat
  BY <1>0, Part
<1>3. Due(s)' = 0 /\ Due(s) = 1
  BY DEF Due
<1>4. moves[s] \in Nat /\ faults \in Nat
  BY PlacementAssumption DEF TypeOK
<1>. QED  BY <1>1, <1>2, <1>3, <1>4 DEF Paid

\* A move uses up what the pass took.
LEMMA MovePaid ==
    ASSUME TypeOK, NEW s \in Services, Paid(s), ~Leaving(s)',
           moves'[s] = moves[s] \/ (Leaving(s) /\ moves'[s] = moves[s] + 1),
           Exposed(s)' \subseteq Exposed(s), Unheard' \subseteq Unheard, faults' = faults
    PROVE  Paid(s)'
<1>1. /\ IsFiniteSet(Exposed(s)') /\ Cardinality(Exposed(s)') <= Cardinality(Exposed(s))
      /\ Cardinality(Exposed(s)') \in Nat /\ Cardinality(Exposed(s)) \in Nat
  BY Part DEF Paid
<1>2. /\ IsFiniteSet(Unheard') /\ Cardinality(Unheard') <= Cardinality(Unheard)
      /\ Cardinality(Unheard') \in Nat /\ Cardinality(Unheard) \in Nat
  BY Part DEF Paid
<1>3. Due(s)' = 0 /\ Due(s) \in Nat /\ (Leaving(s) => Due(s) = 1)
  BY DEF Due
<1>4. moves[s] \in Nat /\ faults \in Nat
  BY PlacementAssumption DEF TypeOK
<1>. QED  BY <1>1, <1>2, <1>3, <1>4 DEF Paid

\* A fault leaves at most its own node unheard, and that only if it was in doubt.
LEMMA FaultUnheard ==
    ASSUME TypeOK, Heard, NEW n \in Nodes, StopDaemon(n) \/ CutOff(n) \/ Lapse(n)
    PROVE  Unheard' \subseteq Unheard \cup {n} /\ (n \in steady => Unheard' \subseteq Unheard)
<1>1. beat' = beat /\ \A m \in Nodes \ {n} : seen'[m] = seen[m]
  BY DEF StopDaemon, CutOff, Lapse, TypeOK
<1>2. \A m \in Nodes \ {n} : daemon'[m] = daemon[m] /\ (m \in cut' <=> m \in cut)
  BY DEF StopDaemon, CutOff, Lapse, TypeOK
<1>3. Unheard' \subseteq Unheard \cup {n}
  BY <1>1, <1>2 DEF Unheard, InTime
<1>4. ASSUME n \in steady PROVE n \notin Unheard'
  <2>1. daemon[n] = "running" /\ n \notin cut /\ seen[n] <= DeadAfter
    BY <1>4 DEF Heard
  <2>2. CASE StopDaemon(n)
    BY <1>1, <2>1, <2>2 DEF StopDaemon, Unheard, InTime
  <2>3. CASE CutOff(n) \/ Lapse(n)
    BY <2>1, <2>3 DEF CutOff, Lapse, Unheard
  <2>. QED  BY <2>2, <2>3
<1>. QED  BY <1>3, <1>4

\* Nothing else leaves a node unheard.
LEMMA UnheardStep ==
    ASSUME TypeOK, [Next]_vars, faults' = faults
    PROVE  Unheard' \subseteq Unheard
<1>. USE PlacementAssumption
<1>0. \A m \in Nodes : beat[m] \in 0 .. MaxAge /\ seen[m] \in 0 .. MaxAge /\ MaxAge \in Nat
  BY DEF TypeOK, MaxAge
<1>1. ASSUME NEW n \in Nodes, StopDaemon(n) \/ CutOff(n) \/ Lapse(n) PROVE FALSE
  <2>1. faults' = faults + 1 /\ faults \in Nat
    BY <1>1 DEF StopDaemon, CutOff, Lapse, Fault, TypeOK
  <2>. QED  BY <2>1
<1>2. ASSUME NEW n \in Nodes, StartRound(n) PROVE Unheard' \subseteq Unheard
  <2>1. UNCHANGED <<seen, cut>> /\ daemon'[n] = "running"
    BY <1>2 DEF StartRound, TypeOK
  <2>2. \A m \in Nodes \ {n} : daemon'[m] = daemon[m] /\ beat'[m] = beat[m]
    BY <1>2 DEF StartRound, TypeOK
  <2>. QED  BY <2>1, <2>2 DEF Unheard, InTime
<1>3. ASSUME NEW n \in Nodes, StartDaemon(n) \/ Reconnect(n) PROVE Unheard' \subseteq Unheard
  <2>1. UNCHANGED <<beat, seen>> /\ cut' \subseteq cut
    BY <1>3 DEF StartDaemon, Reconnect
  <2>2. \A m \in Nodes : daemon[m] = "running" => daemon'[m] = "running"
    BY <1>3 DEF StartDaemon, Reconnect, TypeOK
  <2>. QED  BY <2>1, <2>2 DEF Unheard, InTime
<1>4. ASSUME NEW n \in Nodes, SyncBeat(n) PROVE Unheard' \subseteq Unheard
  <2>1. UNCHANGED <<beat, daemon, cut>> /\ seen'[n] = beat[n]
    BY <1>4 DEF SyncBeat, TypeOK
  <2>2. \A m \in Nodes \ {n} : seen'[m] = seen[m]
    BY <1>4 DEF SyncBeat, TypeOK
  <2>. QED  BY <2>1, <2>2 DEF Unheard, InTime
<1>5. ASSUME Tick, NEW m \in Unheard' PROVE m \in Unheard
  <2>0. m \in Nodes /\ UNCHANGED <<daemon, cut>>
    BY <1>5 DEF Tick, Unheard
  <2>1. beat'[m] = Older(beat[m], MaxAge) /\ seen'[m] = Older(seen[m], MaxAge)
    BY <1>5, <2>0 DEF Tick
  <2>2. daemon[m] # "running" /\ beat'[m] <= DeadAfter /\ seen'[m] # beat'[m] /\ ~InTime(m)'
    BY <1>5, <2>0 DEF Unheard
  <2>3. beat'[m] = beat[m] + 1 /\ beat[m] <= DeadAfter /\ seen[m] # beat[m]
    BY <1>0, <2>0, <2>1, <2>2 DEF Older, MaxAge
  <2>4. ~InTime(m)
    <3>. SUFFICES ASSUME InTime(m) PROVE FALSE
      OBVIOUS
    <3>1. m \notin cut /\ seen[m] <= DeadAfter /\ ~(seen'[m] <= DeadAfter)
      BY <2>0, <2>2 DEF InTime
    <3>2. seen[m] = DeadAfter
      BY <1>0, <2>0, <2>1, <3>1, PlacementAssumption DEF Older, MaxAge
    <3>. QED  BY <1>5, <2>0, <2>3, <3>1, <3>2 DEF Tick, Awaited
  <2>. QED  BY <2>0, <2>2, <2>3, <2>4 DEF Unheard
<1>6. CASE UNCHANGED clocks
  BY <1>6 DEF clocks, Unheard, InTime
<1>7. \/ \E n \in Nodes : \/ StartRound(n) \/ StopDaemon(n) \/ CutOff(n) \/ Lapse(n)
                          \/ StartDaemon(n) \/ Reconnect(n) \/ SyncBeat(n)
      \/ Tick \/ UNCHANGED clocks
  <2>1. ASSUME NEW n \in Nodes, NEW s \in Services,
               Converge(n, s) \/ UnitFails(n, s) \/ SyncPlacement(n, s)
        PROVE  UNCHANGED clocks
    BY <2>1 DEF Converge, UnitFails, SyncPlacement
  <2>2. ASSUME NEW c \in Controllers, PassStep(c)
        PROVE  UNCHANGED clocks
    BY <2>2 DEF PassStep, PassGoesOn, StartReconcile, Keep, Select, Alert, write_placement
  <2>. QED
    BY <2>1, <2>2 DEF Next, DaemonStep, Sync, Edit, vars
<1>. QED  BY <1>1, <1>2, <1>3, <1>4, <1>5, <1>6, <1>7

\* What a pass writes it has selected among the nodes it found ready.
LEMMA IntentStep ==
    ASSUME TypeOK, Intent, [Next]_vars
    PROVE  Intent'
<1>. SUFFICES ASSUME NEW k \in Controllers, write'[k] # NoWrite
              PROVE  write'[k].to \in ready'[k] /\ plan'[k][write'[k].service] = "done"
  BY DEF Intent
<1>0. write[k] # NoWrite =>
         /\ write[k].to \in ready[k] /\ plan[k][write[k].service] = "done"
         /\ write[k].service \in Services
  BY DEF Intent, TypeOK, Writes
<1>1. CASE UNCHANGED <<write, ready, plan>>
  BY <1>0, <1>1
<1>2. ASSUME NEW c \in Controllers, StartReconcile(c)
      PROVE  write'[k].to \in ready'[k] /\ plan'[k][write'[k].service] = "done"
  BY <1>0, <1>2 DEF StartReconcile, TypeOK
<1>3. ASSUME NEW c \in Controllers, NEW s \in Services, Keep(c, s) \/ Alert(c, s)
      PROVE  write'[k].to \in ready'[k] /\ plan'[k][write'[k].service] = "done"
  BY <1>0, <1>3 DEF Keep, Alert, Done, Return, TypeOK
<1>4. ASSUME NEW c \in Controllers, NEW s \in Services, Select(c, s)
      PROVE  write'[k].to \in ready'[k] /\ plan'[k][write'[k].service] = "done"
  <2>1. PICK n \in ready[c] : write' = [write EXCEPT ![c] = [service |-> s, to |-> n]]
    BY <1>4 DEF Select
  <2>2. plan' = [plan EXCEPT ![c][s] = "done"] /\ ready' = ready
    BY <1>4 DEF Select, Done
  <2>3. CASE k = c
    <3>1. write'[k].to = n /\ write'[k].service = s
      BY <2>1, <2>3 DEF TypeOK
    <3>2. plan'[k][s] = "done"
      BY <2>2, <2>3 DEF TypeOK
    <3>. QED  BY <2>2, <2>3, <3>1, <3>2
  <2>4. CASE k # c
    <3>1. write'[k] = write[k] /\ plan'[k] = plan[k]
      BY <2>1, <2>2, <2>4 DEF TypeOK
    <3>. QED  BY <1>0, <2>2, <3>1
  <2>. QED  BY <2>3, <2>4
<1>5. ASSUME NEW c \in Controllers, write_placement(c)
      PROVE  write'[k].to \in ready'[k] /\ plan'[k][write'[k].service] = "done"
  BY <1>0, <1>5 DEF write_placement, Return, TypeOK
<1>6. \/ UNCHANGED <<write, ready, plan>>
      \/ \E c \in Controllers : \/ StartReconcile(c) \/ write_placement(c)
                                \/ \E s \in Services : Keep(c, s) \/ Select(c, s) \/ Alert(c, s)
  <2>1. ASSUME NEW n \in Nodes,
               \/ StartRound(n) \/ StopDaemon(n) \/ CutOff(n) \/ Lapse(n)
               \/ StartDaemon(n) \/ Reconnect(n) \/ SyncBeat(n)
        PROVE  UNCHANGED <<write, ready, plan>>
    BY <2>1 DEF StartRound, StopDaemon, CutOff, Lapse, StartDaemon, Reconnect, SyncBeat, pass
  <2>2. ASSUME NEW n \in Nodes, NEW s \in Services,
               Converge(n, s) \/ UnitFails(n, s) \/ SyncPlacement(n, s)
        PROVE  UNCHANGED <<write, ready, plan>>
    BY <2>2 DEF Converge, UnitFails, SyncPlacement, pass
  <2>3. Tick \/ Edit \/ UNCHANGED vars => UNCHANGED <<write, ready, plan>>
    BY DEF Tick, Edit, vars, pass
  <2>. QED  BY <2>1, <2>2, <2>3 DEF Next, DaemonStep, Sync, PassStep, PassGoesOn
<1>. QED  BY <1>1, <1>2, <1>3, <1>4, <1>5, <1>6

\* The passes that may place s depend on what a pass has read and on who has written.
LEMMA PassesSame ==
    ASSUME NEW s \in Services, UNCHANGED <<touched, plan, write, placement, dead>>
    PROVE  Passes(s)' = Passes(s) /\ Leaving(s)' = Leaving(s)
<1>1. Passes(s)' = Passes(s)
  BY DEF Passes, Wanted
<1>. QED  BY <1>1 DEF Leaving

\* The steps of nodes, Syncthing and time keep the accounts: a fault pays for the node
\* it exposes.
LEMMA NodesPay ==
    ASSUME TypeOK, Heard, [Next]_vars, NEW s \in Services, Paid(s),
           UNCHANGED <<touched, plan, write, placement, dead, ready, moves>>
    PROVE  Paid(s)'
<1>. USE PlacementAssumption
<1>0. Passes(s)' = Passes(s) /\ Leaving(s)' = Leaving(s) /\ moves'[s] = moves[s]
  BY PassesSame
<1>1. ASSUME NEW n \in Nodes, StopDaemon(n) \/ CutOff(n) \/ Lapse(n) PROVE Paid(s)'
  <2>1. /\ faults' = faults + 1 /\ steady' = steady \ {n}
        /\ \A m \in Nodes : seen'[m] <= DeadAfter => seen[m] <= DeadAfter
    <3>1. CASE StopDaemon(n) \/ CutOff(n)
      BY <3>1 DEF StopDaemon, CutOff, Fault, Unsettled
    <3>2. CASE Lapse(n)
      <4>1. /\ faults' = faults + 1 /\ steady' = steady \ {n}
            /\ seen' = [seen EXCEPT ![n] = DeadAfter + 1]
        BY <3>2 DEF Lapse, Fault, Unsettled, MaxAge
      <4>2. /\ seen \in [Nodes -> 0 .. MaxAge]
            /\ DeadAfter \in Nat /\ ~(DeadAfter + 1 <= DeadAfter)
        BY DEF TypeOK
      <4>3. \A m \in Nodes : seen'[m] = IF m = n THEN DeadAfter + 1 ELSE seen[m]
        BY <4>1, <4>2
      <4>. QED  BY <4>1, <4>2, <4>3
    <3>. QED  BY <1>1, <3>1, <3>2
  <2>2. /\ Exposed(s)' \subseteq Exposed(s) \cup {n}
        /\ n \notin steady => Exposed(s)' \subseteq Exposed(s)
    BY <1>0, <2>1 DEF Exposed
  <2>. QED  BY <1>0, <1>1, <2>1, <2>2, FaultUnheard, FaultCharged
<1>2. ASSUME NEW n \in Nodes, SyncBeat(n) PROVE Paid(s)'
  <2>1. UNCHANGED <<beat, daemon, cut, faults>> /\ seen'[n] = beat[n]
    BY <1>2 DEF SyncBeat, TypeOK
  <2>2. \A m \in Nodes \ {n} : seen'[m] = seen[m]
    BY <1>2 DEF SyncBeat, TypeOK
  <2>3. /\ steady \subseteq steady'
        /\ daemon[n] = "running" /\ beat[n] <= DeadAfter => n \in steady'
    BY <1>2 DEF SyncBeat
  <2>4. Exposed(s)' \subseteq Exposed(s) \cup {n}
    BY <1>0, <2>2, <2>3 DEF Exposed
  <2>5. Unheard' \subseteq Unheard \ {n}
    BY <2>1, <2>2 DEF Unheard, InTime
  <2>6. CASE n \in Unheard
    BY <1>0, <2>1, <2>4, <2>5, <2>6, DownHeard
  <2>7. CASE n \notin Unheard
    <3>1. n \in Exposed(s)' => n \in Exposed(s)
      <4>. SUFFICES ASSUME n \in Exposed(s)', ~(seen[n] <= DeadAfter) PROVE n \in Exposed(s)
        BY <2>3 DEF Exposed
      <4>1. ~(beat[n] <= DeadAfter)
        <5>. SUFFICES ASSUME beat[n] <= DeadAfter PROVE FALSE
          OBVIOUS
        <5>1. daemon[n] # "running" /\ seen[n] # beat[n]
          BY <1>2, <2>3 DEF Exposed, SyncBeat
        <5>. QED  BY <2>7, <5>1 DEF Unheard, InTime
      <4>. QED  BY <1>0, <2>1, <2>3, <4>1 DEF Exposed
    <3>. QED  BY <1>0, <2>1, <2>4, <2>5, <3>1, NothingCharged
  <2>. QED  BY <2>6, <2>7
<1>3. CASE Tick
  <2>1. faults' = faults /\ steady' = steady
    BY <1>3 DEF Tick, history
  <2>2. \A m \in Nodes : /\ seen[m] \in 0 .. MaxAge /\ MaxAge \in Nat
                         /\ seen'[m] = Older(seen[m], MaxAge)
    BY <1>3 DEF Tick, TypeOK, MaxAge
  <2>3. \A m \in Nodes : seen'[m] <= DeadAfter => seen[m] <= DeadAfter
    BY <2>2 DEF Older, MaxAge
  <2>4. Exposed(s)' \subseteq Exposed(s)
    BY <1>0, <2>1, <2>3 DEF Exposed
  <2>. QED  BY <1>0, <2>1, <2>4, UnheardStep, NothingCharged
<1>4. CASE UNCHANGED <<seen, steady, faults>>
  <2>1. Exposed(s)' \subseteq Exposed(s)
    BY <1>0, <1>4 DEF Exposed
  <2>. QED  BY <1>0, <1>4, <2>1, UnheardStep, NothingCharged
<1>5. \/ \E n \in Nodes : StopDaemon(n) \/ CutOff(n) \/ Lapse(n) \/ SyncBeat(n)
      \/ Tick \/ UNCHANGED <<seen, steady, faults>>
  <2>1. ASSUME NEW n \in Nodes, StartRound(n) \/ StartDaemon(n) \/ Reconnect(n)
        PROVE  UNCHANGED <<seen, steady, faults>>
    BY <2>1 DEF StartRound, StartDaemon, Reconnect, history
  <2>2. ASSUME NEW n \in Nodes, NEW t \in Services,
               Converge(n, t) \/ UnitFails(n, t) \/ SyncPlacement(n, t)
        PROVE  UNCHANGED <<seen, steady, faults>>
    BY <2>2 DEF Converge, UnitFails, SyncPlacement, clocks, history
  <2>3. ASSUME NEW c \in Controllers, PassStep(c)
        PROVE  UNCHANGED <<seen, steady, faults>>
    BY <2>3 DEF PassStep, PassGoesOn, StartReconcile, Keep, Select, Alert, write_placement, clocks, history
  <2>4. Edit \/ UNCHANGED vars => UNCHANGED <<seen, steady, faults>>
    BY DEF Edit, vars, clocks, history
  <2>. QED  BY <2>1, <2>2, <2>3, <2>4 DEF Next, DaemonStep, Sync
<1>. QED  BY <1>1, <1>2, <1>3, <1>4, <1>5

\* A pass that starts and finds the service on a dead node takes that node's fault.
LEMMA StartPays ==
    ASSUME IInv, Intent, NEW s \in Services, Paid(s), NEW c \in Controllers, StartReconcile(c)
    PROVE  Paid(s)'
<1>. USE PlacementAssumption
<1>0. TypeOK /\ \A n \in steady : phase(seen[n]) # "Dead"
  BY Window DEF IInv
<1>1. UNCHANGED <<beat, seen, daemon, cut, steady, placement, moves, faults, write>>
  BY DEF StartReconcile, clocks, tree
<1>2. c \notin Passes(s)
  BY DEF StartReconcile, Passes
<1>3. /\ \A k \in Controllers \ {c} : /\ plan'[k] = plan[k] /\ dead'[k] = dead[k]
                                      /\ ready'[k] = ready[k] /\ touched'[k] = touched[k]
      /\ dead'[c] = {n \in Nodes : phase(seen[n]) = "Dead"}
      /\ ready'[c] = {n \in Nodes : feasible(n)}
  BY <1>0 DEF StartReconcile, TypeOK
<1>4. \A k \in Controllers \ {c} : k \in Passes(s)' <=> k \in Passes(s)
  BY <1>1, <1>3 DEF Passes, Wanted
<1>5. \A n \in Nodes : seen[n] \in Nat
  BY <1>0 DEF TypeOK, MaxAge
<1>6. \A n \in ready'[c] : seen[n] <= DeadAfter
  BY <1>3, <1>5 DEF feasible, phase
<1>7. \A n \in dead'[c] : n \in Nodes /\ ~(seen[n] <= DeadAfter) /\ n \notin steady
  BY <1>0, <1>3, <1>5 DEF phase
<1>8. c \in Passes(s)' => placement[s] = NoNode \/ placement[s] \in dead'[c]
  BY <1>1 DEF Passes, Wanted, StartReconcile
<1>9. Passes(s) \subseteq Controllers /\ Passes(s)' \subseteq Controllers
  BY DEF Passes
<1>10. Unheard' \subseteq Unheard
  BY <1>1 DEF Unheard, InTime
<1>11. \A n \in Nodes : ~(seen[n] <= DeadAfter) =>
          ((\E k \in Passes(s)' : n \in ready'[k]) => \E k \in Passes(s) : n \in ready[k])
  BY <1>3, <1>4, <1>6, <1>9
<1>12. Leaving(s) => Leaving(s)'
  BY <1>1, <1>2, <1>4, <1>9 DEF Leaving
<1>13. Exposed(s)' \subseteq Exposed(s)
  BY <1>1, <1>11, <1>12 DEF Exposed
<1>14. CASE Leaving(s)' => Leaving(s)
  BY <1>0, <1>1, <1>10, <1>13, <1>14, NothingCharged
<1>15. CASE Leaving(s)' /\ ~Leaving(s)
  <2>1. placement[s] # NoNode /\ Passes(s) = {} /\ c \in Passes(s)'
    BY <1>1, <1>4, <1>9, <1>15 DEF Leaving
  <2>2. placement[s] \in dead'[c]
    BY <1>8, <2>1
  <2>3. placement[s] \in Exposed(s)
    BY <1>7, <1>15, <2>2 DEF Exposed
  <2>4. placement[s] \notin Exposed(s)'
    BY <1>1, <1>7, <1>11, <1>15, <2>1, <2>2 DEF Exposed
  <2>. QED  BY <1>0, <1>1, <1>10, <1>13, <2>3, <2>4, PassTakes
<1>. QED  BY <1>14, <1>15

\* A pass that leaves a service where it is gives back the fault it took.
LEMMA KeepPays ==
    ASSUME TypeOK, Intent, NEW s \in Services, Paid(s), NEW c \in Controllers, NEW t \in Services,
           Keep(c, t) \/ Alert(c, t)
    PROVE  Paid(s)'
<1>1. /\ UNCHANGED <<beat, seen, daemon, cut, steady, placement, moves, faults, write, touched>>
      /\ Return(c)
  BY DEF Keep, Alert, clocks, tree, history
<1>2. \A k \in Controllers : plan'[k][s] \in {plan[k][s], "done"}
  <2>1. /\ plan' = [plan EXCEPT ![c][t] = "done"]
        /\ plan \in [Controllers -> [Services -> {"auto", "manual", "done"}]]
    BY DEF Keep, Alert, Done, TypeOK
  <2>2. \A k \in Controllers \ {c} : plan'[k] = plan[k]
    BY <2>1
  <2>3. plan'[c][s] \in {plan[c][s], "done"}
    BY <2>1
  <2>. QED  BY <2>2, <2>3
<1>3. /\ Passes(s)' \subseteq Passes(s)
      /\ \A k \in Passes(s)' : ready'[k] = ready[k]
  <2>1. ASSUME NEW k \in Passes(s)'
        PROVE  k \in Controllers /\ dead'[k] = dead[k] /\ ready'[k] = ready[k]
    BY <1>1, <2>1 DEF Passes, Return, TypeOK
  <2>. QED  BY <1>1, <1>2, <2>1 DEF Passes, Wanted
<1>4. Unheard' \subseteq Unheard
  BY <1>1 DEF Unheard, InTime
<1>5. CASE Leaving(s)' \/ ~Leaving(s)
  <2>1. Leaving(s)' <=> Leaving(s)
    BY <1>1, <1>3, <1>5 DEF Leaving
  <2>2. Exposed(s)' \subseteq Exposed(s)
    BY <1>1, <1>3, <2>1 DEF Exposed
  <2>. QED  BY <1>1, <1>4, <2>1, <2>2, NothingCharged
<1>6. CASE Leaving(s) /\ ~Leaving(s)'
  <2>1. Exposed(s)' \subseteq Exposed(s) \cup {placement[s]}
    BY <1>1, <1>3 DEF Exposed
  <2>. QED  BY <1>1, <1>4, <1>6, <2>1, PassReturns
<1>. QED  BY <1>5, <1>6

\* A pass that has selected a node may still place the service.
LEMMA SelectPays ==
    ASSUME TypeOK, NEW s \in Services, Paid(s), NEW c \in Controllers, NEW t \in Services,
           Select(c, t)
    PROVE  Paid(s)'
<1>1. UNCHANGED <<beat, seen, daemon, cut, steady, placement, moves, faults, dead, ready,
                  touched>>
  BY DEF Select, clocks, tree, history
<1>2. PICK n \in ready[c] : write' = [write EXCEPT ![c] = [service |-> t, to |-> n]]
  BY DEF Select
<1>3. /\ \A k \in Controllers \ {c} : write'[k] = write[k] /\ plan'[k] = plan[k]
      /\ write[c] = NoWrite /\ write'[c].service = t
      /\ s # t => plan'[c][s] = plan[c][s]
      /\ plan[c][t] # "done" /\ Wanted(c, t)
  BY <1>2 DEF Select, Done, TypeOK
<1>4. Passes(s)' \subseteq Passes(s)
  BY <1>1, <1>2, <1>3 DEF Passes, Wanted
<1>5. Passes(s) \subseteq Passes(s)'
  <2>1. write'[c] # NoWrite
    BY <1>2, NoWriteAssumption DEF TypeOK, Writes
  <2>. QED  BY <1>1, <1>3, <2>1 DEF Passes, Wanted
<1>6. Leaving(s)' <=> Leaving(s)
  BY <1>1, <1>4, <1>5 DEF Leaving
<1>7. Exposed(s)' \subseteq Exposed(s)
  BY <1>1, <1>4, <1>6 DEF Exposed
<1>8. Unheard' \subseteq Unheard
  BY <1>1 DEF Unheard, InTime
<1>. QED  BY <1>1, <1>6, <1>7, <1>8, NothingCharged

\* A move uses up the fault its pass took, and exposes no other node.
LEMMA WritePays ==
    ASSUME TypeOK, Intent, NEW s \in Services, Paid(s), NEW c \in Controllers, write_placement(c),
           ~clash'
    PROVE  Paid(s)'
<1>. DEFINE t == write[c].service
<1>0. write[c] \in Writes /\ write[c] # NoWrite /\ t \in Services /\ write[c].to \in Nodes
  BY DEF write_placement, TypeOK, Writes
<1>1. UNCHANGED <<beat, seen, daemon, cut, steady, faults, plan>> /\ Return(c)
  BY DEF write_placement, clocks
<1>a. \A k \in Passes(s)' : k \in Controllers /\ dead'[k] = dead[k] /\ ready'[k] = ready[k]
  BY <1>1 DEF Passes, Return, TypeOK
<1>2. /\ t \notin touched[c] /\ write[c].to \in ready[c] /\ plan[c][t] = "done"
      /\ write'[c] = NoWrite
      /\ \A k \in Controllers \ {c} : write'[k] = write[k] /\ touched'[k] = touched[k] \cup {t}
      /\ touched'[c] = touched[c]
  <2>1. t \notin touched[c] /\ write[c].to \in ready[c] /\ plan[c][t] = "done"
    BY <1>0 DEF write_placement, TypeOK, Intent
  <2>2. write'[c] = NoWrite /\ \A k \in Controllers \ {c} : write'[k] = write[k]
    BY DEF write_placement, TypeOK
  <2>3. touched'[c] = touched[c] /\ \A k \in Controllers \ {c} : touched'[k] = touched[k] \cup {t}
    BY DEF write_placement, TypeOK
  <2>. QED  BY <2>1, <2>2, <2>3
<1>3. Unheard' \subseteq Unheard
  BY <1>1 DEF Unheard, InTime
<1>4. CASE s = t
  <2>1. Passes(s)' = {}
    BY <1>1, <1>2, <1>4 DEF Passes
  <2>2. c \in Passes(s)
    BY <1>0, <1>2, <1>4 DEF Passes
  <2>3. placement'[s] = write[c].to
    BY <1>0, <1>4 DEF write_placement, TypeOK
  <2>4. Exposed(s)' \subseteq Exposed(s)
    BY <1>1, <1>2, <2>1, <2>2, <2>3 DEF Exposed
  <2>5. ~Leaving(s)'
    BY <2>1 DEF Leaving
  <2>6. moves'[s] = moves[s] \/ (Leaving(s) /\ moves'[s] = moves[s] + 1)
    BY <1>0, <1>4, <2>2 DEF write_placement, Leaving, TypeOK
  <2>. QED  BY <1>1, <1>3, <2>4, <2>5, <2>6, MovePaid
<1>5. CASE s # t
  <2>1. placement'[s] = placement[s] /\ moves'[s] = moves[s]
    BY <1>0, <1>5 DEF write_placement, TypeOK
  <2>2. Passes(s)' \subseteq Passes(s)
    BY <1>1, <1>2, <1>5, <1>a, <2>1 DEF Passes, Wanted
  <2>3. Passes(s) \subseteq Passes(s)'
    <3>1. ASSUME NEW k \in Passes(s) PROVE dead'[k] = dead[k]
      BY <1>1, <1>2, <1>5, <3>1 DEF Passes, Return, TypeOK
    <3>. QED  BY <1>1, <1>2, <1>5, <2>1, <3>1 DEF Passes, Wanted
  <2>4. Leaving(s)' <=> Leaving(s)
    BY <2>1, <2>2, <2>3 DEF Leaving
  <2>5. Exposed(s)' \subseteq Exposed(s)
    BY <1>1, <1>a, <2>1, <2>2, <2>4 DEF Exposed
  <2>. QED  BY <1>1, <1>3, <2>1, <2>4, <2>5, NothingCharged
<1>. QED  BY <1>4, <1>5

\* Every step keeps the accounts.
LEMMA MovesStep ==
    ASSUME IInv, MovesInv, [Next]_vars
    PROVE  MovesInv'
<1>0. TypeOK /\ Heard /\ Intent
  BY DEF IInv, MovesInv
<1>1. Intent'
  BY <1>0, IntentStep
<1>2. ASSUME ~clash', NEW s \in Services PROVE Paid(s)'
  <2>1. UNCHANGED clash \/ \E c \in Controllers : write_placement(c)
    BY DEF Next, vars, history, DaemonStep, StartRound, Converge, Sync, SyncBeat, SyncPlacement,
           StopDaemon, StartDaemon, CutOff, Lapse, Reconnect, Unsettled, UnitFails, PassStep,
           PassGoesOn, StartReconcile, Keep, Select, Alert, Tick, Edit
  <2>2. ~clash
    BY <1>2, <2>1, <1>0 DEF write_placement, TypeOK
  <2>3. Paid(s)
    BY <2>2 DEF MovesInv
  <2>4. ASSUME NEW c \in Controllers, PassStep(c) PROVE Paid(s)'
    BY <1>0, <1>2, <2>3, <2>4, StartPays, KeepPays, SelectPays, WritePays DEF PassStep, PassGoesOn
  <2>5. CASE UNCHANGED <<touched, plan, write, placement, dead, ready, moves>>
    BY <1>0, <2>3, <2>5, NodesPay
  <2>6. \/ \E c \in Controllers : PassStep(c)
        \/ UNCHANGED <<touched, plan, write, placement, dead, ready, moves>>
    BY DEF Next, vars, tree, pass, history, DaemonStep, StartRound, Converge, Sync, SyncBeat,
           SyncPlacement, StopDaemon, StartDaemon, CutOff, Lapse, Reconnect, Unsettled, UnitFails, Tick,
           Edit
  <2>. QED  BY <2>4, <2>5, <2>6
<1>. QED  BY <1>1, <1>2 DEF MovesInv

\* Unless two passes write about a service at once, each of its moves has a fault or a late
\* heartbeat of its own
\* (service_controller.reconcile_once, node_controller.phase).
THEOREM MovesExplained == Spec => []MovesHaveCauses
<1>1. Init => MovesInv
  <2>. SUFFICES ASSUME Init PROVE MovesInv
    OBVIOUS
  <2>1. \A s \in Services : Passes(s) = {}
    BY DEF Init, Passes
  <2>2. \A s \in Services : Exposed(s) = {} /\ Due(s) = 0
    BY <2>1, PlacementAssumption DEF Init, Exposed, Leaving, MaxAge, Due
  <2>3. Unheard = {}
    BY PlacementAssumption DEF Init, Unheard, MaxAge
  <2>4. Intent
    BY DEF Init, Intent
  <2>5. IsFiniteSet({}) /\ Cardinality({}) = 0
    BY FS_EmptySet
  <2>6. \A s \in Services : moves[s] = 0 /\ faults = 0
    BY DEF Init
  <2>7. ASSUME NEW s \in Services PROVE Paid(s)
    BY <2>2, <2>3, <2>5, <2>6 DEF Paid
  <2>. QED  BY <2>4, <2>7 DEF MovesInv
<1>2. IInv /\ MovesInv /\ [Next]_vars => MovesInv'
  BY MovesStep
<1>3. IInv /\ MovesInv => MovesHaveCauses
  <2>. SUFFICES ASSUME IInv, MovesInv, ~clash, NEW s \in Services PROVE moves[s] <= faults
    BY DEF MovesHaveCauses
  <2>1. Paid(s) /\ moves[s] \in Nat /\ faults \in Nat
    BY PlacementAssumption DEF MovesInv, IInv, TypeOK
  <2>2. Cardinality(Exposed(s)) \in Nat /\ Cardinality(Unheard) \in Nat /\ Due(s) \in Nat
    BY <2>1, FS_CardinalityType DEF Paid, Due
  <2>. QED  BY <2>1, <2>2 DEF Paid
<1>. QED  BY <1>1, <1>2, <1>3, Inductive, PTL DEF Spec
=============================================================================
