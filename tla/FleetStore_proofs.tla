-------------------------- MODULE FleetStore_proofs --------------------------
(***************************************************************************)
(* Proofs about FleetStore, for any number of writers, nodes, fields and    *)
(* edits.                                                                   *)
(***************************************************************************)
EXTENDS FleetStore, TLAPS

\* The empty store satisfies the inductive invariant.
LEMMA InitIInv == Init => IInv
<1> SUFFICES ASSUME Init PROVE IInv
  OBVIOUS
<1>1. NoFile \in SpecFiles /\ NoFile.spec \in Specs /\ NoFile.generation = 0
  BY StoreAssumption DEF NoFile, SpecFiles, Specs
<1>2. TypeOK
  <2>1. clash \in BOOLEAN
    BY Zenon DEF Init
  <2>2. /\ pc \in [Writers -> {"idle", "read", "loaded"}]
        /\ copy \in [Writers -> Specs] /\ base \in [Writers -> SpecFiles]
    BY <1>1 DEF Init
  <2>3. /\ rep \in [Nodes -> SpecFiles] /\ held \in [Nodes -> SpecFiles]
        /\ status \in [Nodes -> SpecFiles]
    BY <1>1 DEF Init
  <2>4. file \in SpecFiles /\ edits \in 0..MaxEdits
    BY <1>1, StoreAssumption DEF Init
  <2> QED
    BY <2>1, <2>2, <2>3, <2>4 DEF TypeOK
<1>3. CopiesBehind
  BY <1>1 DEF Init, CopiesBehind, Behind
<1>4. SeatLoaded
  BY DEF Init, SeatLoaded, Writers
<1> QED
  BY <1>2, <1>3, <1>4 DEF IInv

\* What a caller holds after reading: its own pc and copy change, nothing else.
LEMMA HoldsEffect ==
    ASSUME TypeOK, NEW w \in Writers, NEW s \in Specs, Holds(w, s), pc[w] = "idle"
    PROVE  /\ pc' \in [Writers -> {"idle", "read", "loaded"}]
           /\ copy' \in [Writers -> Specs]
           /\ \A x \in Writers : pc'[x] = "loaded" => pc[x] = "loaded" /\ copy'[x] = copy[x]
BY DEF TypeOK, Holds

\* A read keeps the invariant: the files of all parties stay as they are.
LEMMA ReadKeepsIInv ==
    ASSUME IInv, NEW w \in Writers, NEW s \in Specs, Holds(w, s), pc[w] = "idle",
           UNCHANGED <<file, base, nodeVars, clash>>, edits' \in 0..MaxEdits
    PROVE  IInv'
<1>1. TypeOK'
  BY HoldsEffect DEF IInv, TypeOK, nodeVars
<1>2. CopiesBehind'
  BY DEF IInv, CopiesBehind, Behind, nodeVars
<1>3. SeatLoaded'
  BY HoldsEffect DEF IInv, SeatLoaded, Writers
<1> QED
  BY <1>1, <1>2, <1>3 DEF IInv

\* A dump on the very file that was loaded puts the new generation above every
\* copy of the file that is about.
LEMMA DumpKeepsIInv ==
    ASSUME IInv, NEW w \in Writers, Dump(w)
    PROVE  IInv'
<1> USE DEF IInv
<1>1. /\ file' = [generation |-> base[w].generation + 1, spec |-> copy[w]]
      /\ base' = base /\ copy' = copy /\ UNCHANGED nodeVars
      /\ pc' = [pc EXCEPT ![w] = "idle"]
      /\ clash' = (clash \/ file # base[w])
      /\ edits' = edits
  BY DEF Dump, NextGeneration
<1>2. file' \in SpecFiles
  BY <1>1 DEF TypeOK, SpecFiles
<1>3. TypeOK'
  <2>1. pc' \in [Writers -> {"idle", "read", "loaded"}]
    BY <1>1 DEF TypeOK
  <2>2. clash' \in BOOLEAN
    BY <1>1, Zenon DEF TypeOK
  <2> QED
    BY <1>1, <1>2, <2>1, <2>2 DEF TypeOK, nodeVars
<1>4. CopiesBehind'
  <2> SUFFICES ASSUME ~clash' PROVE CopiesBehind'
    BY DEF CopiesBehind
  <2>1. ~clash /\ file = base[w]
    BY <1>1, Zenon
  <2>2. file'.generation = file.generation + 1
    BY <1>1, <2>1
  <2>3. \A v \in SpecFiles : Behind(v) => v.generation < file'.generation
    BY <2>2 DEF Behind, TypeOK, SpecFiles
  <2>4. \A v \in SpecFiles : v.generation < file'.generation
            => v.generation <= file'.generation /\ v.generation # file'.generation
    BY <1>2 DEF SpecFiles
  <2>5. \A n \in Nodes : /\ rep'[n] = rep[n] /\ rep[n] \in SpecFiles /\ Behind(rep[n])
                         /\ held'[n] = held[n] /\ held[n] \in SpecFiles /\ Behind(held[n])
                         /\ status'[n] = status[n] /\ status[n] \in SpecFiles
                         /\ Behind(status[n])
    BY <1>1, <2>1 DEF nodeVars, TypeOK, CopiesBehind
  <2>6. \A x \in Writers : base'[x] = base[x] /\ base[x] \in SpecFiles /\ Behind(base[x])
    BY <1>1, <2>1 DEF TypeOK, CopiesBehind
  <2> QED
    BY <2>3, <2>4, <2>5, <2>6 DEF CopiesBehind, Behind
<1>5. SeatLoaded'
  BY <1>1 DEF SeatLoaded, TypeOK, Writers
<1> QED
  BY <1>3, <1>4, <1>5

\* The steps of a node move copies of the file along, never ahead of it.
LEMMA ReportKeepsIInv ==
    ASSUME IInv, NEW n \in Nodes, Report(n)
    PROVE  IInv'
<1> USE DEF IInv
<1>1. CASE Sync(n)
  <2>1. rep' = [rep EXCEPT ![n] = file]
        /\ UNCHANGED <<file, pc, copy, base, held, status, clash, edits>>
    BY <1>1 DEF Sync
  <2>2. TypeOK'
    BY <2>1 DEF TypeOK
  <2>3. CopiesBehind'
    BY <2>1 DEF CopiesBehind, Behind, TypeOK, SpecFiles
  <2> QED
    BY <2>1, <2>2, <2>3 DEF SeatLoaded
<1>2. CASE ReadSpec(n)
  <2>1. held' = [held EXCEPT ![n] = rep[n]]
        /\ UNCHANGED <<file, pc, copy, base, rep, status, clash, edits>>
    BY <1>2 DEF ReadSpec
  <2>2. TypeOK'
    BY <2>1 DEF TypeOK
  <2>3. CopiesBehind'
    BY <2>1 DEF CopiesBehind, Behind, TypeOK, SpecFiles
  <2> QED
    BY <2>1, <2>2, <2>3 DEF SeatLoaded
<1>3. CASE write_status(n)
  <2>1. status' = [status EXCEPT ![n] = held[n]]
        /\ UNCHANGED <<file, pc, copy, base, rep, held, clash, edits>>
    BY <1>3 DEF write_status
  <2>2. TypeOK'
    BY <2>1 DEF TypeOK
  <2>3. CopiesBehind'
    BY <2>1 DEF CopiesBehind, Behind, TypeOK, SpecFiles
  <2> QED
    BY <2>1, <2>2, <2>3 DEF SeatLoaded
<1> QED
  BY <1>1, <1>2, <1>3 DEF Report

\* Every step keeps the inductive invariant.
LEMMA NextIInv == IInv /\ [Next]_vars => IInv'
<1> SUFFICES ASSUME IInv, [Next]_vars PROVE IInv'
  OBVIOUS
<1> USE StoreAssumption
<1>1. ASSUME NEW h \in Humans, NEW f \in Fields, NEW v \in Values, EditField(h, f, v)
      PROVE  IInv'
  <2>1. [file.spec EXCEPT ![f] = v] \in Specs
    BY DEF IInv, TypeOK, SpecFiles, Specs
  <2>2. edits' \in 0..MaxEdits
    BY <1>1 DEF EditField, CountEdit, IInv, TypeOK
  <2> QED
    BY <1>1, <2>1, <2>2, ReadKeepsIInv DEF EditField, Writers
<1>2. ASSUME NEW h \in Humans, NEW s \in Specs, Apply(h, s) PROVE IInv'
  <2>1. edits' \in 0..MaxEdits
    BY <1>2 DEF Apply, CountEdit, IInv, TypeOK
  <2> QED
    BY <1>2, <2>1, ReadKeepsIInv DEF Apply, Writers
<1>3. ASSUME NEW a \in Agents, Refresh(a) PROVE IInv'
  <2>1. Refreshed \in Specs
    BY DEF Refreshed, IInv, TypeOK, SpecFiles, Specs
  <2>2. edits' \in 0..MaxEdits
    BY <1>3 DEF Refresh, IInv, TypeOK
  <2> QED
    BY <1>3, <2>1, <2>2, ReadKeepsIInv DEF Refresh, Writers
<1>4. ASSUME NEW w \in Writers, Load(w) PROVE IInv'
  <2>1. /\ base' = [base EXCEPT ![w] = file] /\ copy' = copy
        /\ UNCHANGED <<file, nodeVars, clash, edits>>
        /\ pc' \in [Writers -> {"idle", "read", "loaded"}]
        /\ \A x \in Writers : x # w => pc'[x] = pc[x]
        /\ pc'[w] = "loaded" => guard_human_only_fields(w, copy[w], file)
    BY <1>4 DEF Load, IInv, TypeOK
  <2>2. TypeOK'
    BY <2>1 DEF IInv, TypeOK, nodeVars
  <2>3. CopiesBehind'
    BY <2>1 DEF IInv, CopiesBehind, Behind, TypeOK, SpecFiles, nodeVars
  <2>4. SeatLoaded'
    BY <2>1 DEF IInv, SeatLoaded, TypeOK, guard_human_only_fields, Writers
  <2> QED
    BY <2>2, <2>3, <2>4 DEF IInv
<1>5. ASSUME NEW w \in Writers, Dump(w) PROVE IInv'
  BY <1>5, DumpKeepsIInv
<1>6. ASSUME NEW w \in Writers, Kill(w) PROVE IInv'
  <2>1. TypeOK'
    BY <1>6 DEF Kill, CountEdit, IInv, TypeOK, nodeVars
  <2>2. CopiesBehind'
    BY <1>6 DEF Kill, IInv, CopiesBehind, Behind, nodeVars
  <2>3. SeatLoaded'
    BY <1>6 DEF Kill, IInv, SeatLoaded, TypeOK, Writers
  <2> QED
    BY <2>1, <2>2, <2>3 DEF IInv
<1>7. ASSUME NEW n \in Nodes, Report(n) PROVE IInv'
  BY <1>7, ReportKeepsIInv
<1>8. CASE UNCHANGED vars
  BY <1>8 DEF vars, IInv, TypeOK, CopiesBehind, Behind, SeatLoaded
<1> QED
  BY <1>1, <1>2, <1>3, <1>4, <1>5, <1>6, <1>7, <1>8 DEF Next, Edit, Write

----------------------------------------------------------------------------
(* The theorems.                                                           *)

\* The inductive invariant holds in every reachable state of the store.
THEOREM Invariance == Spec => []IInv
BY InitIInv, NextIInv, PTL DEF Spec

\* Type correctness of the file, the writers and the nodes' copies.
THEOREM TypeCorrect == Spec => []TypeOK
<1>1. IInv => TypeOK
  BY DEF IInv
<1> QED
  BY Invariance, <1>1, PTL

\* While no write overlapped another between load and dump, a status that is
\* not flagged stale is about the current spec (store.py:205-217, 342).
THEOREM StalenessDetected == Spec => []StalenessUnlessClash
<1>1. IInv => StalenessUnlessClash
  <2> SUFFICES ASSUME IInv, ~clash, NEW n \in Nodes, ~stale(n)
               PROVE  status[n].spec = file.spec
    BY DEF StalenessUnlessClash, FreshMeansCurrent
  <2>1. Behind(status[n]) /\ status[n] \in SpecFiles /\ file \in SpecFiles
    BY DEF IInv, TypeOK, CopiesBehind
  <2> QED
    BY <2>1 DEF Behind, stale, SpecFiles
<1> QED
  BY Invariance, <1>1, PTL

\* A write of the seat changes no human-only field that is still what it was
\* when the write loaded the file (store.py:144-158).
THEOREM RatificationKept == Spec => SeatKeepsRatification
<1>1. IInv => \A a \in Agents : Dump(a) => \A f \in HumanOnly :
                  file'.spec[f] # file.spec[f] => file.spec[f] # base[a].spec[f]
  BY StoreAssumption DEF IInv, SeatLoaded, Dump
<1> QED
  BY Invariance, <1>1, PTL DEF SeatKeepsRatification
=============================================================================
