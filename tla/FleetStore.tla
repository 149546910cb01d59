----------------------------- MODULE FleetStore -----------------------------
(***************************************************************************)
(* fleet/store.py: one desired-state object (objects/<kind>/<name>.json),   *)
(* the operator commands that edit it, and the node daemons that report on  *)
(* it.  The object is an Operatorapp: the autonomous operator seat          *)
(* refreshes its registration on every tick, a human ratifies actions.      *)
(*                                                                          *)
(* An edit is three steps of one process, with no lock: the caller reads    *)
(* the spec and overlays its field, write_spec loads the file again (for    *)
(* the generation and the human-only guard), and write_spec dumps.  Nodes   *)
(* see the file through Syncthing, some time after it was written.          *)
(***************************************************************************)
EXTENDS Naturals

CONSTANTS Humans,     \* operator processes of a human (agent_seat = False)
          Agents,     \* processes of the autonomous seat (agent_seat = True)
          Nodes,      \* nodes that report on the object
          Fields,     \* the spec's fields
          HumanOnly,  \* _HUMAN_ONLY_SPEC_FIELDS of the kind
          Values,     \* field values
          None,       \* an absent or empty field
          Facts,      \* the registration the seat derives from the adapter
          Declared,   \* ... and its value
          MaxEdits    \* bound: human edits, and processes killed

Writers == Humans \cup Agents

ASSUME StoreAssumption ==
    /\ Humans \cap Agents = {}
    /\ HumanOnly \subseteq Fields
    /\ Facts \in Fields \ HumanOnly
    /\ {None, Declared} \subseteq Values
    /\ MaxEdits \in Nat

VARIABLES
    file,    \* the spec file on the control node
    pc,      \* pc[w]: "idle" | "read" (caller has its spec) | "loaded"
    copy,    \* copy[w]: the spec that w is about to write
    base,    \* base[w]: "existing", the file write_spec loaded
    rep,     \* rep[n]: node n's replica of the file
    held,    \* held[n]: the payload n's pass in flight works on
    status,  \* status[n]: generation observed, with the spec it belongs to
    clash,   \* history: some dump landed on a file changed since its load
    edits    \* bound: edits and kills so far

vars == <<file, pc, copy, base, rep, held, status, clash, edits>>
nodeVars == <<rep, held, status>>

Specs == [Fields -> Values]
\* A spec file; generation 0 stands for no file.
SpecFiles == [generation : Nat, spec : Specs]
NoFile == [generation |-> 0, spec |-> [f \in Fields |-> None]]

Init ==
    /\ file = NoFile
    /\ pc = [w \in Writers |-> "idle"]
    /\ copy = [w \in Writers |-> NoFile.spec]
    /\ base = [w \in Writers |-> NoFile]
    /\ rep = [n \in Nodes |-> NoFile]
    /\ held = [n \in Nodes |-> NoFile]
    /\ status = [n \in Nodes |-> NoFile]
    /\ clash = FALSE
    /\ edits = 0

----------------------------------------------------------------------------
(* Callers: read the spec, overlay.                                        *)

\* The caller holds the spec it is going to write.
Holds(w, s) == /\ pc' = [pc EXCEPT ![w] = "read"]
               /\ copy' = [copy EXCEPT ![w] = s]

CountEdit == edits < MaxEdits /\ edits' = edits + 1

\* ratify, cordon, set_role, set_labels, set_taint, clear_taint,
\* set_actuation: read, refuse an unknown object, overlay one field.
EditField(h, f, v) ==
    /\ pc[h] = "idle" /\ CountEdit
    /\ file.generation > 0
    /\ Holds(h, [file.spec EXCEPT ![f] = v])
    /\ UNCHANGED <<file, base, nodeVars, clash>>

\* skfleet apply: the whole spec comes from a document.
Apply(h, s) ==
    /\ pc[h] = "idle" /\ CountEdit
    /\ Holds(h, s)
    /\ UNCHANGED <<file, base, nodeVars, clash>>

\* The registration the seat writes over what it read.
Refreshed == [f \in Fields |-> IF f = Facts THEN Declared ELSE file.spec[f]]

\* Seeded fault: the seat refreshes an object only to create it.
RefreshOnce(a) ==
    /\ pc[a] = "idle"
    /\ file.generation = 0
    /\ Holds(a, Refreshed)
    /\ UNCHANGED <<file, base, nodeVars, clash, edits>>

\* register_all at the start of a seat tick: carries the ratifications it
\* read over to the fresh registration, writes only a changed spec.
Refresh(a) ==
    /\ pc[a] = "idle"
    /\ file.generation = 0 \/ Refreshed # file.spec
    /\ Holds(a, Refreshed)
    /\ UNCHANGED <<file, base, nodeVars, clash, edits>>

----------------------------------------------------------------------------
(* write_spec.                                                             *)

\* Seeded fault: no writer is refused.
GuardMissing(w, s, existing) == TRUE

\* _guard_human_only_fields: the seat's value must be the one on disk.
guard_human_only_fields(w, s, existing) ==
    w \in Agents => \A f \in HumanOnly : s[f] = existing.spec[f]

\* write_spec up to its guard, which raises OwnershipError.
Load(w) ==
    /\ pc[w] = "read"
    /\ base' = [base EXCEPT ![w] = file]
    /\ pc' = [pc EXCEPT ![w] =
                IF guard_human_only_fields(w, copy[w], file) THEN "loaded" ELSE "idle"]
    /\ UNCHANGED <<file, copy, nodeVars, clash, edits>>

\* Seeded fault: an edit keeps the generation it found.
SameGeneration(w) == IF base[w].generation = 0 THEN 1 ELSE base[w].generation

\* The generation a write gives the file.
NextGeneration(w) == base[w].generation + 1

\* Seeded fault: the seat's human-only fields are dropped from the payload.
DumpStripped(w) ==
    /\ pc[w] = "loaded"
    /\ file' = [generation |-> NextGeneration(w),
                spec |-> [f \in Fields \ HumanOnly |-> copy[w][f]]]
    /\ clash' = (clash \/ file # base[w])
    /\ pc' = [pc EXCEPT ![w] = "idle"]
    /\ UNCHANGED <<copy, base, nodeVars, edits>>

\* The rest of write_spec: replace the file, one generation above the loaded.
Dump(w) ==
    /\ pc[w] = "loaded"
    /\ file' = [generation |-> NextGeneration(w), spec |-> copy[w]]
    /\ clash' = (clash \/ file # base[w])
    /\ pc' = [pc EXCEPT ![w] = "idle"]
    /\ UNCHANGED <<copy, base, nodeVars, edits>>

\* The process is killed; atomic_write_text leaves the file as it was.
Kill(w) ==
    /\ pc[w] # "idle" /\ CountEdit
    /\ pc' = [pc EXCEPT ![w] = "idle"]
    /\ UNCHANGED <<file, copy, base, nodeVars, clash>>

----------------------------------------------------------------------------
(* Nodes.                                                                  *)

\* Syncthing brings the replica up to date, sooner or later.
Sync(n) ==
    /\ rep[n] # file
    /\ rep' = [rep EXCEPT ![n] = file]
    /\ UNCHANGED <<file, pc, copy, base, held, status, clash, edits>>

\* local_services: the pass keeps the payload it reads here.
ReadSpec(n) ==
    /\ held[n] # rep[n]
    /\ held' = [held EXCEPT ![n] = rep[n]]
    /\ UNCHANGED <<file, pc, copy, base, rep, status, clash, edits>>

\* write_status at the end of the pass, on change only.
write_status(n) ==
    /\ held[n].generation > 0
    /\ status[n] # held[n]
    /\ status' = [status EXCEPT ![n] = held[n]]
    /\ UNCHANGED <<file, pc, copy, base, rep, held, clash, edits>>

Edit == \E h \in Humans : \/ \E f \in Fields, v \in Values : EditField(h, f, v)
                          \/ \E s \in Specs : Apply(h, s)

Write(w) == Load(w) \/ Dump(w)

Report(n) == Sync(n) \/ ReadSpec(n) \/ write_status(n)

Next == \/ Edit
        \/ \E a \in Agents : Refresh(a)
        \/ \E w \in Writers : Write(w) \/ Kill(w)
        \/ \E n \in Nodes : Report(n)

Spec == Init /\ [][Next]_vars

\* The seat's timer keeps firing, and a process that is running ends.
FairSpec == /\ Spec
            /\ \A a \in Agents : WF_vars(Refresh(a))
            /\ \A w \in Writers : WF_vars(Write(w))

----------------------------------------------------------------------------
(* Properties.                                                             *)

TypeOK ==
    /\ file \in SpecFiles
    /\ pc \in [Writers -> {"idle", "read", "loaded"}]
    /\ copy \in [Writers -> Specs]
    /\ base \in [Writers -> SpecFiles]
    /\ rep \in [Nodes -> SpecFiles]
    /\ held \in [Nodes -> SpecFiles]
    /\ status \in [Nodes -> SpecFiles]
    /\ clash \in BOOLEAN
    /\ edits \in 0..MaxEdits

\* merged(): the reader's stale flag.
stale(n) == status[n].generation < file.generation

\* A status a reader does not see flagged is about the spec that reader sees.
FreshMeansCurrent ==
    \A n \in Nodes : status[n].generation > 0 /\ ~stale(n) => status[n].spec = file.spec

\* Staleness is never silent as long as no two writes overlapped between load
\* and dump: neither the delay of Syncthing, nor a pass that works on an old
\* payload, nor an edit made from an old read hides it (store.py:205-217,
\* 327-344).
StalenessUnlessClash == ~clash => FreshMeansCurrent

\* A write of the seat changes no ratification that has stood since the write
\* loaded the file, however old the seat's own read was and whatever else has
\* been written in between: the guard catches what the read missed
\* (store.py:144-158).  One made after the load is overwritten, although
\* bootstrap.py:9-16 and registration.py:145 rule that out without exception.
SeatKeepsRatification ==
    [][\A a \in Agents : Dump(a) => \A f \in HumanOnly :
          file'.spec[f] # file.spec[f] => file.spec[f] # base[a].spec[f]]_vars

\* Once the humans are done, the registration settles on what the adapter
\* declares, whatever stale edits overwrote it meanwhile: the seat's loop is
\* level-triggered (registration.py:168-174).
RegistrationConverges == <>[](file.generation > 0 /\ file.spec[Facts] = Declared)

----------------------------------------------------------------------------
(* The inductive invariant.                                                *)

\* Every copy of the file is the file or has a lower generation.
Behind(v) == v.generation <= file.generation /\ (v.generation = file.generation => v = file)

CopiesBehind ==
    ~clash => /\ \A n \in Nodes : Behind(rep[n]) /\ Behind(held[n]) /\ Behind(status[n])
              /\ \A w \in Writers : Behind(base[w])

\* The seat holds the ratifications of the file it loaded.
SeatLoaded ==
    \A a \in Agents : pc[a] = "loaded"
        => \A f \in HumanOnly : copy[a][f] = base[a].spec[f]

IInv == TypeOK /\ CopiesBehind /\ SeatLoaded
=============================================================================
