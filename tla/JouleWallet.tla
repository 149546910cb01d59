----------------------------- MODULE JouleWallet -----------------------------
(***************************************************************************)
(* skjoule.py: Joule wallets, each a snapshot (joules.json) and an          *)
(* append-only journal (transactions.jsonl), written by several processes.  *)
(*                                                                          *)
(* A process runs one call: record_work, which takes the settle lock and    *)
(* reloads before it mints, or a direct spend or transfer, which works from *)
(* the snapshot its JouleWallet loaded when it was built.  Either is a      *)
(* sequence of legs, and _persist_unlocked writes each leg to the journal   *)
(* first and then publishes the cached snapshot.  A snapshot is modelled by *)
(* the set of transactions its balance accounts for.  Whoever opens a wallet *)
(* that has no snapshot writes one of zero, in a step of its own.            *)
(***************************************************************************)
EXTENDS Integers, Sequences, FiniteSets, FiniteSetsExt

CONSTANTS Wallets,
          Settlers,    \* processes that run record_work
          Movers,      \* processes that run JouleWallet.spend or transfer
          Reconciler,  \* the process that runs reconcile_wallet
          NoProc,      \* "nobody"
          Legs,        \* Legs[p]: the legs of p's call, [wallet, delta] each
          Books,       \* the wallet that is reconciled
          MaxFaults    \* bound: crashes, failed writes, lock timeouts

Procs == Settlers \cup Movers

ASSUME WalletAssumption ==
    /\ Settlers \cap Movers = {} /\ NoProc \notin Procs /\ Reconciler \notin Procs
    /\ Books \in Wallets
    /\ Legs \in [Procs -> Seq([wallet : Wallets, delta : Int])]
    /\ \A p \in Settlers : Len(Legs[p]) = 1 /\ Legs[p][1].delta > 0
    \* a spend is one debit; a transfer a debit and a credit of another wallet
    /\ \A p \in Movers : /\ Len(Legs[p]) \in {1, 2} /\ Legs[p][1].delta < 0
                         /\ Len(Legs[p]) = 2 =>
                              /\ Legs[p][2].delta = -Legs[p][1].delta
                              /\ Legs[p][2].wallet # Legs[p][1].wallet
    /\ MaxFaults \in Nat

VARIABLES
    journal,   \* journal[w]: the transactions a replay of the journal counts
    tail,      \* tail[w]: "clean", or "torn" when its last line is incomplete
    exists,    \* exists[w]: there is a snapshot on disk
    snap,      \* snap[w]: the transactions it accounts for, {} if there is none
    lock,      \* lock[w]: the holder of the settle lock
    pc, leg,   \* where p is, and in which leg
    opened,    \* opened[p]: how many of its legs' wallets p has opened
    cache,     \* cache[p]: the snapshots p has in memory
    recon,     \* reconcile_wallet: where it is and what it has read
    torn,      \* history: some append left an incomplete line
    degraded,  \* history: something other than locked, whole mints happened
    zeroed,    \* history: the wallets whose snapshot of zero replaced a snapshot
               \* that appeared after it was looked for
    faults

vars == <<journal, tail, exists, snap, lock, pc, leg, opened, cache, recon, torn,
          degraded, zeroed, faults>>
file == <<exists, snap, zeroed>>
disk == <<journal, tail, file>>

Txns == [by : Procs \cup {Reconciler}, delta : Int]
\* The transaction of p's current leg, and the wallet it is about.
Txn(p) == [by |-> p, delta |-> Legs[p][leg[p]].delta]
At(p)  == Legs[p][leg[p]].wallet
\* The wallet p opens next.
Opening(p) == Legs[p][opened[p] + 1].wallet

\* replay_balance, and the balance a snapshot stands for.
replay_balance(T) == MapThenSumSet(LAMBDA t : t.delta, T)

Init ==
    /\ journal = [w \in Wallets |-> {}]
    /\ tail = [w \in Wallets |-> "clean"]
    /\ exists \in [Wallets -> BOOLEAN]
    /\ snap = [w \in Wallets |-> {}]
    /\ lock = [w \in Wallets |-> NoProc]
    /\ pc = [p \in Procs |-> "start"]
    /\ leg = [p \in Procs |-> 1]
    /\ opened = [p \in Procs |-> 0]
    /\ cache = [p \in Procs |-> [w \in Wallets |-> {}]]
    /\ recon = [pc |-> "start", snapshot |-> 0, delta |-> 0]
    /\ torn = FALSE /\ degraded = FALSE /\ zeroed = {} /\ faults = 0

Goto(p, l) == pc' = [pc EXCEPT ![p] = l]
Fault == faults < MaxFaults /\ faults' = faults + 1

----------------------------------------------------------------------------
(* settle_lock and reload.                                                 *)

\* flock succeeds.
TakeLock(p) ==
    /\ p \in Settlers /\ pc[p] = "start"
    /\ lock[At(p)] = NoProc
    /\ lock' = [lock EXCEPT ![At(p)] = p]
    /\ Goto(p, "locked")
    /\ UNCHANGED <<disk, leg, opened, cache, recon, torn, degraded, faults>>

\* The deadline passes, or the lock file cannot be opened: go on unlocked.
LockTimeout(p) ==
    /\ p \in Settlers /\ pc[p] = "start" /\ Fault
    /\ degraded' = TRUE
    /\ Goto(p, "locked")
    /\ UNCHANGED <<disk, lock, leg, opened, cache, recon, torn>>

\* Seeded fault: the wallet was loaded before the lock was taken and is not
\* read again.
KeepCache(p) ==
    /\ p \in Settlers /\ pc[p] = "locked" /\ exists[At(p)]
    /\ Goto(p, "loaded")
    /\ UNCHANGED <<disk, lock, leg, opened, cache, recon, torn, degraded, faults>>

\* get_wallet and reload.
reload(p) ==
    /\ p \in Settlers /\ pc[p] = "locked" /\ exists[At(p)]
    /\ cache' = [cache EXCEPT ![p][At(p)] = snap[At(p)]]
    /\ Goto(p, "loaded")
    /\ UNCHANGED <<disk, lock, leg, opened, recon, torn, degraded, faults>>

\* p has opened a wallet, and opens the next one of its call or starts on it.
Opened(p) ==
    /\ opened' = [opened EXCEPT ![p] = @ + 1]
    /\ Goto(p, IF opened[p] + 1 < Len(Legs[p]) THEN "start" ELSE "loaded")

\* A direct caller builds its wallets one after the other, and keeps them.
Open(p) ==
    /\ p \in Movers /\ pc[p] = "start" /\ exists[Opening(p)]
    /\ cache' = [cache EXCEPT ![p][Opening(p)] = snap[Opening(p)]]
    /\ degraded' = TRUE
    /\ Opened(p)
    /\ UNCHANGED <<disk, lock, leg, recon, torn, faults>>

----------------------------------------------------------------------------
(* _load_or_create_snapshot, where there is no snapshot.                   *)

\* It is not there: at the opening of a wallet, locked or not.
FindNone(p) ==
    /\ pc[p] = IF p \in Settlers THEN "locked" ELSE "start"
    /\ ~exists[Opening(p)]
    /\ degraded' = (degraded \/ p \in Movers)
    /\ Goto(p, "absent")
    /\ UNCHANGED <<disk, lock, leg, opened, cache, recon, torn, faults>>

\* Later a snapshot of zero is written, over whatever is there by then.
WriteZero(w) ==
    /\ exists' = [exists EXCEPT ![w] = TRUE]
    /\ snap' = [snap EXCEPT ![w] = {}]
    /\ zeroed' = IF exists[w] THEN zeroed \cup {w} ELSE zeroed

\* A settlement that created the wallet reads it back (get_wallet, reload).
Create(p) ==
    /\ pc[p] = "absent"
    /\ WriteZero(Opening(p))
    /\ cache' = [cache EXCEPT ![p][Opening(p)] = {}]
    /\ IF p \in Settlers THEN Goto(p, "locked") /\ UNCHANGED opened ELSE Opened(p)
    /\ UNCHANGED <<journal, tail, lock, leg, recon, torn, degraded, faults>>

\* The write fails, which is logged: the wallet is in memory only.
CreateFails(p) ==
    /\ pc[p] = "absent" /\ Fault
    /\ degraded' = TRUE
    /\ cache' = [cache EXCEPT ![p][Opening(p)] = {}]
    /\ Opened(p)
    /\ UNCHANGED <<disk, lock, leg, recon, torn>>

----------------------------------------------------------------------------
(* The legs.                                                               *)

\* spend and transfer refuse an amount above the cached balance.
Refused(p) == p \in Movers /\ leg[p] = 1
              /\ -Txn(p).delta > replay_balance(cache[p][At(p)])

Insufficient(p) ==
    /\ pc[p] = "loaded" /\ Refused(p)
    /\ Goto(p, "done")
    /\ UNCHANGED <<disk, lock, leg, opened, cache, recon, torn, degraded, faults>>

----------------------------------------------------------------------------
(* _persist_unlocked.                                                      *)

\* A whole line reaches the journal; behind an incomplete line it becomes part
\* of that line, which no reader can parse.
AppendLine(w, t) ==
    /\ journal' = [journal EXCEPT ![w] = IF tail[w] = "torn" THEN @ ELSE @ \cup {t}]
    /\ tail' = [tail EXCEPT ![w] = "clean"]

\* Step 1, the journal: the cached snapshot has the transaction already.
JournalLeg(p) ==
    /\ pc[p] = "loaded" /\ ~Refused(p)
    /\ AppendLine(At(p), Txn(p))
    /\ cache' = [cache EXCEPT ![p][At(p)] = @ \cup {Txn(p)}]
    /\ Goto(p, "journaled")
    /\ UNCHANGED <<file, lock, leg, opened, recon, torn, degraded, faults>>

\* The end of settle_lock, for a process that holds it.
Unlock(p) == lock' = [w \in Wallets |-> IF lock[w] = p THEN NoProc ELSE lock[w]]

\* The append stopped short, of nothing or of the end of its line.
CutShort(p) ==
    \/ UNCHANGED <<tail, torn>>
    \/ tail' = [tail EXCEPT ![At(p)] = "torn"] /\ torn' = TRUE

\* Seeded fault: a failed append is logged and swallowed.
JournalFailsSilently(p) ==
    /\ pc[p] = "loaded" /\ ~Refused(p) /\ Fault
    /\ CutShort(p)
    /\ degraded' = TRUE
    /\ cache' = [cache EXCEPT ![p][At(p)] = @ \cup {Txn(p)}]
    /\ Goto(p, "journaled")
    /\ UNCHANGED <<journal, file, lock, leg, opened, recon>>

\* The journal cannot be written: reload, which may find no snapshot, raise,
\* and so leave the lock.
JournalFails(p) ==
    /\ pc[p] = "loaded" /\ ~Refused(p) /\ Fault
    /\ CutShort(p)
    /\ degraded' = TRUE
    /\ cache' = [cache EXCEPT ![p][At(p)] = snap[At(p)]]
    /\ IF exists[At(p)] THEN Unlock(p) /\ Goto(p, "failed")
                        ELSE UNCHANGED lock /\ Goto(p, "unrecorded")
    /\ UNCHANGED <<journal, file, leg, opened, recon>>

Restore(p) ==
    /\ pc[p] = "unrecorded"
    /\ \/ WriteZero(At(p)) /\ UNCHANGED faults
       \/ Fault /\ UNCHANGED file
    /\ Unlock(p) /\ Goto(p, "failed")
    /\ UNCHANGED <<journal, tail, leg, opened, cache, recon, torn, degraded>>

\* The next leg of the call, or its end.
NextLeg(p) ==
    IF leg[p] < Len(Legs[p])
    THEN leg' = [leg EXCEPT ![p] = @ + 1] /\ Goto(p, "loaded") /\ UNCHANGED lock
    ELSE Unlock(p) /\ Goto(p, "done") /\ UNCHANGED leg

\* Step 2, the state.
Publish(p) ==
    /\ pc[p] = "journaled"
    /\ exists' = [exists EXCEPT ![At(p)] = TRUE]
    /\ snap' = [snap EXCEPT ![At(p)] = cache[p][At(p)]]
    /\ NextLeg(p)
    /\ UNCHANGED <<journal, tail, zeroed, opened, cache, recon, torn, degraded, faults>>

\* The snapshot cannot be written: logged, and the call goes on.
PublishFails(p) ==
    /\ pc[p] = "journaled" /\ Fault
    /\ degraded' = TRUE
    /\ NextLeg(p)
    /\ UNCHANGED <<disk, opened, cache, recon, torn>>

\* The process dies; the kernel drops its lock.
Crash(p) ==
    /\ pc[p] \notin {"start", "done", "failed"} /\ Fault
    /\ IF pc[p] = "loaded" THEN CutShort(p) ELSE UNCHANGED <<tail, torn>>
    /\ degraded' = TRUE
    /\ Unlock(p) /\ Goto(p, "failed")
    /\ UNCHANGED <<journal, file, leg, opened, cache, recon>>

----------------------------------------------------------------------------
(* reconcile_wallet: no lock, and the snapshot wins.                       *)

ReconcileRead ==
    /\ recon.pc = "start"
    /\ recon' = IF exists[Books]
                THEN [recon EXCEPT !.pc = "read", !.snapshot = replay_balance(snap[Books])]
                ELSE [recon EXCEPT !.pc = "absent"]
    /\ UNCHANGED <<disk, lock, pc, leg, opened, cache, torn, degraded, faults>>

\* The wallet it opened had no snapshot: a balance of zero.
ReconcileCreate ==
    /\ recon.pc = "absent"
    /\ \/ WriteZero(Books) /\ UNCHANGED faults
       \/ Fault /\ UNCHANGED file
    /\ recon' = [recon EXCEPT !.pc = "read"]
    /\ UNCHANGED <<journal, tail, lock, pc, leg, opened, cache, torn, degraded>>

ReconcileReplay ==
    /\ recon.pc = "read"
    /\ LET d == recon.snapshot - replay_balance(journal[Books]) IN
         recon' = [recon EXCEPT !.pc = IF d = 0 THEN "done" ELSE "write", !.delta = d]
    /\ UNCHANGED <<disk, lock, pc, leg, opened, cache, torn, degraded, faults>>

\* The correcting entry goes to the journal alone.
ReconcileWrite ==
    /\ recon.pc = "write"
    /\ AppendLine(Books, [by |-> Reconciler, delta |-> recon.delta])
    /\ recon' = [recon EXCEPT !.pc = "done"]
    /\ degraded' = TRUE
    /\ UNCHANGED <<file, lock, pc, leg, opened, cache, torn, faults>>

----------------------------------------------------------------------------

\* All calls have ended.
Ended == /\ \A p \in Procs : pc[p] \in {"done", "failed"}
         /\ recon.pc = "done"

Settle(p) == TakeLock(p) \/ LockTimeout(p) \/ reload(p)
Load(p) == Open(p) \/ FindNone(p) \/ Create(p) \/ CreateFails(p)
Persist(p) == \/ JournalLeg(p) \/ JournalFails(p) \/ Restore(p)
              \/ Publish(p) \/ PublishFails(p)
Reconcile == ReconcileRead \/ ReconcileCreate \/ ReconcileReplay \/ ReconcileWrite

Next == \/ \E p \in Procs : \/ Settle(p) \/ Load(p) \/ Insufficient(p)
                            \/ Persist(p) \/ Crash(p)
        \/ Reconcile
        \/ Ended /\ UNCHANGED vars

Spec == Init /\ [][Next]_vars

----------------------------------------------------------------------------
(* Properties.                                                             *)

\* A published balance is always explained by its journal: whatever crashes,
\* times out or overlaps, unless an append was cut short
\* (skjoule.py:727-737, 757-786).
SnapshotExplained == ~torn => \A w \in Wallets : snap[w] \subseteq journal[w]

\* While all writes of transactions are locked and whole, a wallet nobody holds
\* shows every mint of its journal: no mint is lost to a balance read too early
\* (skjoule.py:1288-1304), unless a process that had found no snapshot wrote
\* one of zero over the first one (skjoule.py:691-715).
LockedMintsAllCount ==
    ~degraded => \A w \in Wallets \ zeroed : lock[w] = NoProc => snap[w] = journal[w]

Debit(p)  == [by |-> p, delta |-> Legs[p][1].delta]
Credit(p) == [by |-> p, delta |-> Legs[p][2].delta]

\* A transfer never creates Joules: a credit in a journal has its debit in
\* the sender's, wherever the call stopped (skjoule.py:605-627).
CreditHasDebit ==
    ~torn => \A p \in Movers : \A w \in Wallets :
        (Len(Legs[p]) = 2 /\ Credit(p) \in journal[w])
            => Debit(p) \in journal[Legs[p][1].wallet]

----------------------------------------------------------------------------
(* The inductive invariant.                                                *)

\* An incomplete line is the mark of an append cut short, and that is a fault.
Tails == /\ torn => degraded
         /\ ~torn => \A w \in Wallets : tail[w] = "clean"

\* Nothing a process or a file accounts for is missing from the journal, and
\* a leg that is past its append is in it.
Explained ==
    ~torn => /\ \A w \in Wallets : snap[w] \subseteq journal[w]
             /\ \A p \in Procs, w \in Wallets : cache[p][w] \subseteq journal[w]
             /\ \A p \in Procs : pc[p] = "journaled" => Txn(p) \in journal[At(p)]

\* The second leg of a transfer begins when the first is in the journal.
DebitFirst ==
    ~torn => \A p \in Movers :
        /\ leg[p] = 2 => Debit(p) \in journal[Legs[p][1].wallet]
        /\ Len(Legs[p]) = 2 => \A w \in Wallets : Credit(p) \in journal[w] => leg[p] = 2

\* A wallet without a snapshot has no balance on disk.
NoneIsZero == \A w \in Wallets : ~exists[w] => snap[w] = {}

Inside(p) == pc[p] \in {"locked", "absent", "loaded", "journaled"}

\* While nothing went wrong, the holder of a wallet's lock is the one process
\* inside, and it has what the wallet's files have.
Exclusive ==
    ~degraded =>
        /\ \A p \in Movers : pc[p] = "start"
        /\ \A p \in Settlers : pc[p] # "unrecorded"
        /\ \A p \in Settlers : Inside(p) <=> lock[At(p)] = p
        /\ \A w \in Wallets : lock[w] # NoProc => At(lock[w]) = w
        /\ \A w \in Wallets \ zeroed : lock[w] = NoProc => snap[w] = journal[w]
        /\ \A p \in Settlers : At(p) \notin zeroed =>
              /\ pc[p] \in {"locked", "absent", "loaded"} => snap[At(p)] = journal[At(p)]
              /\ pc[p] \in {"loaded", "journaled"} => cache[p][At(p)] = journal[At(p)]

\* What the argument needs of the types: which wallets and processes there
\* are, and that a process is in a leg of its own call.
Shape ==
    /\ journal = [w \in Wallets |-> journal[w]]
    /\ snap = [w \in Wallets |-> snap[w]]
    /\ exists \in [Wallets -> BOOLEAN]
    /\ tail \in [Wallets -> {"clean", "torn"}]
    /\ lock \in [Wallets -> Settlers \cup {NoProc}]
    /\ pc \in [Procs -> {"start", "locked", "absent", "loaded", "journaled",
                         "unrecorded", "done", "failed"}]
    /\ leg \in [Procs -> Nat] /\ \A p \in Procs : leg[p] \in 1..Len(Legs[p])
    /\ opened \in [Procs -> Nat]
    /\ \A p \in Procs :
          /\ pc[p] \in {"start", "absent"} => opened[p] + 1 \in 1..Len(Legs[p])
          /\ pc[p] = "locked" => opened[p] = 0
    /\ cache = [p \in Procs |-> [w \in Wallets |-> cache[p][w]]]

IInv == Shape /\ Tails /\ Explained /\ DebitFirst /\ NoneIsZero /\ Exclusive
=============================================================================
