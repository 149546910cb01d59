------------------------- MODULE JouleWallet_proofs -------------------------
(***************************************************************************)
(* Proofs about JouleWallet, for any wallets, any number of settlements,    *)
(* spends and transfers of any amounts, and any number of faults.           *)
(***************************************************************************)
EXTENDS JouleWallet, TLAPS

\* A process is always in a leg of its own call, and a settlement has one.
LEMMA LegFacts ==
    ASSUME Shape, NEW p \in Procs
    PROVE  /\ At(p) \in Wallets
           /\ leg[p] \in Nat /\ leg[p] >= 1 /\ leg[p] <= Len(Legs[p])
           /\ Len(Legs[p]) \in {1, 2} /\ leg[p] \in {1, 2}
           /\ Legs[p][1].wallet \in Wallets /\ Legs[p][1].delta \in Int
           /\ p \in Settlers => leg[p] = 1 /\ Len(Legs[p]) = 1
           /\ pc[p] \in {"start", "absent"} => Opening(p) \in Wallets
<1> DEFINE T == [wallet : Wallets, delta : Int]
<1>1. Legs[p] \in Seq(T)
  BY WalletAssumption
<1>2. leg[p] \in 1..Len(Legs[p]) /\ leg[p] \in Nat
  BY DEF Shape
<1>3. Len(Legs[p]) \in {1, 2} /\ (p \in Settlers => Len(Legs[p]) = 1)
  BY WalletAssumption DEF Procs
<1> HIDE DEF T
<1>4. Legs[p][leg[p]] \in T
  BY <1>1, <1>2
<1>5. At(p) \in Wallets
  BY <1>4 DEF At, T
<1>6. leg[p] >= 1 /\ leg[p] <= Len(Legs[p]) /\ leg[p] \in {1, 2}
  <2> DEFINE n == Len(Legs[p])
  <2>1. n \in {1, 2}
    BY <1>3
  <2>2. leg[p] \in 1..n
    BY <1>2
  <2> HIDE DEF n
  <2>3. leg[p] >= 1 /\ leg[p] <= n /\ leg[p] \in {1, 2}
    BY <2>1, <2>2
  <2> QED
    BY <2>3 DEF n
<1>7. p \in Settlers => leg[p] = 1
  BY <1>2, <1>3
<1>8. Legs[p][1] \in T
  <2>1. 1 \in 1..Len(Legs[p])
    BY <1>3
  <2> QED
    BY <2>1, <1>1
<1>9. Legs[p][1].wallet \in Wallets /\ Legs[p][1].delta \in Int
  BY <1>8 DEF T
<1>10. pc[p] \in {"start", "absent"} => Opening(p) \in Wallets
  <2> SUFFICES ASSUME pc[p] \in {"start", "absent"} PROVE Opening(p) \in Wallets
    OBVIOUS
  <2>1. opened[p] + 1 \in 1..Len(Legs[p])
    BY DEF Shape
  <2>2. Legs[p][opened[p] + 1] \in T
    BY <2>1, <1>1
  <2> QED
    BY <2>2 DEF Opening, T
<1> QED
  BY <1>2, <1>3, <1>5, <1>6, <1>7, <1>9, <1>10

\* A settlement opens one wallet, the one it settles.
LEMMA SettlementOpens ==
    ASSUME Shape, NEW p \in Settlers, pc[p] \in {"start", "locked", "absent"}
    PROVE  /\ opened[p] = 0 /\ Opening(p) = At(p) /\ At(p) \in Wallets
           /\ Len(Legs[p]) = 1 /\ leg[p] = 1
<1>1. p \in Procs
  BY DEF Procs
<1>2. leg[p] = 1 /\ Len(Legs[p]) = 1 /\ At(p) \in Wallets
  BY <1>1, LegFacts
<1>3. opened[p] \in Nat /\ (pc[p] = "locked" => opened[p] = 0)
      /\ (pc[p] # "locked" => opened[p] + 1 \in 1..Len(Legs[p]))
  BY <1>1 DEF Shape
<1>4. opened[p] = 0
  BY <1>2, <1>3
<1> QED
  BY <1>1, <1>2, <1>4 DEF Opening, At

\* The empty wallets satisfy the inductive invariant.
LEMMA InitIInv == Init => IInv
<1> SUFFICES ASSUME Init PROVE IInv
  OBVIOUS
<1> USE WalletAssumption
<1>1. ~torn /\ ~degraded
  BY Zenon DEF Init
<1>2. leg \in [Procs -> Nat] /\ \A p \in Procs : leg[p] \in 1..Len(Legs[p])
  <2>1. \A p \in Procs : Len(Legs[p]) \in Nat /\ Len(Legs[p]) >= 1
    BY DEF Procs
  <2> QED
    BY <2>1 DEF Init
<1>3. Shape
  <2>1. \A p \in Procs : opened[p] = 0 /\ Len(Legs[p]) \in Nat /\ Len(Legs[p]) >= 1
    BY DEF Init, Procs
  <2>2. \A p \in Procs : opened[p] + 1 \in 1..Len(Legs[p])
    BY <2>1
  <2> QED
    BY <1>2, <2>2 DEF Init, Shape
<1>4. Tails
  BY <1>1 DEF Init, Tails
<1>5. Explained /\ DebitFirst
  BY <1>1 DEF Init, Explained, DebitFirst, Procs
<1>6. Exclusive
  <2>1. \A p \in Procs : At(p) \in Wallets /\ pc[p] = "start"
    BY <1>3, LegFacts DEF Init
  <2>2. \A w \in Wallets : lock[w] = NoProc /\ snap[w] = journal[w]
    BY DEF Init
  <2> QED
    BY <2>1, <2>2 DEF Exclusive, Inside, Procs
<1> QED
  BY <1>3, <1>4, <1>5, <1>6 DEF IInv, Init, NoneIsZero

----------------------------------------------------------------------------
(* Shape.                                                                  *)

\* The end of a leg keeps the shape of lock, leg and pc.
LEMMA NextLegShape ==
    ASSUME Shape, NEW p \in Procs, NextLeg(p)
    PROVE  /\ lock' \in [Wallets -> Settlers \cup {NoProc}]
           /\ pc' = [pc EXCEPT ![p] = "loaded"] \/ pc' = [pc EXCEPT ![p] = "done"]
           /\ leg' \in [Procs -> Nat] /\ \A q \in Procs : leg'[q] \in 1..Len(Legs[q])
<1>1. CASE leg[p] < Len(Legs[p])
  <2>1. leg' = [leg EXCEPT ![p] = @ + 1] /\ Goto(p, "loaded") /\ lock' = lock
    BY <1>1 DEF NextLeg
  <2>2. leg[p] + 1 \in 1..Len(Legs[p])
    BY <1>1, LegFacts
  <2> QED
    BY <2>1, <2>2 DEF Shape, Goto
<1>2. CASE ~(leg[p] < Len(Legs[p]))
  BY <1>2 DEF NextLeg, Shape, Goto, Unlock
<1> QED
  BY <1>1, <1>2

\* What a snapshot of zero does to the files.
LEMMA WriteZeroShape ==
    ASSUME Shape, NEW w \in Wallets, WriteZero(w)
    PROVE  /\ snap' = [v \in Wallets |-> snap'[v]]
           /\ exists' \in [Wallets -> BOOLEAN]
           /\ \A v \in Wallets : snap'[v] = IF v = w THEN {} ELSE snap[v]
           /\ \A v \in Wallets : exists'[v] = (v = w \/ exists[v])
           /\ zeroed' = IF exists[w] THEN zeroed \cup {w} ELSE zeroed
BY DEF WriteZero, Shape

\* The opening of a wallet leaves a process within its call.
LEMMA OpenedShape ==
    ASSUME Shape, NEW p \in Procs, pc[p] \in {"start", "absent"}, Opened(p)
    PROVE  /\ opened' \in [Procs -> Nat]
           /\ pc' \in [Procs -> {"start", "locked", "absent", "loaded", "journaled",
                                 "unrecorded", "done", "failed"}]
           /\ \A q \in Procs :
                 /\ pc'[q] \in {"start", "absent"} => opened'[q] + 1 \in 1..Len(Legs[q])
                 /\ pc'[q] = "locked" => opened'[q] = 0
<1>1. opened' = [opened EXCEPT ![p] = @ + 1]
  BY DEF Opened
<1>2. pc' = [pc EXCEPT ![p] = IF opened[p] + 1 < Len(Legs[p]) THEN "start" ELSE "loaded"]
  BY DEF Opened, Goto
<1>3. opened[p] \in Nat /\ Len(Legs[p]) \in Nat
  BY LegFacts DEF Shape
<1>4. pc'[p] \in {"start", "absent"} => opened'[p] + 1 \in 1..Len(Legs[p])
  <2> DEFINE n == Len(Legs[p])
  <2>1. pc'[p] \in {"start", "absent"} => opened[p] + 1 < n
    BY <1>2 DEF Shape
  <2>2. opened'[p] = opened[p] + 1
    BY <1>1 DEF Shape
  <2>3. n \in Nat
    BY <1>3
  <2> HIDE DEF n
  <2>4. pc'[p] \in {"start", "absent"} => opened'[p] + 1 \in 1..n
    BY <2>1, <2>2, <2>3, <1>3
  <2> QED
    BY <2>4 DEF n
<1>5. \A q \in Procs \ {p} : opened'[q] = opened[q] /\ pc'[q] = pc[q]
  BY <1>1, <1>2 DEF Shape
<1>6. pc'[p] # "locked"
  BY <1>2 DEF Shape
<1> QED
  BY <1>1, <1>2, <1>3, <1>4, <1>5, <1>6 DEF Shape

\* So does any other step of a process that opens nothing.
LEMMA OpenStays ==
    ASSUME Shape, NEW p \in Procs, opened' = opened,
           NEW l \in {"loaded", "journaled", "unrecorded", "done", "failed"},
           pc' = [pc EXCEPT ![p] = l]
    PROVE  /\ opened' \in [Procs -> Nat]
           /\ pc' \in [Procs -> {"start", "locked", "absent", "loaded", "journaled",
                                 "unrecorded", "done", "failed"}]
           /\ \A q \in Procs :
                 /\ pc'[q] \in {"start", "absent"} => opened'[q] + 1 \in 1..Len(Legs[q])
                 /\ pc'[q] = "locked" => opened'[q] = 0
<1>1. pc'[p] = l /\ \A q \in Procs \ {p} : pc'[q] = pc[q]
  BY DEF Shape
<1> QED
  BY <1>1 DEF Shape

\* Every step keeps the shape.
LEMMA NextShape == Shape /\ [Next]_vars => Shape'
<1> SUFFICES ASSUME Shape, [Next]_vars PROVE Shape'
  OBVIOUS
<1>1. ASSUME NEW p \in Procs, TakeLock(p) \/ LockTimeout(p) PROVE Shape'
  <2>1. opened[p] = 0
    BY <1>1, SettlementOpens DEF TakeLock, LockTimeout
  <2>2. pc' = [pc EXCEPT ![p] = "locked"] /\ opened' = opened
    BY <1>1 DEF TakeLock, LockTimeout, Goto
  <2>3. /\ UNCHANGED <<journal, snap, exists, tail, leg, cache>>
        /\ p \in Settlers
        /\ lock' = lock \/ lock' = [lock EXCEPT ![At(p)] = p]
    BY <1>1 DEF TakeLock, LockTimeout, disk, file
  <2>4. lock' \in [Wallets -> Settlers \cup {NoProc}]
    BY <2>3 DEF Shape
  <2>5. pc'[p] = "locked" /\ \A q \in Procs \ {p} : pc'[q] = pc[q]
    BY <2>2 DEF Shape
  <2>6. \A q \in Procs :
          /\ pc'[q] \in {"start", "absent"} => opened'[q] + 1 \in 1..Len(Legs[q])
          /\ pc'[q] = "locked" => opened'[q] = 0
    BY <2>1, <2>2, <2>5 DEF Shape
  <2> QED
    BY <2>2, <2>3, <2>4, <2>6 DEF Shape
<1>2. ASSUME NEW p \in Procs, reload(p) PROVE Shape'
  BY <1>2 DEF reload, Goto, disk, file, Shape
<1>3. ASSUME NEW p \in Procs, Open(p) PROVE Shape'
  BY <1>3, OpenedShape DEF Open, disk, file, Shape
<1>4. ASSUME NEW p \in Procs, FindNone(p) PROVE Shape'
  <2>1. opened[p] + 1 \in 1..Len(Legs[p])
    <3>1. CASE p \in Settlers
      <4>1. opened[p] = 0 /\ Len(Legs[p]) = 1
        BY <1>4, <3>1, SettlementOpens DEF FindNone
      <4> QED
        BY <4>1
    <3>2. CASE p \notin Settlers
      BY <1>4, <3>2 DEF FindNone, Shape
    <3> QED
      BY <3>1, <3>2
  <2> QED
    BY <1>4, <2>1 DEF FindNone, Goto, disk, file, Shape
<1>5. ASSUME NEW p \in Procs, Create(p) PROVE Shape'
  <2>1. pc[p] = "absent" /\ Opening(p) \in Wallets /\ WriteZero(Opening(p))
    BY <1>5, LegFacts DEF Create
  <2>2. snap' = [v \in Wallets |-> snap'[v]] /\ exists' \in [Wallets -> BOOLEAN]
    BY <2>1, WriteZeroShape
  <2>3. CASE p \in Settlers
    BY <1>5, <2>1, <2>2, <2>3, SettlementOpens DEF Create, Goto, Shape
  <2>4. CASE p \notin Settlers
    BY <1>5, <2>1, <2>2, <2>4, OpenedShape DEF Create, Shape
  <2> QED
    BY <2>3, <2>4
<1>6. ASSUME NEW p \in Procs, CreateFails(p) PROVE Shape'
  BY <1>6, OpenedShape DEF CreateFails, disk, file, Shape
<1>7. ASSUME NEW p \in Procs, Insufficient(p) PROVE Shape'
  BY <1>7 DEF Insufficient, Goto, disk, file, Shape
<1>8. ASSUME NEW p \in Procs, JournalLeg(p) PROVE Shape'
  BY <1>8 DEF JournalLeg, AppendLine, Goto, file, Shape
<1>9. ASSUME NEW p \in Procs, JournalFails(p) PROVE Shape'
  <2>1. PICK l \in {"failed", "unrecorded"} : pc' = [pc EXCEPT ![p] = l]
    BY <1>9 DEF JournalFails, Goto
  <2>2. /\ opened' = opened /\ UNCHANGED <<journal, snap, exists, leg>>
        /\ cache' = [cache EXCEPT ![p][At(p)] = snap[At(p)]]
        /\ tail' = tail \/ tail' = [tail EXCEPT ![At(p)] = "torn"]
        /\ lock' = lock \/ Unlock(p)
    BY <1>9 DEF JournalFails, CutShort, file
  <2>3. tail' \in [Wallets -> {"clean", "torn"}]
    BY <2>2 DEF Shape
  <2>4. lock' \in [Wallets -> Settlers \cup {NoProc}]
    BY <2>2 DEF Shape, Unlock
  <2>5. cache' = [q \in Procs |-> [w \in Wallets |-> cache'[q][w]]]
    BY <2>2 DEF Shape
  <2>6. UNCHANGED <<journal, snap, exists, leg>>
    BY <2>2
  <2>7. /\ opened' \in [Procs -> Nat]
        /\ pc' \in [Procs -> {"start", "locked", "absent", "loaded", "journaled",
                              "unrecorded", "done", "failed"}]
        /\ \A q \in Procs :
              /\ pc'[q] \in {"start", "absent"} => opened'[q] + 1 \in 1..Len(Legs[q])
              /\ pc'[q] = "locked" => opened'[q] = 0
    BY <2>1, <2>2, OpenStays
  <2> QED
    BY <2>3, <2>4, <2>5, <2>6, <2>7 DEF Shape
<1>10. ASSUME NEW p \in Procs, Restore(p) PROVE Shape'
  <2>1. snap' = [v \in Wallets |-> snap'[v]] /\ exists' \in [Wallets -> BOOLEAN]
    BY <1>10, LegFacts, WriteZeroShape DEF Restore, file, Shape
  <2> QED
    BY <1>10, <2>1 DEF Restore, Unlock, Goto, Shape
<1>11. ASSUME NEW p \in Procs, Publish(p) PROVE Shape'
  <2>1. /\ opened' = opened /\ UNCHANGED <<journal, tail, cache>> /\ NextLeg(p)
        /\ snap' = [snap EXCEPT ![At(p)] = cache[p][At(p)]]
        /\ exists' = [exists EXCEPT ![At(p)] = TRUE]
    BY <1>11 DEF Publish
  <2>2. /\ opened' \in [Procs -> Nat]
        /\ pc' \in [Procs -> {"start", "locked", "absent", "loaded", "journaled",
                              "unrecorded", "done", "failed"}]
        /\ \A q \in Procs :
              /\ pc'[q] \in {"start", "absent"} => opened'[q] + 1 \in 1..Len(Legs[q])
              /\ pc'[q] = "locked" => opened'[q] = 0
    BY <2>1, NextLegShape, OpenStays
  <2>3. /\ lock' \in [Wallets -> Settlers \cup {NoProc}]
        /\ leg' \in [Procs -> Nat] /\ \A q \in Procs : leg'[q] \in 1..Len(Legs[q])
    BY <2>1, NextLegShape
  <2>4. /\ snap' = [w \in Wallets |-> snap'[w]] /\ exists' \in [Wallets -> BOOLEAN]
    BY <2>1 DEF Shape
  <2> QED
    BY <2>1, <2>2, <2>3, <2>4 DEF Shape
<1>12. ASSUME NEW p \in Procs, PublishFails(p) PROVE Shape'
  BY <1>12, NextLegShape, OpenStays DEF PublishFails, disk, file, Shape
<1>13. ASSUME NEW p \in Procs, Crash(p) PROVE Shape'
  BY <1>13 DEF Crash, CutShort, Unlock, Goto, file, Shape
<1>14. CASE ReconcileRead \/ ReconcileReplay
  BY <1>14 DEF ReconcileRead, ReconcileReplay, disk, file, Shape
<1>15. CASE ReconcileCreate
  <2>1. snap' = [v \in Wallets |-> snap'[v]] /\ exists' \in [Wallets -> BOOLEAN]
    BY <1>15, WalletAssumption, WriteZeroShape DEF ReconcileCreate, file, Shape
  <2> QED
    BY <1>15, <2>1 DEF ReconcileCreate, Shape
<1>16. CASE ReconcileWrite
  BY <1>16 DEF ReconcileWrite, AppendLine, file, Shape
<1>17. CASE UNCHANGED vars
  BY <1>17 DEF vars, Shape
<1> QED
  BY <1>1, <1>2, <1>3, <1>4, <1>5, <1>6, <1>7, <1>8, <1>9, <1>10, <1>11, <1>12, <1>13,
     <1>14, <1>15, <1>16, <1>17 DEF Next, Settle, Load, Persist, Reconcile

----------------------------------------------------------------------------
(* Tails and Explained.                                                    *)

\* What the end of a leg does to each process.
LEMMA NextLegFacts ==
    ASSUME Shape, NEW p \in Procs, NextLeg(p)
    PROVE  /\ \A q \in Procs \ {p} : leg'[q] = leg[q] /\ pc'[q] = pc[q]
           /\ pc'[p] \in {"loaded", "done"}
           /\ leg'[p] # leg[p] => p \in Movers /\ leg[p] = 1 /\ leg'[p] = 2
           /\ p \in Settlers => /\ leg' = leg /\ pc'[p] = "done" /\ Unlock(p)
<1>1. CASE leg[p] < Len(Legs[p])
  <2>1. leg' = [leg EXCEPT ![p] = @ + 1] /\ Goto(p, "loaded") /\ lock' = lock
    BY <1>1 DEF NextLeg
  <2> DEFINE n == Len(Legs[p])
  <2>a. n \in {1, 2} /\ leg[p] \in Nat /\ leg[p] >= 1 /\ leg[p] < n
        /\ (p \in Settlers => n = 1)
    BY <1>1, LegFacts
  <2> HIDE DEF n
  <2>2. leg[p] = 1 /\ p \notin Settlers
    BY <2>a
  <2>3. p \in Movers
    BY <2>2 DEF Procs
  <2> QED
    BY <2>1, <2>2, <2>3 DEF Shape, Goto
<1>2. CASE ~(leg[p] < Len(Legs[p]))
  BY <1>2 DEF NextLeg, Shape, Goto
<1> QED
  BY <1>1, <1>2

\* Nothing is ever taken out of a journal.
LEMMA JournalGrows ==
    ASSUME Shape, [Next]_vars, NEW w \in Wallets PROVE journal[w] \subseteq journal'[w]
<1>1. ASSUME NEW p \in Procs, JournalLeg(p) PROVE journal[w] \subseteq journal'[w]
  BY <1>1, LegFacts DEF JournalLeg, AppendLine, Shape
<1>2. CASE ReconcileWrite
  BY <1>2 DEF ReconcileWrite, AppendLine, Shape
<1>3. ASSUME NEW p \in Procs, Settle(p) \/ Load(p) \/ Insufficient(p)
      PROVE  journal' = journal
  BY <1>3 DEF Settle, TakeLock, LockTimeout, reload, Load, Open, FindNone, Create,
              CreateFails, Insufficient, disk
<1>4. ASSUME NEW p \in Procs,
             JournalFails(p) \/ Restore(p) \/ Publish(p) \/ PublishFails(p) \/ Crash(p)
      PROVE  journal' = journal
  BY <1>4 DEF JournalFails, Restore, Publish, PublishFails, Crash, disk
<1>5. CASE ReconcileRead \/ ReconcileCreate \/ ReconcileReplay \/ UNCHANGED vars
  BY <1>5 DEF ReconcileRead, ReconcileCreate, ReconcileReplay, disk, vars
<1> QED
  BY <1>1, <1>2, <1>3, <1>4, <1>5 DEF Next, Persist, Reconcile

\* An append that was cut short is never forgotten.
LEMMA TornStays == ASSUME [Next]_vars, torn PROVE torn'
<1>1. ASSUME NEW p \in Procs, Settle(p) \/ Load(p) \/ Insufficient(p) PROVE torn' = torn
  BY <1>1, Zenon DEF Settle, TakeLock, LockTimeout, reload, Load, Open, FindNone, Create,
                     CreateFails, Insufficient
<1>2. ASSUME NEW p \in Procs, JournalLeg(p) \/ Restore(p) \/ Publish(p) \/ PublishFails(p)
      PROVE  torn' = torn
  BY <1>2, Zenon DEF JournalLeg, Restore, Publish, PublishFails
<1>3. ASSUME NEW p \in Procs, JournalFails(p) \/ Crash(p) PROVE torn' = torn \/ torn'
  BY <1>3, Zenon DEF JournalFails, Crash, CutShort
<1>4. CASE Reconcile \/ UNCHANGED vars
  BY <1>4, Zenon DEF Reconcile, ReconcileRead, ReconcileCreate, ReconcileReplay,
                     ReconcileWrite, vars
<1> QED
  BY <1>1, <1>2, <1>3, <1>4, Zenon DEF Next, Persist

\* A tail is torn by a fault, and by nothing else.
LEMMA NextTails == Shape /\ Tails /\ [Next]_vars => Tails'
<1> SUFFICES ASSUME Shape, Tails, [Next]_vars PROVE Tails'
  OBVIOUS
<1> USE DEF Tails
<1>1. ASSUME NEW p \in Procs, Settle(p) \/ Load(p) \/ Insufficient(p) PROVE Tails'
  <2>1. tail' = tail /\ torn' = torn /\ (degraded => degraded')
    BY <1>1, Zenon DEF Settle, TakeLock, LockTimeout, reload, Load, Open, FindNone, Create,
                       CreateFails, Insufficient, disk
  <2> QED
    BY <2>1
<1>2. ASSUME NEW p \in Procs, JournalLeg(p) PROVE Tails'
  <2>1. torn' = torn /\ degraded' = degraded
    BY <1>2, Zenon DEF JournalLeg
  <2>2. tail' = [tail EXCEPT ![At(p)] = "clean"]
    BY <1>2 DEF JournalLeg, AppendLine
  <2> QED
    BY <2>1, <2>2, LegFacts DEF Shape
<1>3. ASSUME NEW p \in Procs, JournalFails(p) \/ Crash(p) PROVE Tails'
  <2>1. degraded' /\ (torn' \/ (torn' = torn /\ tail' = tail))
    BY <1>3, Zenon DEF JournalFails, Crash, CutShort
  <2> QED
    BY <2>1
<1>4. ASSUME NEW p \in Procs, Restore(p) \/ Publish(p) \/ PublishFails(p) PROVE Tails'
  <2>1. tail' = tail /\ torn' = torn /\ (degraded => degraded')
    BY <1>4, Zenon DEF Restore, Publish, PublishFails, disk
  <2> QED
    BY <2>1
<1>5. CASE ReconcileRead \/ ReconcileCreate \/ ReconcileReplay \/ UNCHANGED vars
  <2>1. tail' = tail /\ torn' = torn /\ degraded' = degraded
    BY <1>5, Zenon DEF ReconcileRead, ReconcileCreate, ReconcileReplay, disk, vars
  <2> QED
    BY <2>1
<1>6. CASE ReconcileWrite
  <2>1. torn' = torn /\ degraded'
    BY <1>6, Zenon DEF ReconcileWrite
  <2>2. tail' = [tail EXCEPT ![Books] = "clean"]
    BY <1>6 DEF ReconcileWrite, AppendLine
  <2> QED
    BY <2>1, <2>2, WalletAssumption DEF Shape
<1> QED
  BY <1>1, <1>2, <1>3, <1>4, <1>5, <1>6 DEF Next, Persist, Reconcile

\* A leg that is journalled while no tail is torn is in the journal.
LEMMA AppendCounts ==
    ASSUME Shape, Tails, ~torn, NEW p \in Procs, JournalLeg(p)
    PROVE  /\ journal' = [journal EXCEPT ![At(p)] = @ \cup {Txn(p)}]
           /\ Txn(p) \in journal'[At(p)]
<1>1. tail[At(p)] = "clean"
  BY LegFacts DEF Tails
<1>2. journal' = [journal EXCEPT ![At(p)] = @ \cup {Txn(p)}]
  BY <1>1 DEF JournalLeg, AppendLine
<1> QED
  BY <1>2, LegFacts DEF Shape

\* No step publishes, or keeps in memory, what is not in the journal.
LEMMA NextExplained == Shape /\ Tails /\ Explained /\ [Next]_vars => Explained'
<1> SUFFICES ASSUME Shape, Tails, Explained, [Next]_vars, ~torn'
             PROVE  /\ \A w \in Wallets : snap'[w] \subseteq journal'[w]
                    /\ \A p \in Procs, w \in Wallets : cache'[p][w] \subseteq journal'[w]
                    /\ \A p \in Procs : pc'[p] = "journaled" => Txn(p)' \in journal'[At(p)']
  BY Zenon DEF Explained
<1> DEFINE Goal == /\ \A w \in Wallets : snap'[w] \subseteq journal'[w]
                   /\ \A p \in Procs, w \in Wallets : cache'[p][w] \subseteq journal'[w]
                   /\ \A p \in Procs : pc'[p] = "journaled" => Txn(p)' \in journal'[At(p)']
<1>a. ~torn
  BY TornStays, Zenon
<1>b. \A w \in Wallets : journal[w] \subseteq journal'[w]
  BY JournalGrows
<1>c. /\ \A w \in Wallets : snap[w] \subseteq journal[w]
      /\ \A p \in Procs, w \in Wallets : cache[p][w] \subseteq journal[w]
      /\ \A p \in Procs : pc[p] = "journaled" => Txn(p) \in journal[At(p)]
  BY <1>a, Zenon DEF Explained
<1>d. \A p \in Procs : At(p) \in Wallets
  BY LegFacts
\* a step that leaves leg alone and journals nothing
<1>e. ASSUME leg' = leg, \A q \in Procs : pc'[q] = "journaled" => pc[q] = "journaled"
      PROVE  \A q \in Procs : pc'[q] = "journaled" => Txn(q)' \in journal'[At(q)']
  <2> SUFFICES ASSUME NEW q \in Procs, pc'[q] = "journaled"
               PROVE  Txn(q)' \in journal'[At(q)']
    OBVIOUS
  <2>1. Txn(q)' = Txn(q) /\ At(q)' = At(q)
    BY <1>e DEF Txn, At
  <2>2. Txn(q) \in journal[At(q)]
    BY <1>c, <1>e
  <2> QED
    BY <2>1, <2>2, <1>b, <1>d
<1>1. ASSUME NEW p \in Procs, TakeLock(p) \/ LockTimeout(p) \/ Insufficient(p) PROVE Goal
  <2>1. snap' = snap /\ cache' = cache /\ leg' = leg
    BY <1>1 DEF TakeLock, LockTimeout, Insufficient, disk, file
  <2>2. \A q \in Procs : pc'[q] = "journaled" => pc[q] = "journaled"
    BY <1>1 DEF TakeLock, LockTimeout, Insufficient, Goto, Shape
  <2> QED
    BY <2>1, <2>2, <1>b, <1>c, <1>e
<1>2. ASSUME NEW p \in Procs, reload(p) \/ Open(p) PROVE Goal
  <2>1. /\ snap' = snap /\ leg' = leg
        /\ \/ cache' = [cache EXCEPT ![p][At(p)] = snap[At(p)]]
           \/ cache' = [cache EXCEPT ![p][Opening(p)] = snap[Opening(p)]]
    BY <1>2 DEF reload, Open, disk, file
  <2>2. \A q \in Procs : pc'[q] = "journaled" => pc[q] = "journaled"
    <3>1. PICK l \in {"loaded", "start"} : pc' = [pc EXCEPT ![p] = l]
      BY <1>2 DEF reload, Open, Opened, Goto
    <3> QED
      BY <3>1 DEF Shape
  <2>3. \A q \in Procs, w \in Wallets : cache'[q][w] = snap[w] \/ cache'[q][w] = cache[q][w]
    <3>1. ASSUME NEW v, cache' = [cache EXCEPT ![p][v] = snap[v]], NEW q \in Procs,
                 NEW w \in Wallets
          PROVE  cache'[q][w] = snap[w] \/ cache'[q][w] = cache[q][w]
      BY <3>1 DEF Shape
    <3> QED
      BY <2>1, <3>1
  <2> QED
    BY <2>1, <2>2, <2>3, <1>b, <1>c, <1>e
<1>2a. ASSUME NEW p \in Procs, FindNone(p) \/ Create(p) \/ CreateFails(p) PROVE Goal
  <2>1. \/ snap' = snap
        \/ pc[p] = "absent" /\ WriteZero(Opening(p))
    BY <1>2a DEF FindNone, Create, CreateFails, disk, file
  <2>2. leg' = leg /\ (cache' = cache \/ cache' = [cache EXCEPT ![p][Opening(p)] = {}])
    BY <1>2a, Zenon DEF FindNone, Create, CreateFails
  <2>3. \A w \in Wallets : snap'[w] = snap[w] \/ snap'[w] = {}
    BY <2>1, LegFacts, WriteZeroShape
  <2>4. \A q \in Procs, w \in Wallets : cache'[q][w] = {} \/ cache'[q][w] = cache[q][w]
    <3>1. ASSUME NEW v, cache' = [cache EXCEPT ![p][v] = {}], NEW q \in Procs,
                 NEW w \in Wallets
          PROVE  cache'[q][w] = {} \/ cache'[q][w] = cache[q][w]
      BY <3>1 DEF Shape
    <3> QED
      BY <2>2, <3>1
  <2>5. \A q \in Procs : pc'[q] = "journaled" => pc[q] = "journaled"
    <3>1. PICK l \in {"loaded", "start", "locked", "absent"} : pc' = [pc EXCEPT ![p] = l]
      BY <1>2a DEF FindNone, Create, CreateFails, Opened, Goto
    <3> QED
      BY <3>1 DEF Shape
  <2> QED
    BY <2>2, <2>3, <2>4, <2>5, <1>b, <1>c, <1>e
<1>3. ASSUME NEW p \in Procs, JournalLeg(p) PROVE Goal
  <2>1. snap' = snap /\ leg' = leg /\ cache' = [cache EXCEPT ![p][At(p)] = @ \cup {Txn(p)}]
    BY <1>3 DEF JournalLeg, file
  <2>2. Txn(p) \in journal'[At(p)]
    BY <1>3, <1>a, AppendCounts
  <2>3. \A q \in Procs, w \in Wallets : \/ cache'[q][w] = cache[q][w]
                                        \/ /\ w = At(p)
                                           /\ cache'[q][w] = cache[q][w] \cup {Txn(p)}
    BY <2>1 DEF Shape
  <2>4. \A q \in Procs, w \in Wallets : cache'[q][w] \subseteq journal'[w]
    BY <2>2, <2>3, <1>b, <1>c
  <2>5. ASSUME NEW q \in Procs, pc'[q] = "journaled" PROVE Txn(q)' \in journal'[At(q)']
    <3>1. Txn(q)' = Txn(q) /\ At(q)' = At(q)
      BY <2>1 DEF Txn, At
    <3>2. q = p \/ pc[q] = "journaled"
      BY <1>3, <2>5 DEF JournalLeg, Goto, Shape
    <3> QED
      BY <3>1, <3>2, <2>2, <1>b, <1>c, <1>d
  <2> QED
    BY <2>1, <2>4, <2>5, <1>b, <1>c
<1>4. ASSUME NEW p \in Procs, JournalFails(p) PROVE Goal
  <2>1. snap' = snap /\ leg' = leg /\ cache' = [cache EXCEPT ![p][At(p)] = snap[At(p)]]
    BY <1>4 DEF JournalFails, file
  <2>2. \A q \in Procs : pc'[q] = "journaled" => pc[q] = "journaled"
    BY <1>4 DEF JournalFails, Goto, Shape
  <2>3. \A q \in Procs, w \in Wallets : cache'[q][w] = snap[w] \/ cache'[q][w] = cache[q][w]
    BY <2>1 DEF Shape
  <2> QED
    BY <2>1, <2>2, <2>3, <1>b, <1>c, <1>e
<1>5. ASSUME NEW p \in Procs, Publish(p) \/ PublishFails(p) PROVE Goal
  <2>1. cache' = cache /\ NextLeg(p)
    BY <1>5 DEF Publish, PublishFails
  <2>2. snap' = snap \/ snap' = [snap EXCEPT ![At(p)] = cache[p][At(p)]]
    BY <1>5 DEF Publish, PublishFails, disk, file
  <2>3. \A w \in Wallets : snap'[w] = snap[w] \/ snap'[w] = cache[p][w]
    BY <2>2 DEF Shape
  <2>4. ASSUME NEW q \in Procs, pc'[q] = "journaled" PROVE Txn(q)' \in journal'[At(q)']
    <3>1. q # p /\ leg'[q] = leg[q] /\ pc[q] = "journaled"
      BY <2>1, <2>4, NextLegFacts
    <3>2. Txn(q)' = Txn(q) /\ At(q)' = At(q)
      BY <3>1 DEF Txn, At
    <3> QED
      BY <3>1, <3>2, <1>b, <1>c, <1>d
  <2> QED
    BY <2>1, <2>3, <2>4, <1>b, <1>c
<1>6. ASSUME NEW p \in Procs, Crash(p) PROVE Goal
  <2>1. snap' = snap /\ cache' = cache /\ leg' = leg
    BY <1>6 DEF Crash, file
  <2>2. \A q \in Procs : pc'[q] = "journaled" => pc[q] = "journaled"
    BY <1>6 DEF Crash, Goto, Shape
  <2> QED
    BY <2>1, <2>2, <1>b, <1>c, <1>e
<1>6a. ASSUME NEW p \in Procs, Restore(p) PROVE Goal
  <2>1. cache' = cache /\ leg' = leg /\ (snap' = snap \/ WriteZero(At(p)))
    BY <1>6a DEF Restore, file
  <2>2. \A w \in Wallets : snap'[w] = snap[w] \/ snap'[w] = {}
    BY <2>1, <1>d, WriteZeroShape
  <2>3. \A q \in Procs : pc'[q] = "journaled" => pc[q] = "journaled"
    BY <1>6a DEF Restore, Goto, Shape
  <2> QED
    BY <2>1, <2>2, <2>3, <1>b, <1>c, <1>e
<1>7. CASE Reconcile \/ UNCHANGED vars
  <2>1. /\ cache' = cache /\ leg' = leg /\ pc' = pc
        /\ snap' = snap \/ WriteZero(Books)
    BY <1>7 DEF Reconcile, ReconcileRead, ReconcileCreate, ReconcileReplay, ReconcileWrite,
                disk, file, vars
  <2>2. \A w \in Wallets : snap'[w] = snap[w] \/ snap'[w] = {}
    BY <2>1, WalletAssumption, WriteZeroShape
  <2> QED
    BY <2>1, <2>2, <1>b, <1>c, <1>e
<1> QED
  BY <1>1, <1>2, <1>2a, <1>3, <1>4, <1>5, <1>6, <1>6a, <1>7 DEF Next, Settle, Load, Persist

----------------------------------------------------------------------------
(* DebitFirst.                                                             *)

\* A process moves to its second leg from its first, past the append, and
\* never back.
LEMMA LegMoves ==
    ASSUME Shape, [Next]_vars, NEW p \in Procs, leg'[p] # leg[p]
    PROVE  p \in Movers /\ leg[p] = 1 /\ leg'[p] = 2 /\ pc[p] = "journaled"
<1>1. ASSUME NEW q \in Procs, Settle(q) \/ Load(q) \/ Insufficient(q) PROVE FALSE
  BY <1>1 DEF Settle, TakeLock, LockTimeout, reload, Load, Open, FindNone, Create,
              CreateFails, Insufficient
<1>2. ASSUME NEW q \in Procs, JournalLeg(q) \/ JournalFails(q) \/ Restore(q) \/ Crash(q)
      PROVE  FALSE
  BY <1>2 DEF JournalLeg, JournalFails, Restore, Crash
<1>3. ASSUME Reconcile \/ UNCHANGED vars PROVE FALSE
  BY <1>3 DEF Reconcile, ReconcileRead, ReconcileCreate, ReconcileReplay, ReconcileWrite, vars
<1>4. PICK q \in Procs : Publish(q) \/ PublishFails(q)
  BY <1>1, <1>2, <1>3 DEF Next, Persist
<1>5. NextLeg(q) /\ pc[q] = "journaled"
  BY <1>4 DEF Publish, PublishFails
<1>6. q = p
  BY <1>5, NextLegFacts
<1> QED
  BY <1>5, <1>6, NextLegFacts

\* The two legs of a transfer are different transactions.
LEMMA CreditIsNotDebit ==
    ASSUME Shape, NEW p \in Movers, Len(Legs[p]) = 2, Txn(p) = Credit(p)
    PROVE  leg[p] = 2
<1>1. p \in Procs
  BY DEF Procs
<1>2. leg[p] \in {1, 2}
  BY <1>1, LegFacts
<1>3. Legs[p][1].delta \in Int
  BY <1>1, LegFacts
<1>4. Legs[p][1].delta < 0 /\ Legs[p][2].delta = -Legs[p][1].delta
  BY WalletAssumption
<1>5. Legs[p][1].delta # Legs[p][2].delta
  BY <1>3, <1>4
<1> QED
  BY <1>2, <1>5 DEF Txn, Credit

\* A step puts into a journal the leg a process is in, or a correction.
LEMMA JournalGains ==
    ASSUME Shape, [Next]_vars, NEW w \in Wallets, NEW t \in journal'[w]
    PROVE  \/ t \in journal[w] \/ t.by = Reconciler
           \/ \E q \in Procs : JournalLeg(q) /\ t = Txn(q)
<1>1. ASSUME NEW q \in Procs, JournalLeg(q)
      PROVE  t \in journal[w] \/ t = Txn(q)
  BY <1>1 DEF JournalLeg, AppendLine, Shape
<1>2. CASE ReconcileWrite
  <2> DEFINE c == [by |-> Reconciler, delta |-> recon.delta]
  <2>1. journal' = [journal EXCEPT ![Books] =
                      IF tail[Books] = "torn" THEN @ ELSE @ \cup {c}]
    BY <1>2 DEF ReconcileWrite, AppendLine
  <2>2. t \in journal[w] \/ t = c
    BY <2>1 DEF Shape
  <2> QED
    BY <2>2
<1>3. ASSUME NEW q \in Procs, Settle(q) \/ Load(q) \/ Insufficient(q)
      PROVE  journal' = journal
  BY <1>3 DEF Settle, TakeLock, LockTimeout, reload, Load, Open, FindNone, Create,
              CreateFails, Insufficient, disk
<1>4. ASSUME NEW q \in Procs,
             JournalFails(q) \/ Restore(q) \/ Publish(q) \/ PublishFails(q) \/ Crash(q)
      PROVE  journal' = journal
  BY <1>4 DEF JournalFails, Restore, Publish, PublishFails, Crash, disk
<1>5. CASE ReconcileRead \/ ReconcileCreate \/ ReconcileReplay \/ UNCHANGED vars
  BY <1>5 DEF ReconcileRead, ReconcileCreate, ReconcileReplay, disk, vars
<1> QED
  BY <1>1, <1>2, <1>3, <1>4, <1>5 DEF Next, Persist, Reconcile

\* A transfer credits only once its debit is in the journal.
LEMMA NextDebitFirst ==
    Shape /\ Explained /\ DebitFirst /\ [Next]_vars => DebitFirst'
<1> SUFFICES ASSUME Shape, Explained, DebitFirst, [Next]_vars, ~torn', NEW p \in Movers
             PROVE  /\ leg'[p] = 2 => Debit(p) \in journal'[Legs[p][1].wallet]
                    /\ Len(Legs[p]) = 2 =>
                          \A w \in Wallets : Credit(p) \in journal'[w] => leg'[p] = 2
  BY Zenon DEF DebitFirst, Debit, Credit
<1>a. ~torn
  BY TornStays, Zenon
<1>b. /\ leg[p] = 2 => Debit(p) \in journal[Legs[p][1].wallet]
      /\ Len(Legs[p]) = 2 => \A w \in Wallets : Credit(p) \in journal[w] => leg[p] = 2
  BY <1>a, Zenon DEF DebitFirst
<1>c. p \in Procs
  BY DEF Procs
<1>d. Legs[p][1].wallet \in Wallets
  BY <1>c, LegFacts
<1>1. leg'[p] = 2 => Debit(p) \in journal'[Legs[p][1].wallet]
  <2>1. CASE leg'[p] = leg[p]
    BY <2>1, <1>b, <1>d, JournalGrows
  <2>2. CASE leg'[p] # leg[p]
    <3>1. leg[p] = 1 /\ pc[p] = "journaled"
      BY <2>2, <1>c, LegMoves
    <3>2. Txn(p) \in journal[At(p)]
      BY <3>1, <1>a, <1>c, Zenon DEF Explained
    <3>3. Debit(p) \in journal[Legs[p][1].wallet]
      BY <3>1, <3>2 DEF Txn, At, Debit
    <3> QED
      BY <3>3, <1>d, JournalGrows
  <2> QED
    BY <2>1, <2>2
<1>2. ASSUME Len(Legs[p]) = 2, NEW w \in Wallets, Credit(p) \in journal'[w]
      PROVE  leg'[p] = 2
  <2>1. CASE Credit(p) \in journal[w]
    BY <2>1, <1>2, <1>b, <1>c, LegMoves
  <2>2. CASE Credit(p) \notin journal[w]
    <3>1. Credit(p).by = p /\ p # Reconciler
      BY <1>c, WalletAssumption DEF Credit
    <3>2. PICK q \in Procs : JournalLeg(q) /\ Credit(p) = Txn(q)
      BY <2>2, <3>1, <1>2, JournalGains
    <3>3. q = p
      BY <3>1, <3>2 DEF Txn
    <3>4. leg[p] = 2
      BY <3>2, <3>3, <1>2, CreditIsNotDebit
    <3> QED
      BY <3>4, <1>c, LegMoves
  <2> QED
    BY <2>1, <2>2
<1> QED
  BY <1>1, <1>2

----------------------------------------------------------------------------
(* Exclusive.                                                              *)

\* What a step that is neither a fault nor a direct call can be.
LEMMA CleanSteps ==
    ASSUME Shape, Exclusive, [Next]_vars, ~degraded'
    PROVE  /\ ~degraded
           /\ \/ \E p \in Settlers : \/ TakeLock(p) \/ reload(p) \/ FindNone(p) \/ Create(p)
                                     \/ JournalLeg(p) \/ Publish(p)
              \/ WriteZero(Books) /\ UNCHANGED <<journal, lock, pc, leg, cache>>
              \/ UNCHANGED <<journal, exists, snap, zeroed, lock, pc, leg, cache>>
<1>1. ASSUME NEW p \in Procs, LockTimeout(p) \/ Open(p) PROVE FALSE
  BY <1>1, Zenon DEF LockTimeout, Open
<1>2. ASSUME NEW p \in Procs,
             JournalFails(p) \/ PublishFails(p) \/ Crash(p) \/ CreateFails(p)
      PROVE  FALSE
  BY <1>2, Zenon DEF JournalFails, PublishFails, Crash, CreateFails
<1>3. CASE ReconcileWrite
  BY <1>3, Zenon DEF ReconcileWrite
<1>4. CASE ReconcileRead \/ ReconcileCreate \/ ReconcileReplay \/ UNCHANGED vars
  <2>1. degraded' = degraded
    BY <1>4, Zenon DEF ReconcileRead, ReconcileCreate, ReconcileReplay, vars
  <2>2. /\ UNCHANGED <<journal, lock, pc, leg, cache>>
        /\ WriteZero(Books) \/ UNCHANGED <<exists, snap, zeroed>>
    BY <1>4 DEF ReconcileRead, ReconcileCreate, ReconcileReplay, disk, file, vars
  <2> QED
    BY <2>1, <2>2, Zenon
<1>5. ASSUME NEW p \in Procs,
             \/ TakeLock(p) \/ reload(p) \/ FindNone(p) \/ Create(p) \/ Insufficient(p)
             \/ JournalLeg(p) \/ Restore(p) \/ Publish(p)
      PROVE  ~degraded /\ (p \in Movers => FALSE)
  <2>1. degraded => degraded'
    BY <1>5, Zenon DEF TakeLock, reload, FindNone, Create, Insufficient, JournalLeg, Restore,
                       Publish
  <2>2. ~degraded
    BY <2>1, Zenon
  <2>3. p \in Movers => pc[p] = "start"
    BY <2>2, Zenon DEF Exclusive
  <2>4. pc[p] = "start" => p \in Settlers
    <3>1. CASE FindNone(p)
      BY <3>1, Zenon DEF FindNone, Procs
    <3>2. CASE ~FindNone(p)
      BY <1>5, <3>2 DEF TakeLock, reload, Create, Insufficient, JournalLeg, Restore, Publish
    <3> QED
      BY <3>1, <3>2
  <2> QED
    BY <2>2, <2>3, <2>4, WalletAssumption
<1>6. ASSUME NEW p \in Procs, Insufficient(p) PROVE FALSE
  BY <1>5, <1>6 DEF Insufficient, Refused
<1>7. ASSUME NEW p \in Procs, Restore(p) PROVE FALSE
  <2>1. ~degraded /\ p \in Settlers /\ pc[p] = "unrecorded"
    BY <1>5, <1>7 DEF Restore, Procs
  <2> QED
    BY <2>1, Zenon DEF Exclusive
<1> QED
  BY <1>1, <1>2, <1>3, <1>4, <1>5, <1>6, <1>7, Zenon
     DEF Next, Settle, Load, Persist, Reconcile, Procs

\* A wallet without a snapshot stays without a balance until it has one.
LEMMA NextNoneIsZero == Shape /\ NoneIsZero /\ [Next]_vars => NoneIsZero'
<1> SUFFICES ASSUME Shape, NoneIsZero, [Next]_vars, NEW w \in Wallets
             PROVE  ~exists'[w] => snap'[w] = {}
  BY DEF NoneIsZero
<1>a. ~exists[w] => snap[w] = {}
  BY DEF NoneIsZero
<1>1. ASSUME NEW p \in Procs, Settle(p) \/ Load(p) \/ Insufficient(p)
      PROVE  \/ UNCHANGED <<exists, snap>>
             \/ pc[p] = "absent" /\ WriteZero(Opening(p))
  BY <1>1 DEF Settle, TakeLock, LockTimeout, reload, Load, Open, FindNone, Create,
              CreateFails, Insufficient, disk, file
<1>2. ASSUME NEW p \in Procs, JournalLeg(p) \/ JournalFails(p) \/ PublishFails(p) \/ Crash(p)
      PROVE  UNCHANGED <<exists, snap>>
  BY <1>2 DEF JournalLeg, JournalFails, PublishFails, Crash, disk, file
<1>3. ASSUME NEW p \in Procs, Restore(p)
      PROVE  UNCHANGED <<exists, snap>> \/ WriteZero(At(p))
  BY <1>3 DEF Restore, file
<1>4. ASSUME NEW p \in Procs, Publish(p) PROVE ~exists'[w] => snap'[w] = {}
  BY <1>4, <1>a, LegFacts DEF Publish, Shape
<1>5. CASE Reconcile \/ UNCHANGED vars
  <2>1. UNCHANGED <<exists, snap>> \/ WriteZero(Books)
    BY <1>5 DEF Reconcile, ReconcileRead, ReconcileCreate, ReconcileReplay, ReconcileWrite,
                disk, file, vars
  <2> QED
    BY <2>1, <1>a, WalletAssumption, WriteZeroShape
<1> QED
  BY <1>a, <1>1, <1>2, <1>3, <1>4, <1>5, LegFacts, WriteZeroShape DEF Next, Persist

\* A snapshot of zero changes a wallet only if it replaces another.
LEMMA ZeroesOnlyZero ==
    ASSUME Shape, NoneIsZero, NEW v \in Wallets, WriteZero(v)
    PROVE  /\ zeroed \subseteq zeroed'
           /\ \A w \in Wallets : w \notin zeroed' => snap'[w] = snap[w]
<1>1. /\ \A w \in Wallets : snap'[w] = IF w = v THEN {} ELSE snap[w]
      /\ zeroed' = IF exists[v] THEN zeroed \cup {v} ELSE zeroed
  BY WriteZeroShape
<1>2. v \notin zeroed' => snap[v] = {}
  BY <1>1 DEF NoneIsZero
<1> QED
  BY <1>1, <1>2

\* The lock keeps settlements of one wallet apart.
LEMMA NextExclusive ==
    Shape /\ Tails /\ NoneIsZero /\ Exclusive /\ [Next]_vars => Exclusive'
<1> SUFFICES ASSUME Shape, Tails, NoneIsZero, Exclusive, [Next]_vars, ~degraded'
             PROVE  Exclusive'
  BY Zenon DEF Exclusive
<1> DEFINE Parts ==
        /\ \A p \in Movers : pc[p] = "start"
        /\ \A p \in Settlers : pc[p] # "unrecorded"
        /\ \A p \in Settlers : Inside(p) <=> lock[At(p)] = p
        /\ \A w \in Wallets : lock[w] # NoProc => At(lock[w]) = w
        /\ \A w \in Wallets \ zeroed : lock[w] = NoProc => snap[w] = journal[w]
        /\ \A p \in Settlers : At(p) \notin zeroed =>
              /\ pc[p] \in {"locked", "absent", "loaded"} => snap[At(p)] = journal[At(p)]
              /\ pc[p] \in {"loaded", "journaled"} => cache[p][At(p)] = journal[At(p)]
<1>a. ~degraded /\ Parts
  BY CleanSteps, Zenon DEF Exclusive
<1>b. ~torn
  BY <1>a, Zenon DEF Tails
<1>c. \A p \in Settlers : p \in Procs /\ p \notin Movers /\ p # NoProc /\ At(p) \in Wallets
  BY LegFacts, WalletAssumption DEF Procs
<1>d. \A w \in Wallets : lock[w] \in Settlers \cup {NoProc}
  BY DEF Shape
<1>e. \A p \in Movers : p \notin Settlers /\ p \in Procs
  BY WalletAssumption DEF Procs
<1> SUFFICES Parts'
  BY Zenon DEF Exclusive
<1>1. ASSUME NEW p \in Settlers, TakeLock(p) PROVE Parts'
  <2>1. /\ pc[p] = "start" /\ lock[At(p)] = NoProc
        /\ lock' = [lock EXCEPT ![At(p)] = p] /\ pc' = [pc EXCEPT ![p] = "locked"]
        /\ UNCHANGED <<journal, snap, zeroed, leg, cache>>
    BY <1>1 DEF TakeLock, Goto, disk, file
  <2>2. \A q \in Procs : At(q)' = At(q)
    BY <2>1 DEF At
  <2>3. \A q \in Procs : pc'[q] = IF q = p THEN "locked" ELSE pc[q]
    BY <2>1 DEF Shape
  <2>4. \A w \in Wallets : lock'[w] = IF w = At(p) THEN p ELSE lock[w]
    BY <2>1 DEF Shape
  <2>5. \A q \in Settlers : Inside(q)' <=> lock'[At(q)] = q
    BY <2>3, <2>4, <1>a, <1>c, <2>1 DEF Inside
  <2>6. \A w \in Wallets : lock'[w] # NoProc => At(lock'[w]) = w
    BY <2>4, <1>a, <1>c, <1>d
  <2>7. \A w \in Wallets : lock'[w] # NoProc => At(lock[w])' = w
    BY <2>6, <2>1, <2>4, <1>c, <1>d DEF At
  <2>8. At(p) \notin zeroed => snap[At(p)] = journal[At(p)]
    BY <2>1, <1>a, <1>c
  <2> QED
    BY <2>1, <2>2, <2>3, <2>4, <2>5, <2>7, <2>8, <1>a, <1>c, <1>e
\* a step of the holder that changes no file and leaves it in the lock
<1>2. ASSUME NEW p \in Settlers, reload(p) \/ FindNone(p) PROVE Parts'
  <2>1. /\ pc[p] = "locked"
        /\ pc' = [pc EXCEPT ![p] = IF reload(p) THEN "loaded" ELSE "absent"]
        /\ cache' = IF reload(p) THEN [cache EXCEPT ![p][At(p)] = snap[At(p)]] ELSE cache
        /\ UNCHANGED <<journal, snap, zeroed, leg, lock>>
    BY <1>2 DEF reload, FindNone, Goto, disk, file
  <2>2. \A q : At(q)' = At(q)
    BY <2>1 DEF At
  <2>3. \A q \in Procs : pc'[q] = IF q = p THEN IF reload(p) THEN "loaded" ELSE "absent"
                                 ELSE pc[q]
    BY <2>1 DEF Shape
  <2>4. /\ \A q \in Settlers \ {p} : cache'[q][At(q)] = cache[q][At(q)]
        /\ reload(p) => cache'[p][At(p)] = snap[At(p)]
    BY <2>1, <1>c DEF Shape
  <2>5. \A q \in Settlers : Inside(q)' <=> Inside(q)
    BY <2>1, <2>3, <1>c DEF Inside
  <2> QED
    BY <2>1, <2>2, <2>3, <2>4, <2>5, <1>a, <1>c, <1>e
<1>2a. ASSUME NEW p \in Settlers, Create(p) PROVE Parts'
  <2>1. /\ pc[p] = "absent" /\ Opening(p) = At(p) /\ WriteZero(At(p))
        /\ pc' = [pc EXCEPT ![p] = "locked"]
        /\ cache' = [cache EXCEPT ![p][At(p)] = {}]
        /\ UNCHANGED <<journal, leg, lock>>
    BY <1>2a, SettlementOpens DEF Create, Goto
  <2>2. \A q : At(q)' = At(q)
    BY <2>1 DEF At
  <2>3. \A q \in Procs : pc'[q] = IF q = p THEN "locked" ELSE pc[q]
    BY <2>1 DEF Shape
  <2>4. \A q \in Settlers \ {p} : cache'[q][At(q)] = cache[q][At(q)]
    BY <2>1, <1>c DEF Shape
  <2>5. \A q \in Settlers : Inside(q)' <=> Inside(q)
    BY <2>1, <2>3, <1>c DEF Inside
  <2>6. /\ zeroed \subseteq zeroed'
        /\ \A w \in Wallets : w \notin zeroed' => snap'[w] = snap[w]
    BY <2>1, <1>c, ZeroesOnlyZero
  <2>7. \A q \in Movers : pc'[q] = "start"
    BY <2>3, <1>a, <1>e
  <2>8. \A q \in Settlers : pc'[q] # "unrecorded"
    BY <2>3, <1>a, <1>c
  <2>9. \A w \in Wallets \ zeroed' : lock'[w] = NoProc => snap'[w] = journal'[w]
    BY <2>1, <2>6, <1>a
  <2>10. ASSUME NEW q \in Settlers, At(q) \notin zeroed'
         PROVE  /\ pc'[q] \in {"locked", "absent", "loaded"} =>
                     snap'[At(q)] = journal'[At(q)]
                /\ pc'[q] \in {"loaded", "journaled"} =>
                     cache'[q][At(q)] = journal'[At(q)]
    BY <2>10, <2>1, <2>3, <2>4, <2>6, <1>a, <1>c
  <2>11. \A q \in Settlers : Inside(q)' <=> lock'[At(q)'] = q
    BY <2>1, <2>2, <2>5, <1>a
  <2>12. \A w \in Wallets : lock'[w] # NoProc => At(lock[w])' = w
    BY <2>1, <2>2, <1>a
  <2> QED
    BY <2>2, <2>7, <2>8, <2>9, <2>10, <2>11, <2>12
<1>3. ASSUME NEW p \in Settlers, JournalLeg(p) PROVE Parts'
  <2>1. /\ pc[p] = "loaded" /\ pc' = [pc EXCEPT ![p] = "journaled"]
        /\ cache' = [cache EXCEPT ![p][At(p)] = @ \cup {Txn(p)}]
        /\ UNCHANGED <<snap, zeroed, leg, lock>>
    BY <1>3 DEF JournalLeg, Goto, file
  <2>2. \A q : At(q)' = At(q)
    BY <2>1 DEF At
  <2>3. \A q \in Procs : pc'[q] = IF q = p THEN "journaled" ELSE pc[q]
    BY <2>1 DEF Shape
  <2>4. \A q \in Settlers : cache'[q][At(q)] =
            IF q = p THEN cache[p][At(p)] \cup {Txn(p)} ELSE cache[q][At(q)]
    BY <2>1, <1>c DEF Shape
  <2>5. \A w \in Wallets : journal'[w] =
            IF w = At(p) THEN journal[w] \cup {Txn(p)} ELSE journal[w]
    <3>1. journal' = [journal EXCEPT ![At(p)] = @ \cup {Txn(p)}]
      BY <1>3, <1>b, <1>c, AppendCounts
    <3> QED
      BY <3>1, <1>c DEF Shape
  <2>6. lock[At(p)] = p
    BY <1>a, <2>1 DEF Inside
  <2>7. \A q \in Settlers : Inside(q)' <=> Inside(q)
    BY <2>1, <2>3, <1>c DEF Inside
  <2>8. \A q \in Settlers \ {p} : Inside(q) => At(q) # At(p)
    BY <2>6, <1>a
  <2>9. ASSUME NEW q \in Settlers, At(q) \notin zeroed
        PROVE  /\ pc'[q] \in {"locked", "absent", "loaded"} => snap[At(q)] = journal'[At(q)]
               /\ pc'[q] \in {"loaded", "journaled"} => cache'[q][At(q)] = journal'[At(q)]
    <3>1. CASE q = p
      BY <3>1, <2>9, <2>1, <2>3, <2>4, <2>5, <1>a, <1>c
    <3>2. CASE q # p
      <4>1. pc'[q] = pc[q] /\ cache'[q][At(q)] = cache[q][At(q)]
        BY <3>2, <2>3, <2>4, <1>c
      <4>2. Inside(q) => journal'[At(q)] = journal[At(q)]
        BY <3>2, <2>5, <2>8, <1>c
      <4>3. pc[q] \in {"locked", "absent", "loaded", "journaled"} => Inside(q)
        BY DEF Inside
      <4>4. /\ pc[q] \in {"locked", "absent", "loaded"} => snap[At(q)] = journal[At(q)]
            /\ pc[q] \in {"loaded", "journaled"} => cache[q][At(q)] = journal[At(q)]
        BY <1>a, <2>9
      <4> QED
        BY <4>1, <4>2, <4>3, <4>4
    <3> QED
      BY <3>1, <3>2
  <2>10. \A q \in Movers : pc'[q] = "start"
    BY <2>3, <1>a, <1>c, <1>e
  <2>11. \A w \in Wallets \ zeroed' : lock'[w] = NoProc => snap'[w] = journal'[w]
    <3> SUFFICES ASSUME NEW w \in Wallets, w \notin zeroed, lock[w] = NoProc
                 PROVE  snap[w] = journal'[w]
      BY <2>1
    <3>1. w # At(p)
      BY <2>6, <1>c
    <3> QED
      BY <3>1, <2>5, <1>a
  <2>12. \A q \in Settlers : Inside(q)' <=> lock'[At(q)] = q
    BY <2>1, <2>7, <1>a
  <2>13. \A w \in Wallets : lock'[w] # NoProc => At(lock[w])' = w
    BY <2>1, <2>2, <1>a
  <2>14. \A q \in Settlers : At(q) \notin zeroed' =>
            /\ pc'[q] \in {"locked", "absent", "loaded"} => snap'[At(q)] = journal'[At(q)]
            /\ pc'[q] \in {"loaded", "journaled"} => cache'[q][At(q)] = journal'[At(q)]
    BY <2>1, <2>9
  <2>15. \A q \in Settlers : pc'[q] # "unrecorded"
    BY <2>3, <1>a, <1>c
  <2> QED
    BY <2>2, <2>10, <2>11, <2>12, <2>13, <2>14, <2>15
<1>4. ASSUME NEW p \in Settlers, Publish(p) PROVE Parts'
  <2>1. /\ pc[p] = "journaled" /\ leg' = leg
        /\ snap' = [snap EXCEPT ![At(p)] = cache[p][At(p)]]
        /\ UNCHANGED <<journal, zeroed, cache>>
        /\ lock' = [w \in Wallets |-> IF lock[w] = p THEN NoProc ELSE lock[w]]
    BY <1>4, <1>c, NextLegFacts DEF Publish, Unlock
  <2>2. \A q : At(q)' = At(q)
    BY <2>1 DEF At
  <2>3. pc'[p] = "done" /\ \A q \in Procs \ {p} : pc'[q] = pc[q]
    BY <1>4, <1>c, NextLegFacts DEF Publish
  <2>4. lock[At(p)] = p
    BY <1>a, <2>1 DEF Inside
  <2>5. \A w \in Wallets : lock[w] = p => w = At(p)
    BY <1>a, <1>c
  <2>6. \A w \in Wallets \ zeroed : snap'[w] = IF w = At(p) THEN journal[w] ELSE snap[w]
    BY <2>1, <1>a, <1>c DEF Shape
  <2>7. \A q \in Settlers : Inside(q)' <=> lock'[At(q)] = q
    BY <2>1, <2>3, <2>4, <1>a, <1>c DEF Inside
  <2>8. \A w \in Wallets : lock'[w] # NoProc => lock'[w] = lock[w]
    BY <2>1
  <2>9. \A q \in Settlers \ {p} : Inside(q) => At(q) # At(p)
    BY <2>4, <1>a
  <2>10. \A q \in Movers : pc'[q] = "start"
    BY <2>3, <1>a, <1>c, <1>e
  <2>11. \A q \in Settlers : pc'[q] # "unrecorded"
    BY <2>3, <1>a, <1>c
  <2>12. \A w \in Wallets \ zeroed' : lock'[w] = NoProc => snap'[w] = journal'[w]
    BY <2>1, <2>5, <2>6, <1>a
  <2>13. ASSUME NEW q \in Settlers, At(q) \notin zeroed'
         PROVE  /\ pc'[q] \in {"locked", "absent", "loaded"} =>
                     snap'[At(q)] = journal'[At(q)]
                /\ pc'[q] \in {"loaded", "journaled"} =>
                     cache'[q][At(q)] = journal'[At(q)]
    <3>1. CASE q = p
      BY <3>1, <2>3
    <3>2. CASE q # p
      <4>1. pc'[q] = pc[q] /\ At(q) \in Wallets /\ At(q) \notin zeroed
        BY <3>2, <2>1, <2>3, <2>13, <1>c
      <4>2. Inside(q) => snap'[At(q)] = snap[At(q)]
        BY <4>1, <3>2, <2>6, <2>9
      <4>3. pc[q] \in {"locked", "absent", "loaded"} => Inside(q)
        BY DEF Inside
      <4> QED
        BY <4>1, <4>2, <4>3, <2>1, <1>a
    <3> QED
      BY <3>1, <3>2
  <2>14. \A w \in Wallets : lock'[w] # NoProc => At(lock[w])' = w
    BY <2>2, <2>8, <1>a
  <2> QED
    BY <2>2, <2>7, <2>10, <2>11, <2>12, <2>13, <2>14
<1>5. CASE WriteZero(Books) /\ UNCHANGED <<journal, lock, pc, leg, cache>>
  <2>1. /\ zeroed \subseteq zeroed'
        /\ \A w \in Wallets : w \notin zeroed' => snap'[w] = snap[w]
    BY <1>5, WalletAssumption, ZeroesOnlyZero
  <2>2. \A q : At(q)' = At(q) /\ Inside(q)' = Inside(q)
    BY <1>5 DEF At, Inside
  <2> QED
    BY <1>5, <2>1, <2>2, <1>a, <1>c
<1>6. CASE UNCHANGED <<journal, exists, snap, zeroed, lock, pc, leg, cache>>
  BY <1>6, <1>a DEF Inside, At
<1> QED
  BY <1>1, <1>2, <1>2a, <1>3, <1>4, <1>5, <1>6, CleanSteps

----------------------------------------------------------------------------
(* Theorems.                                                               *)

\* IInv is inductive.
THEOREM Invariance == Spec => []IInv
<1>1. IInv /\ [Next]_vars => IInv'
  BY NextShape, NextTails, NextExplained, NextDebitFirst, NextNoneIsZero, NextExclusive,
     Zenon DEF IInv
<1> QED
  BY InitIInv, <1>1, PTL DEF Spec

\* As long as no append was cut short, every published balance is explained by
\* its journal: _persist_unlocked writes the journal first.
THEOREM BalancesExplained == Spec => []SnapshotExplained
<1>1. IInv => SnapshotExplained
  BY Zenon DEF IInv, Explained, SnapshotExplained
<1> QED
  BY Invariance, <1>1, PTL

\* While every transaction is a locked, whole mint, a wallet nobody holds shows
\* every mint of its journal, unless a snapshot of zero replaced its first one:
\* record_work reloads under the settle lock.
THEOREM MintsAllCount == Spec => []LockedMintsAllCount
<1>1. IInv => LockedMintsAllCount
  BY Zenon DEF IInv, Exclusive, LockedMintsAllCount
<1> QED
  BY Invariance, <1>1, PTL

\* As long as no append was cut short, no transfer creates Joules: transfer
\* persists the sender before the recipient.
THEOREM TransfersNeverCreate == Spec => []CreditHasDebit
<1>1. IInv => CreditHasDebit
  BY Zenon DEF IInv, DebitFirst, CreditHasDebit
<1> QED
  BY Invariance, <1>1, PTL
=============================================================================
