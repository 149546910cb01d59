SPECIFICATION Spec
CONSTANTS
    s1 = s1
    s2 = s2
    m1 = m1
    wa = wa
    wb = wb
    Wallets = {wa, wb}
    Settlers = {s1, s2}
    Movers = {m1}
    Reconciler = r
    NoProc = NoProc
    Legs <- MCLegs
    Books = wa
    MaxFaults = 2
INVARIANTS
    SnapshotExplained
    LockedMintsAllCount
    CreditHasDebit
