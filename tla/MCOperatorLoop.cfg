SPECIFICATION FairSpec
CONSTANTS
    Runners = {r1, r2}
    NoRunner = NoRunner
    fix = fix
    wipe = wipe
    Proposals = {fix}
    Catalog <- MCCatalog
    Undoable <- MCUndoable
    NoWork = NoWork
    RetryBudget = 1
    MaxGeneration = 2
    MaxFaults = 1
INVARIANTS
    TypeOK
    EscalatedIsParked
    RetryBudgetHolds
PROPERTY
    ImplementsLifecycle
    CrashedActionsClose
