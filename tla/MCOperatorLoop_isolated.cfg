SPECIFICATION FairSpec
CONSTANTS
    Runners = {r1}
    NoRunner = NoRunner
    fix = fix
    wipe = wipe
    Proposals = {fix, wipe}
    Catalog <- MCCatalog
    Undoable <- MCUndoable
    NoWork = NoWork
    RetryBudget = 1
    MaxGeneration = 1
    MaxFaults = 1
PROPERTY
    PassIsolated
