SPECIFICATION Spec
CONSTANTS
    NoProc = NoProc
    Procs = {p1, p2}
    Sink = {p1}
    Readers = {r1}
    Items = {i1}
    Archive = 3
    None = None
    NoJob = NoJob
    MaxFaults = 1
INVARIANTS
    TypeOK
    NothingLost
    FoldMatchesStore
    MissesOnlyWhatMovedBehind
PROPERTY
    ReopenGoesHome
