SPECIFICATION FairSpec
CONSTANTS
    a = a
    b = b
    f1 = f1
    f2 = f2
    f3 = f3
    m = m
    n = n
    w1 = w1
    Agents = {a}
    Watched = {a}
    Polling = {a}
    Unnamed = {}
    Files = {f1, f2}
    Ids = {m, n}
    Everyone = Everyone
    NoFile = NoFile
    id <- MCid
    to <- MCto
    Workers = {w1}
    MaxSeen = 1
    MaxQueue = 2
    MaxFaults = 1
INVARIANTS
    TypeOK
    NothingLost
    OnceUnlessRaced
PROPERTIES
    EveryMessageLeaves
