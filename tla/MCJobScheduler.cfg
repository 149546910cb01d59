SPECIFICATION FairSpec
CONSTANTS
    Jobs = {ja, jb}
    CronJobs = {jb}
    ChildJobs = {ja}
    Malformed = {jb}
    Workers = {w1, w2}
    NoJob = NoJob
    NoWorker = NoWorker
    Gone = Gone
    Every = 1
    Retries = 0
    MaxTime = 2
    MaxFaults = 1
INVARIANTS
    TypeOK
    SingletonUnlessRaced
    FileCurrent

    
