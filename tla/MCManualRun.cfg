SPECIFICATION MSpec
CONSTANTS
    Jobs = {ja, jb}
    CronJobs = {jb}
    ChildJobs = {}
    Malformed = {}
    Workers = {w1}
    NoJob = NoJob
    NoWorker = NoWorker
    Gone = Gone
    Every = 1
    Retries = 1
    MaxTime = 1
    MaxFaults = 2
    MaxManual = 2
INVARIANT
    DaemonRunsKept
