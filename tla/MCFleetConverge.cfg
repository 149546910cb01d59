SPECIFICATION FairSpec
CONSTANTS
    Services = {s1, s2}
    NoService = NoService
    SpecClasses = {"managed", "unreadable"}
    UnitStates = {"active", "failed"}
    FreezeFiles = {"absent", "on"}
    BackoffBase = 1
    BackoffCap = 1
    CrashLoopAfter = 2
    HealthyReset = 1
    MaxAge = 1
    MaxEdits = 1
INVARIANTS
    TypeOK
    AtMostOneLateHeal
    HealBudget
    CrashLoopReported
PROPERTIES
    EventuallyHealedOrGivenUp
