SPECIFICATION FairSpec
CONSTANTS
    r1 = r1
    r2 = r2
    w1 = w1
    w2 = w2
    Requests <- OneRequest
    Workers <- TwoWorkers
    Retention = 1
    MaxClock = 1
    MaxCancels = 2
    MaxFaults = 1
    MaxOverruns = 1
INVARIANTS
    TypeOK
    CleanedUpForGood
    ActionsExclude
PROPERTIES
    CompletedStays
    KeepsPromise
    CleanupEnds
CHECK_DEADLOCK FALSE
