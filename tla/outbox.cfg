SPECIFICATION FairSpec
CONSTANTS
    s1 = s1
    s2 = s2
    Workers = {w1, w2}
    Orgs = {o1}
    Batch = 2
    Retention = 1
    MaxRows = 2
    MaxRequests = 1
    MaxTime = 1
    MaxCrash = 0
    MaxStop = 1
    MaxAbandon = 0
    MaxRollback = 1
    MaxPushFail = 0
    MaxPoison = 1
    Schedules <- OneSchedule
    Due <- CronMatches
INVARIANTS
    TypeOK
    StampedWasPushed
    SlotEnqueuedOnce
    ChainKeepsOrg
PROPERTIES
    EveryTaskRuns
CHECK_DEADLOCK FALSE
