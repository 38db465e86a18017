SPECIFICATION FairSpec
CONSTANTS
    None = None
    w1 = w1
    w2 = w2
    j1 = j1
    j2 = j2
    Jobs <- OneJob
    Workers <- TwoWorkers
    Allowed <- ContractedTable
    LeaseTicks = 1
    OfflineTicks = 1
    RecoveryMax = 2
    MaxAttempts = 2
    MaxRetries = 0
    Requests <- Loops2
    Administered <- OneWorker
    Slow <- SlowHeartbeat
    Corruptible <- NoJobs
INVARIANTS LedgerConsistent
PROPERTIES ExpiredLeaseFenced CancelWins AbandonedLeaseReleased
