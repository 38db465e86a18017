SPECIFICATION Spec
CONSTANTS
    None = None
    w1 = w1
    w2 = w2
    j1 = j1
    j2 = j2
    Jobs <- OneJob
    Workers <- OneWorker
    Allowed <- ContractedTable
    LeaseTicks = 1
    OfflineTicks = 1
    RecoveryMax = 2
    MaxAttempts = 2
    MaxRetries = 0
    Requests <- Loops1
    Administered <- NoWorkers
    Slow <- SlowHeartbeat
    Corruptible <- NoJobs
INVARIANTS NoOrphanAssignment
