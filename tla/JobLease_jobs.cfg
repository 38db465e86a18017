SPECIFICATION Spec
CONSTANTS
    None = None
    w1 = w1
    w2 = w2
    j1 = j1
    j2 = j2
    Jobs <- TwoJobs
    Workers <- OneWorker
    Allowed <- RealTable
    LeaseTicks = 1
    OfflineTicks = 1
    RecoveryMax = 1
    MaxAttempts = 2
    MaxRetries = 1
    Requests <- ClaimLoop1
    Administered <- NoWorkers
    Slow <- NoRequests
    Corruptible <- OneJob
INVARIANTS NoOrphanAssignment
PROPERTIES ImplementsJobQueue
