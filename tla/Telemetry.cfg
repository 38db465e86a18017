SPECIFICATION PathSpec
CONSTANTS
    None = None
    Kinds <- MetricOnly
    MaxAttempts = 2
    MaxEvents = 2
    Offered <- TwoThenOne
    MaxRecords = 2
    MaxSequence = 3
    Entries <- OneOrTwo
    MaxUpsets = 1
    MaxDelayed = 1
    FailureModes <- AllFailures
    Before <- YoungestFirst
    Procs <- TwoProcesses
    EventKinds <- BatchThenEnd
    Chunks <- TwoRequests
    p1 = p1
    p2 = p2
    FaultBound <- FewerBesideEachOther
INVARIANTS NothingLost WatermarkCoversStored EpochIsCurrent SealCoversSpool 
PROPERTIES ReportedIsComplete EventsProjected
CHECK_DEADLOCK FALSE
