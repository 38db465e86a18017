SPECIFICATION ReviewSpec
CONSTANTS
    None = None
    p1 = p1
    p2 = p2
    Procs <- TwoProcs
    Backends <- BothBackends
    NItems = 2
    MaxUploads = 2
    MaxFaults = 2
    c1 = c1
    c2 = c2
    m1 = m1
    m2 = m2
    Absent = Absent
    Clients <- TwoClients
    Models <- TwoModels
    PageSize = 1
    MaxKeys = 1
    MaxSends = 2
    MaxReads = 2
    MaxLogouts = 1
SYMMETRY Interchangeable
INVARIANTS StorageMatchesLedger SnapshotWasReal
PROPERTIES MutationReplacesWhatWasSeen SettledStaysSettled
CHECK_DEADLOCK FALSE
