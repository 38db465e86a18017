SPECIFICATION PublicationSpec
CONSTANTS
    None = None
    p1 = p1
    p2 = p2
    Procs <- TwoProcs
    Backends <- BothBackends
    MaxSessions = 2
    Quota = 1
    MaxFaults = 1
    NoSample = NoSample
    Nobody = Nobody
    h1 = h1
    h2 = h2
    Handlers <- TwoHandlers
    TestItems <- TwoItems
    Outputs <- FourOutputs
    OutputLimit = 2
    MaxAttempts = 2
    o1 = o1
    o2 = o2
    s1 = s1
    s2 = s2
    NoOne = NoOne
    Legacy <- TwoLegacy
    Storages <- TwoStorages
    Operators <- TwoOperators
    Arguments <- Asks
    Inherited <- AtUpgrade
    MaxMishaps = 1
INVARIANTS ArtifactHasBytes CleanedMeansGone QuotaBoundsObjects AdoptionIsSound
PROPERTIES ImplementsSampleLedger CleanedUp
CHECK_DEADLOCK FALSE
