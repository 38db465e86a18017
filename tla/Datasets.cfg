SPECIFICATION ScenarioSpec
CONSTANTS
    None = None
    p1 = p1
    p2 = p2
    Procs <- TwoProcs
    Backends <- BothBackends
    MaxGen = 2
    NKeys = 2
    Sources <- OneOfEach
    Archives <- SmallArchives
    Outcome <- Verdict
    MaxFaults = 1
    MaxEntries = 3
    MaxUnits = 3
INVARIANTS DataAvailable CleanedStaysGone IngestionMatchesReference
PROPERTIES SessionsSettle
CHECK_DEADLOCK FALSE
