SPECIFICATION FairSpec
CONSTANTS
    Config <- PlainConfig
    Kept <- Stages
    Commands <- Training
    Shards = {1, 2}
    Stubborn = TRUE
    LeaseTicks = 2
    Artifacts = 1
    Samples = 1
    MaxTries = 2
    TestItems = 2
    DownloadTries = 2
    MaxJobs <- JobsIn
    MaxFaults <- FaultsIn
INVARIANTS CancelHasCause LeaseNeverOutlived CompletionIsEarned StageLeavesNoLeader
PROPERTIES LostAttemptEnds
CHECK_DEADLOCK FALSE
