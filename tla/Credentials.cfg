SPECIFICATION CredentialsSpec
CONSTANTS
    None = None
    MaxIds = 4
    MaxFaults = 4
    Late = FALSE
    a1 = a1
    a2 = a2
    p1 = p1
    p2 = p2
    w1 = w1
    w2 = w2
    Nothing = Nothing
    Accounts <- TwoAccounts
    Passwords <- TwoPasswords
    Procs <- TwoProcs
    Keys = {1}
    Asked <- AskedHere
    MaxTokens = 2
    NProfiles = 3
    MaxRuns = 3
    MaxErrors = 2
INVARIANTS TokenKnown AgentNotBlocked AuthorityIsCurrent CurrentIsWhole AllOrNothing
PROPERTIES ComesUp
CHECK_DEADLOCK FALSE
