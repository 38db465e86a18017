SPECIFICATION Spec
CONSTANTS
    None = None
    MaxIds = 2
    MaxFaults = 2
    Late = TRUE
INVARIANTS AgentNotBlocked
