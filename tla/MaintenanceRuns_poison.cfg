SPECIFICATION Spec
CONSTANTS
    None = None
    r1 = r1
    r2 = r2
    rec = rec
    h1 = h1
    h2 = h2
    Requests <- TwoRequests
    Reconciler = rec
    Horses <- TwoHorses
    MaxAttempts = 2
    MaxFaults = 0
PROPERTIES ExactIsKept
CHECK_DEADLOCK FALSE
