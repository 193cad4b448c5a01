SPECIFICATION FairSpec
CONSTANTS
    w1 = w1
    w2 = w2
    p1 = p1
    p2 = p2
    NoPlace = NoPlace
    Workers = {w1, w2}
    NumURLs = 2
    MaxURLAttempts = 2
    BlockThreshold = 2
    FastRetries = 1
    OutCap = 1
    AutoRecover = TRUE
    HTTPFirst = FALSE
    UseRadius = FALSE
    InRadius <- Everywhere
    PlaceOf <- OnePlace
    BufferedWriter = FALSE
    Faults = {"block", "error"}
    MaxRuns = 1
INVARIANTS TypeOK QueueDrained ClaimsAreCarried DoneJobIsComplete
PROPERTIES RunEnds JobSettles NoClaimWhileRecovering NoPlaceTwice
CHECK_DEADLOCK FALSE
