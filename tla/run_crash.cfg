SPECIFICATION Spec
CONSTANTS
    w1 = w1
    w2 = w2
    p1 = p1
    p2 = p2
    NoPlace = NoPlace
    Workers = {w1, w2}
    NumURLs = 2
    MaxURLAttempts = 2
    BlockThreshold = 1
    FastRetries = 1
    OutCap = 1
    AutoRecover = FALSE
    HTTPFirst = FALSE
    UseRadius = FALSE
    InRadius <- Everywhere
    PlaceOf <- FirstAnonymous
    BufferedWriter = FALSE
    Faults = {"error", "crash", "stall", "store"}
    MaxRuns = 2
SYMMETRY WorkerSymmetry
INVARIANTS DoneIsDelivered ClaimsAreExclusive
PROPERTIES DoneIsFinal
CHECK_DEADLOCK FALSE
