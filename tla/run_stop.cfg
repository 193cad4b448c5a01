SPECIFICATION Spec
CONSTANTS
    w1 = w1
    w2 = w2
    p1 = p1
    p2 = p2
    NoPlace = NoPlace
    Workers = {w1, w2}
    NumURLs = 2
    MaxURLAttempts = 2
    BlockThreshold = 2
    FastRetries = 1
    OutCap = 1
    AutoRecover = TRUE
    HTTPFirst = TRUE
    UseRadius = TRUE
    InRadius <- FirstOnly
    PlaceOf <- OwnPlaces
    BufferedWriter = FALSE
    Faults = {"error", "extra", "write", "nav", "acquire", "ctrlc", "cancel", "uipause"}
    MaxRuns = 2
SYMMETRY WorkerSymmetry
INVARIANTS DoneIsDelivered
PROPERTIES PauseStopsClaims
CHECK_DEADLOCK FALSE
