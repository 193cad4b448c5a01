SPECIFICATION FairSpec
CONSTANTS
    p1 = p1
    p2 = p2
    NoProc = NoProc
    NoJob = NoJob
    NumJobs = 2
    Procs = {p1, p2}
    MaxStallResumes = 1
    Requests = {"strategy"}
    Faults = {"timeout", "crash", "stall"}
INVARIANTS TypeOK WorkIsActive RegistryCoversLive
PROPERTIES QueueMoves TimeoutsResume RespawnsEnd
CHECK_DEADLOCK FALSE
