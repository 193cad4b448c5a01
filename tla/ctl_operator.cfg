SPECIFICATION Spec
CONSTANTS
    p1 = p1
    p2 = p2
    NoProc = NoProc
    NoJob = NoJob
    NumJobs = 1
    Procs = {p1, p2}
    MaxStallResumes = 1
    Requests = {"create", "pause", "resume", "recover", "delete", "scheduler"}
    Faults = {"crash", "reboot", "recovery", "spawn", "jobsStore", "registryStore"}
SYMMETRY ProcSymmetry
INVARIANTS ActiveIsOwned
CHECK_DEADLOCK FALSE
