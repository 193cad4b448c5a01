SPECIFICATION Spec
CONSTANTS
    p1 = p1
    p2 = p2
    NoProc = NoProc
    NoJob = NoJob
    NumJobs = 2
    Procs = {p1, p2}
    MaxStallResumes = 1
    Requests = {"create"}
    Faults = {"recovery"}
PROPERTIES SweepSparesWork
CHECK_DEADLOCK FALSE
