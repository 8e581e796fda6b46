SPECIFICATION Spec
CONSTANTS
    NJobs = 2
    Requests <- MCRequests
    RawMetrics <- MCRaw
    MaxCombinations = 3
    MaxJobs = 1
    Cancellable = {1}
INVARIANTS SearchSound
PROPERTIES ProgressForward KeepsLifecycle
CHECK_DEADLOCK FALSE
