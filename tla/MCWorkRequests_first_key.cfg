CONSTANTS
    Threads = {1, 2}
    Jobs <- KeyJobs
    MaxFaults = 0
    Cancelers = {}
    Reuses = FALSE
SPECIFICATION Spec
INVARIANTS EveryCompletionIsFound
CHECK_DEADLOCK FALSE
