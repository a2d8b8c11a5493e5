CONSTANTS
    Threads = {1, 2}
    Jobs <- PartJobs
    MaxFaults = 0
    Cancelers = {}
    Reuses = FALSE
SPECIFICATION Spec
INVARIANTS MovesWhatIsNamed
CHECK_DEADLOCK FALSE
