CONSTANTS
    Threads = {1, 2}
    Jobs <- MCJobs
    MaxFaults = 1
    Cancelers = {2}
    Reuses = FALSE
SPECIFICATION FairSpec
INVARIANTS MovesWhatIsNamed CompletionsFindTheirWorkRequest
 
CHECK_DEADLOCK FALSE
