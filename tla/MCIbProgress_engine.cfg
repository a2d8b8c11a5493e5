SPECIFICATION FairSpec
CONSTANTS
    Threads <- TwoThreads
    Requests <- TwoRequests
    WaiterOf <- TwoWaiters
    CqOf <- OneQueue
    Timeouts <- TwoTimeouts
    MaxConnects = 1
    MaxPipe = 1
INVARIANTS OneLeader NoMissedCompletion SleepersAreWoken
PROPERTY WaitEnds
CHECK_DEADLOCK FALSE
