CONSTANTS
    Procs = {"a", "b", "c"}
    ThreadsOf <- MCThreadsOf
    Reaches <- MCReaches
    Habits = {}
    MaxSockets = 3
SPECIFICATION FairSpec
INVARIANTS EstablishedIsReady PeersReachEachOther MapsAgree
PROPERTIES ConnectReturns
CHECK_DEADLOCK FALSE
