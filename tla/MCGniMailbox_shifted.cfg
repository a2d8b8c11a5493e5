SPECIFICATION OrderedSpec
CONSTANTS
    c = c  r1 = r1  r2 = r2  r3 = r3  r4 = r4
    Clients <- OneClient
    Requests <- FourRequests
    ClientOf <- OneClientOf
    MaxCredits = 4
    QueueSize = 2
    Timed <- AllTimed
PROPERTY EveryRequestIsReceived
CHECK_DEADLOCK FALSE
