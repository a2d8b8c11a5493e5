SPECIFICATION Spec
CONSTANTS
    Clients <- MCClients
    Buffers <- MCBuffers
    BuffersOf <- MCBuffersOf
    TypeOf <- MCTypeOf
    Released = {"slot", "pulled", "pushed"}
    Transfers <- MCTransfers
    TransferOf <- MCTransferOf
    On <- MCOn
    Timed = {"server"}
    MaxReports = 2
INVARIANTS RequestsReceivedOnce EventsFollowData
PROPERTIES ImplementsOneSided ReleasedIsQuiet RequestsAreReceived WaitReturns TargetsLearn
CHECK_DEADLOCK FALSE
