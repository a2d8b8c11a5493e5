SPECIFICATION Spec
CONSTANTS
    Clients <- MCClients
    Buffers <- MCBuffers
    BuffersOf <- MCBuffersOf
    TypeOf <- MCTypeOf
    Released = {"slot", "pulled", "pushed"}
    Transfers <- MCTransfers
    TransferOf <- MCTransferOf
    On <- GetOn
    Timed = {"server"}
    MaxReports = 2
PROPERTIES ImplementsOneSided
CHECK_DEADLOCK FALSE
