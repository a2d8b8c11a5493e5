SPECIFICATION TransportSpec
CONSTANTS
    Ranks <- TrioRanks
    Threads <- TrioRanks
    RankOf <- TrioRankOf
    Ports <- TrioPorts
    Buffers <- TrioBuffers
    OwnerOf <- TrioOwner
    TargetBuffers <- TrioTargets
    WithEvents <- TrioEvents
    EventThread <- TrioEventThread
    Pollers = {"c"}
    Ops <- TrioOps
    OpOf <- TrioOpOf
    Timeouts <- TrioTimeouts
    AtomicPorts <- ServerPorts
    Indices = {0, 1}
    AtomicOps <- ServerOps
    AtomicOpOf <- ServerOpOf
    AtomicPollers = {"s"}
    OneAtATime = TRUE
INVARIANTS OneEventPerTransfer RequestHandleIsUnique
PROPERTIES ImplementsOneSided WaitReturns OperationCompletes ImplementsRemoteAtomics
