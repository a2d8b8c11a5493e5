SPECIFICATION FairSpec
CHECK_DEADLOCK FALSE
CONSTANTS
    Ranks <- ThreeRanks
    Ports <- OnePort
    Requests <- ThreeRequests
    Puts <- OnePut
    RankOf <- RankOfAll
    Slots <- TwoSlots
    Window = 2
    Calls <- Mixtures
    Timed <- ServerTimed
INVARIANTS HandlesAreLive HeldIsIntact
PROPERTIES RequestsAreRead WaitReturns
