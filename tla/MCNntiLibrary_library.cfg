CONSTANTS
    Threads = {1, 2}
    Buffers = {"a", "b", "c"}
    Memory <- MCMemory
    MaxHandles = 3
    Transports = {"ib", "gni", "mpi"}
    Heap <- MCHeap
    Habits <- MCHabits
    Clients = {"p", "q"}
    Structs = {"s1", "s2", "s3", "s4"}
    InitialSize = 1
    MaxSize = 2
SPECIFICATION LibrarySpec
INVARIANTS RegisteredIsPinned CountsAreRegistrations CallsAreOfAnOpenTransport
INVARIANTS ExclusiveOwnership CountIsPopulation PinnedMemoryBounded QueuedBuffersAreFullSize
PROPERTIES CallsReturn
