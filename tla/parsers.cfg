SPECIFICATION LoadSpec
CONSTANTS
    FLUSH_RETRY_MAX_COUNT = 1
    MaxSessions = 2
    plain = plain
    other = other
    replayed = replayed
    HostThreads = {1, 2}
    Devices = {0}
    Keys = {plain, other, replayed}
    DeviceOf <- OneDevice
    MaxLaunches = 2
    MaxGraphs = 2
    MaxReplays = 2
    MaxLost = 1
    Threads = {1, 2}
    Consumers = {0}
    CommKeys = {plain, other, replayed}
    CommGraphKeys = {replayed}
    HomeOf <- OneDevice
    FftsKeys = {}
    MaxOps = 2
    MaxTasks = 2
    MaxReruns = 2
INVARIANTS KernelInv
    CommInv
CHECK_DEADLOCK FALSE
