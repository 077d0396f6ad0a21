SPECIFICATION LoadSpec
CONSTANTS
    PoolChannels = {1, 3}
    Workers = 2
    QueueSize = 1
    MaxPools = 2
    MaxReaders = 2
    MaxData = 2
    AicpuChannels = {1, 2}
    MaxQueries = 2
    MaxStarts = 2
    MaxFaults = 1
    UintValues = 8
    MaxBytes = 5
    MaxFlushes = 3
    Producers = {1, 2}
    MaxNodes = 4
    SizeValues = 16
    Clocks = {"system", "callback"}
    SystemClock = "system"
    Offset <- Ahead
    HostFreqs = {1}
    DeviceFreqs = {3}
    DefaultFreqs = {}
    MSTONS = 2
    MaxNow = 0
    MaxRegistrations = 1
    MaxClockFaults = 1
INVARIANTS
    PoolInv
    AicpuInv
    FlushInv
PROPERTIES
    DeviceServes
    MpscCorrect
CHECK_DEADLOCK FALSE
