SPECIFICATION LoadSpec
CONSTANTS
    Callers = {"t1", "t2"}
    Workers = {"d1", "d2"}
    Devices = {"d1"}
    Coordinator = "coordinator"
    Nobody = "nobody"
    NoAddr = "none"
    Addrs = {"a1", "a2"}
    Configs <- TwoConfigs
    QueueCap = 2
    DecodeMax = 1
    ClientOps = {"SetConfig", "Start", "Stop", "Disable", "GetCounterDataSize", "DecodeData"}
    ClockSteps <- BackAndForth
    MaxSessions = 2
    MaxTicks = 4
INVARIANTS SessionsInv SamplesInv
PROPERTIES TicksAndCalls
CHECK_DEADLOCK FALSE
