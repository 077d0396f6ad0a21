SPECIFICATION FairSpec
CONSTANTS
    Kinds = {"SOC_LOG", "TS_FW", "AICPU"}
    BufferSize = 5
    StructSize = 2
    QueueCapacity = 1
    MaxProduced = 6
    ReadMayFail = TRUE
INVARIANTS
    TypeOK
    PendingExact
    NothingLost
    HandoverInv
PROPERTIES
    InOrder
    StopFence
    CallsEnd
