SPECIFICATION ClientsSpec
CONSTANTS
    Monitors = {kernel, mstx}
    KindOf <- TwoKinds
    Buffers = {b1, b2}
    BufferSizes = {1, 2}
    DefaultSize = 1
    MaxBufferSize = 2
    MaxResizes = 1
    UintValues = 8
    MaxStarts = 3
    MaxRequests = 2
    Nobody = Nobody
    Callers = {1, 2}
    RangeIds = {1}
    InstantIds = {3}
    Sources = {host, device}
INVARIANTS
    AdapterInv
    RangesInv
PROPERTIES
    CallsReturn
CHECK_DEADLOCK FALSE
