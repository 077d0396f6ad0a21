SPECIFICATION LoadSpec
CONSTANTS
    c1 = c1
    c2 = c2
    r1 = r1
    m1 = m1
    m2 = m2
    Nobody = Nobody
    Recorders = {r1, c1}
    Clients = {c1}
    Managers = {m1}
    Kinds = {"data", "overhead"}
    Nulls = TRUE
    Capacity = 5
    Sizes = {1, 2, 3}
    StackDepth = 2
    MaxCalls = 5
    MaxBuffers = 5
INVARIANTS OneOwner QueueSignalled AloneFlushDelivers
PROPERTY AloneStopReturns
CHECK_DEADLOCK FALSE
