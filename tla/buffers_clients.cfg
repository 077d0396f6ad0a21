SPECIFICATION FairOneSpec
CONSTANTS
    c1 = c1
    c2 = c2
    r1 = r1
    m1 = m1
    m2 = m2
    Nobody = Nobody
    Recorders = {r1}
    Clients = {c1, c2}
    Managers = {m1, m2}
    Kinds = {"data"}
    Nulls = TRUE
    Capacity = 2
    Sizes = {1, 2}
    StackDepth = 2
    MaxCalls = 2
    MaxBuffers = 2
INVARIANTS TypeOK StoppedIsQuiet
PROPERTIES Implements BuffersServed
