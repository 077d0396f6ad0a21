SPECIFICATION LoadSpec
CONSTANTS
    a = a
    ab = ab
    Names = {a, ab}
    DefaultName = default
    Begins <- NameBegins
    MarkThreads = {1, 2}
    MaxMarks = 2
    MaxSyncs = 2
    MaxFailures = 1
    HcclThreads = {1, 2}
    Shapes = {"p2p", "collective", "alltoallv", "scatter"}
    OpKeys = 4
INVARIANTS
    HcclInv
    MarkerInv
CHECK_DEADLOCK FALSE
