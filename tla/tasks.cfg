SPECIFICATION LoadSpec
CONSTANTS
    MaxKind = 2
    Channels = {"TS_FW", "STARS"}
    ChannelsOf <- TwoKinds
    ConfigKinds = {2}
    TaskTimeKinds = {2}
    CountMod = 8
    AppThreads = {"a1", "a2"}
    RuntimeThreads = {"r1"}
    Faults = {}
VIEW View
INVARIANTS TypeOK RefExact RacesInv JobHasReader
