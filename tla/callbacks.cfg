SPECIFICATION LoadSpec
CONSTANTS
  Callers = {"t1", "t2"}
  Sites = {"s1"}
  Addrs = {1, 2}
  Count <- Tables
  MapBits = 3
  HasLdPreload = TRUE
  Names <- SomeNames
  Rooms = {1}
  CallerOps = {"Subscribe", "Unsubscribe", "Finalize", "EnableCallback", "EnableDomain", "EnableAllDomains", "GetCallbackState", "GetEnabledCallbacks"}
  SiteFinalizes = TRUE
  MaxSubs = 2
  Nobody = "nobody"
  MemThreads = {1, 2}
  Addresses = {1}
  Sizes = {1, 2}
  MemKinds = {"memory", "memcpy"}
  MaxDepth = 2
  MaxTime = 3
  MaxSwitches = 1
  CallThreads = {1, 2}
  CallLevels = {1, 2, 3, 4}
  Regions = {"CUSTOM0"}
  MaxApiCalls = 4
  MaxIds = 3
  MaxOpened = 2
  MaxFailures = 1
INVARIANTS
  SubscriptionInv
  MemoryInv
  CorrelationInv
CHECK_DEADLOCK FALSE
