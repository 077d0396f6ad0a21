SPECIFICATION LoadSpec
CONSTANTS
  Chip = "CHIP_910B"
  SymbolsV1 <- All
  SymbolsV2 <- NoHccs
  CardSizes <- Cards
  DeviceLists <- Lists
  LinkNum = 2
  Device = 0
  Configs <- SomeConfigs
  ImageArgs <- SomeImageArgs
  ImageMaxSize = 200
  QueueMaxBytes = 200
  DefaultQueueSamples = 2
  EntriesLimit = 4
  HccsLinkNum = 2
  Word = 1024
  Faults = {"none", "hccsBw", "noMemory"}
  MaxTicks = 4
  RecordDevices = {0, 1}
  Chips = {"910B", "V6"}
  Tasks <- SomeTasks
  MaxLaunches = 2
  MaxRecords = 3
  Clocks = {"system", "callback"}
  SystemClock = "system"
  Offset <- Ahead
  HostFreqs = {0, 1}
  DeviceFreqs = {3}
  DefaultFreqs = {0, 2}
  MSTONS = 2
  MaxNow = 2
  MaxRegistrations = 1
  MaxClockFaults = 1
INVARIANTS
  ImageInv
  RecordsInv
  ClockInv
CHECK_DEADLOCK FALSE
