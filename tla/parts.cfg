CONSTANTS
  ITRACE_POOL_SIZE = 4
  TraceEntry = {e1, e2, e3}
  ZeroEntry = zero
  Spaces = {A, B}
  Index = {0, 1, 2}
  KernelPd = {0}
  Vas <- MCVas
  Frames = {9}
  Pool = {1, 2, 3, 4, 5, 6}
  SecsPerMin = 12
  MinsPerHour = 2
  MaxTicks = 5
  Blocks = 2
  MaxTime = 3
  MSIZE = 8
  BuiltinSize = 3
  DefaultSize = 5
  Bytes = {0, 1, 2, 3, 4}
  Words <- MCWords
  MaxStores = 1
  Cpus = {1, 2}
  KThreads = {"k1"}
  UThreads = {"u1", "u2", "u3"}
  SpaceOf <- MCSpaceOf
SPECIFICATION PartsSpec
INVARIANTS
  PartsTypeOK TablesOwned KernelEverywhere RunsInOwnSpace ClockReadsSound
  RestoresOneMoment MemorySound
PROPERTIES DisplaysRecent ImplementsAddressSpaces
CHECK_DEADLOCK FALSE
