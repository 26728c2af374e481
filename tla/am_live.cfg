CONSTANTS
  Harts = {h1, h2}
  NoHart = NoHart
  Chars = {a, b}
  MaxTyped = 2
  MaxPut = 1
  ncpu = 3
  Cpus = {1, 2}
  Spaces = {"s1", "s2", "s3"}
  Vas = {"v1", "v2"}
  Frames = {"f1", "f2"}
  MayLoad <- MCMayLoad
SPECIFICATION Spec
INVARIANTS AmTypeOK NoCharLost NoHartAborts BootPathExclusive SeesLoadedSpace
PROPERTIES LockIsReleased AllCpusStart HaltSwitchesOff
CHECK_DEADLOCK FALSE
