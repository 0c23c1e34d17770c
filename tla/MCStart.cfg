SPECIFICATION StartSpec
CONSTANTS
  NumCores = 3
  Harts = {0, 1, 2, 3}
  HartOf <- MCHartOf
  LockHarts = {0, 1, 2}
  CommMaxArgs = 2
  CommMaxEnvs = 2
  ArgCounts = {0, 1, 2, 3, 17}
INVARIANTS
  OwnStacks
  LeaderAfterChildren
  MutualExclusion
  LockSoundOnceCleared
  FrameReadable
PROPERTIES
  AllBoot
  SomeoneEnters
