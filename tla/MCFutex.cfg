\* Two cores, two words and two bits; any wake, and a wake after every store.
SPECIFICATION Spec
CONSTANTS
  NumCores = 2
  Addrs = {a1, a2}
  Vals = {v0, v1}
  Bits = {b1, b2}
  Counts = {1}
  WakeCounts = {2}
  NULL = NULL
INVARIANTS
  NoLostWakeup
  StaleSleeperCovered
PROPERTIES
  MarkedReturns
  ChangedReturns
  ImplementsFutex
CHECK_DEADLOCK FALSE
