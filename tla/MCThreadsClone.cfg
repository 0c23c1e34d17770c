SPECIFICATION Spec
CONSTANTS
  NumCores = 3
  Words = {w1, w2, w3}
  Cloners = {w1, w2, w3, Main}
  Main = Main
  Idle = Idle
  NULL = NULL
SYMMETRY Symmetry
INVARIANTS
  ThreadsWithinCores
CHECK_DEADLOCK FALSE
