SPECIFICATION Spec
CONSTANTS
  NumCores = 3
  Words = {w1, w2}
  Cloners = {Main}
  Main = Main
  Idle = Idle
  NULL = NULL
SYMMETRY Symmetry
INVARIANTS
  WordSetUntilExit
CHECK_DEADLOCK FALSE
