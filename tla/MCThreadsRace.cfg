\* Three cores; two tasks clone at the same time.
SPECIFICATION Spec
CONSTANTS
  NumCores = 3
  Words = {w1, w2, w3}
  Cloners = {w1, Main}
  Main = Main
  Idle = Idle
  NULL = NULL
INVARIANTS
  RunsPublished
CHECK_DEADLOCK FALSE
SYMMETRY RaceSymmetry
CONSTRAINT RaceBound
