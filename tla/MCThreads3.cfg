\* Three cores; only the main thread clones.
SPECIFICATION Spec
CONSTANTS
  NumCores = 3
  Words = {w1, w2, w3}
  Cloners = {Main}
  Main = Main
  Idle = Idle
  NULL = NULL
SYMMETRY Symmetry
INVARIANTS
  EveryThreadHasItsCpu
  SlotsSuffice
  
CHECK_DEADLOCK FALSE
