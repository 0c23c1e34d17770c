\* Two cores; every thread clones, joins and exits.
SPECIFICATION Spec
CONSTANTS
  NumCores = 2
  Words = {w1, w2, w3}
  Cloners = {w1, w2, w3, Main}
  Main = Main
  Idle = Idle
  NULL = NULL
INVARIANTS
  WordSetUntilExit
  
PROPERTIES
  ThreadStarts
  AllStop
CHECK_DEADLOCK FALSE
