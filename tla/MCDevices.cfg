SPECIFICATION IrqSpec
CONSTANTS
  BoardSet <- MCBoards
  MaxPending = 2
  RefBounds <- MCRefBounds
  VcoMin = 240
  VcoMax = 480
  DivrMax = 16
  DivfMax = 51
  DivqMax = 7
INVARIANTS
  ProbedHasNeeds
  ShippedInOnePass
  EnabledIsServed
PROPERTIES
  PllBest
  
  
CHECK_DEADLOCK FALSE
