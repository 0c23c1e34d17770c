\* Areas of at most one page, two pages beside the brk area; brk calls that
\* do not overlap.
CONSTANTS
  Threads = {t1}
  BrkSize = 3
  NULL = NULL
  PageTotal = 3
  PageSize = 2
  BrkPages = 1
  TagRange = 4
  Lens = {0, 1, 2}
  Handles = {h1, h2, h3}
  NoArea = NoArea
SPECIFICATION MemorySpec
SYMMETRY Symmetry
INVARIANTS
  
  AreasDisjoint

  
  
