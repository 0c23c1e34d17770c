\* Areas of one and of two pages: the first-fit search.
CONSTANTS
  PageTotal = 5
  PageSize = 2
  BrkPages = 1
  TagRange = 4
  Lens = {2, 4}
  Handles = {h1, h2, h3, h4}
  NoArea = NoArea
SPECIFICATION HeapSpec
SYMMETRY Symmetry
INVARIANT
  AreasFlagged
