SPECIFICATION PagesSpec
CONSTANTS
  Windows = {x1, x2}
  MaxCatches = 3
  Cap = 2
  MaxWaits = 2
  Blank = Blank
  Servers = {s1, s2}
  Pages = {d1}
  Types = {f1, f2}
  Grounds = {g1, g2}
  MaxOpens = 2
  MaxEdits = 2
  Nowhere = Nowhere
SYMMETRY Symmetry
INVARIANTS
  CatchesAreKept
  OnlyOutdatedPagesUndo
CHECK_DEADLOCK FALSE
