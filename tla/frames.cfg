SPECIFICATION Spec
CONSTANTS
  b1 = b1
  b2 = b2
  v1 = v1
  v2 = v2
  None = None
  Boards = {b1, b2}
  FrameIds = {15}
  MaxPages = 3
  Span = 3
  Limit = 3
  Vmas = {v1, v2}
  MaxBogus = 1
  MaxRefs = 3
SYMMETRY Symmetry
INVARIANTS
  CountBounds
  LimitKept
  NoPageLost
  MappedPagesHeld
PROPERTIES
  FramesAreWhole
CHECK_DEADLOCK FALSE
