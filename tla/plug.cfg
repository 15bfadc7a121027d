SPECIFICATION FairSpec
CONSTANTS
  a1 = a1
  f0 = f0
  None = None
  Chans = {6, 254}
  Frames = {f0}
  Apps = {a1}
  Delays = {"timed", "forever"}
  BufMax = 3
  SockMax = 1
  MaxLines = 1
  MaxMakes = 2
INVARIANTS
  LinesInOrder
  HarmOnlyCrossed
PROPERTIES
  FramesAgree
  CallsAnswered
  ReadersWake
CHECK_DEADLOCK FALSE
