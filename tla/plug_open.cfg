SPECIFICATION FairSpec
CONSTANTS
  f0 = f0
  None = None
  Chans = {6, 254}
  Frames = {f0}
  Apps = {}
  Delays = {}
  BufMax = 3
  SockMax = 2
  MaxLines = 1
  MaxMakes = 3
PROPERTIES
  OpensAnswered
CHECK_DEADLOCK FALSE
