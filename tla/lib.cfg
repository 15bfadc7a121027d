SPECIFICATION FairSpec
CONSTANTS
  h1 = h1
  h2 = h2
  f0 = f0
  None = None
  Handles = {h1, h2}
  Mortal = {h2}
  Signalled = {h2}
  Cids = {1, 2}
  Frames = {f0}
  Pieces = 2
  Retries = 2
  LineLen = 2
  BufLens = {1, 2}
  MaxLines = 2
  MaxOpen = 1
  LineCid = 1
  Talkers = {h2, None}
  Guests = {}
  LogLines = {1}
  Platforms = {"linux", "windows"}
INVARIANTS
  LinesAreWhole
  ResourcesHeld
  OKMeansDone
PROPERTIES
  CallsEnd
