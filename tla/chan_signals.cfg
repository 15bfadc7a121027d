SPECIFICATION Spec
CONSTANTS
  t1 = t1
  Threads = {t1}
  Calls = {"write", "read", "poll", "flush", "sync", "timeout", "force", "close"}
  NOut = 3
  NIn = 3
  PageSize = 2
  MaxWrite = 3
  MaxSent = 4
  MaxMade = 3
  ChanIds = {0, 1}
  Signals = TRUE
PROPERTIES
  WritesAreAStream
  ReadsAreAStream
  SyncedMeansTaken
