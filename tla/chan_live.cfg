SPECIFICATION FairSpec
CONSTANTS
  t1 = t1
  Threads = {t1}
  Calls = {"write", "read", "flush", "sync", "mark", "channel", "timeout", "force"}
  NOut = 3
  NIn = 2
  PageSize = 2
  MaxWrite = 3
  MaxSent = 3
  MaxMade = 1
  ChanIds = {0, 1}
  Signals = FALSE
INVARIANTS
  TypeOK
PROPERTIES
  WritesAreAStream
  OnItsChannel
  SendersReturn
  RequestsArrive
  ReadsReturn
