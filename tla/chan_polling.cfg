SPECIFICATION FairSpec
CONSTANTS
  t1 = t1
  Threads = {t1}
  Calls = {"write", "read", "timeout"}
  NOut = 2
  NIn = 2
  PageSize = 2
  MaxWrite = 2
  MaxSent = 2
  MaxMade = 1
  ChanIds = {0}
  Signals = FALSE
PROPERTIES
  PollingReads
CHECK_DEADLOCK FALSE
