SPECIFICATION FairSpec
CONSTANTS
  w1 = w1
  RootWaiters = {}
  SyncWaiters = {}
  RingWaiters = {w1}
  TimedReads = FALSE
PROPERTIES
  RingWaitsEnd
CHECK_DEADLOCK FALSE
