SPECIFICATION FairSpec
CONSTANTS
  p1 = p1
  q1 = q1
  w1 = w1
  RootWaiters = {p1}
  SyncWaiters = {q1}
  RingWaiters = {w1}
  TimedReads = FALSE
INVARIANTS
  NoLostWakeup
  MaskRestored
PROPERTIES
  MaskedWaitsEnd
