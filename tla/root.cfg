SPECIFICATION FairSpec
CONSTANTS
  c1 = c1
  h1 = h1
  h2 = h2
  h3 = h3
  s1 = s1
  s2 = s2
  f0 = f0
  t1 = t1
  t2 = t2
  r1 = r1
  r2 = r2
  r3 = r3
  None = None
  Callers = {c1}
  Handles = {h1, h2, h3}
  ChanIds = {0, 1, 2}
  Slots = {s1, s2}
  Frames = {f0}
  Tables = {t1, t2}
  Pages = {r1, r2, r3}
  MapIds = {1}
INVARIANTS
  NoDanglingChannel
  NoDanglingFrame
  Synchronized
  ExclusiveChannels
  NoPageLeak
  IInv
PROPERTIES
  FreedFrameStaysAway
  CallsReturn
CHECK_DEADLOCK FALSE
