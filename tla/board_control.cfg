SPECIFICATION Spec
CONSTANTS
  c1 = c1
  Callers = {c1}
  Kinds = {"ise", "jse"}
INVARIANTS
  AccessReaches
  InService
  HeldWhenUnsafe
PROPERTIES
  NoGhostBells
