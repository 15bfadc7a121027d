SPECIFICATION Spec
CONSTANTS
  p1 = p1
  p2 = p2
  LOG_BUF_SIZE = 2
  PAGE_SIZE = 2
  Procs = {p1, p2}
  Counts = {4}
  Inputs <- MCInputs
  LogSizes = {1, 2, 3}
  MaxText = 3
INVARIANTS
  NewestText
  OwnText
