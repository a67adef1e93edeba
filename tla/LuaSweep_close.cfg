SPECIFICATION MCSpec
CONSTANTS
  Objects = {o1, o2}
  MainThread = main
  GCSWEEPMAX = 2
  GCFINMAX = 1
  NoMemory = "never"
INVARIANT ClosesInReverseOrder
CHECK_DEADLOCK FALSE
