SPECIFICATION Spec
CONSTANTS
  Objects = {o1, o2, o3}
  MainThread = main
  GCSWEEPMAX = 1
  GCFINMAX = 1
  NoMemory = "always"
INVARIANTS AllWhiteBetweenCycles
CHECK_DEADLOCK FALSE
