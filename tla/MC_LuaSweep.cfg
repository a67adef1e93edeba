SPECIFICATION MCFairSpec
CONSTANTS
  Objects = {o1, o2, o3}
  MainThread = main
  GCSWEEPMAX = 2
  GCFINMAX = 2
  NoMemory = "open"
INVARIANTS SweepPointerValid DeadAreAhead AllWhiteBetweenCycles
PROPERTIES FinalizersInBatches PendingIsFinalized
CHECK_DEADLOCK FALSE
