SPECIFICATION Spec
CONSTANTS
  reg = reg
  Main = main
  Registry = reg
  Tables = {reg, t1}
  Closures = {}
  Threads = {main}
  Strings = {}
  MaxSlots = 1
  MaxStack = 2
  Program = {"gc", "nomem", "close", "basic"}
INVARIANTS TypeOK ReachableAllocated AllWhiteBetweenCycles
PROPERTIES FinalizedBeforeFreed FreesOnlyGarbage
CHECK_DEADLOCK FALSE
