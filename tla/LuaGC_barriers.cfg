SPECIFICATION Spec
CONSTANTS
  Main = main
  Registry = reg
  Tables = {reg}
  Closures = {c1}
  Threads = {main, co}
  Strings = {}
  MaxSlots = 1
  MaxStack = 2
  Program = {"close"}
INVARIANTS BlackNeverPointsToWhite GrayIsListed IndInv
CHECK_DEADLOCK FALSE
