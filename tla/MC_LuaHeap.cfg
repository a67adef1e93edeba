SPECIFICATION MCSpec
CONSTANTS
  Main = main
  co = co
  tstrong = tstrong
  tvalue = tvalue
  tall = tall
  e1 = e1
  e2 = e2
  cl = cl
  u = u
  str = str
  p1 = p1
  p2 = p2
  p3 = p3
  Tables = {t1}
  Closures = {c1}
  Threads = {main, co}
  Finalized = {t1}
  MaxSlots = 1
  MaxStack = 2
  Program = {"nomem", "major", "inc", "close"}
INVARIANTS WeakTablesAreExact WeakReachableKept WeakNothingDangles
  ReachableAllocated OldPointsToOld GenerationsDelimited GrayListsExact
PROPERTIES FinalizesFirst
CHECK_DEADLOCK FALSE
