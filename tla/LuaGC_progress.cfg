SPECIFICATION FairSpec
CONSTANTS
  reg = reg
  Main = main
  Registry = reg
  Tables = {reg, t1}
  Closures = {}
  Threads = {main}
  Strings = {}
  MaxSlots = 1
  MaxStack = 1
  Program = {"gc", "collect", "nomem"}
PROPERTIES GarbageIsFreed
