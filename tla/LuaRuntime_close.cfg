SPECIFICATION MCSpec
CONSTANTS
  Main = main
  co1 = co1
  co2 = co2
  Coroutines = {co1, co2}
  LUAI_MAXCCALLS = 5
  ErrorLimit = 7
  Fuel <- CloseFuel
INVARIANTS HandlerIsCurrent
