SPECIFICATION Spec
CONSTANTS
  Stores <- TiedStores
  Times = {0, 1, 2, 3, 4, 5, 6}
  Windows <- MCWindows
  Predicates = {}
  ReadThreads = {1, 2}
  ShortRangeMax = 3
  PlanMinRows = 4
  WorkerRows = 1
  TaskRows = 2
  ZoneBlock = 2
  ReplayKinds = {"fixed"}
  BatchSizes = {1, 2, 3}
  MaxFailures = 1
INVARIANTS ReadsAreExact
CHECK_DEADLOCK FALSE
