SPECIFICATION EFairSpec
CONSTANTS
  Runs = {r1, r2}
  Tenants = {t1}
  Settings <- MCSettings
  MaxDepth = 1
  MaxCalls = 1
  MaxFailures = 1
  Reset = 1
  HttpLimit = 1
  HttpGlobal = 0
  MaxAsks = 2
  MaxTime = 1
INVARIANTS SlotsBoundWorkers OkIsItsOwn
PROPERTIES OpenUntilReset EveryRunEnds
CHECK_DEADLOCK FALSE
