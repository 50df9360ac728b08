SPECIFICATION FairSpec
CONSTANTS
  App = {a1}
  Client = {c1, c2}
  Pool = pool
  PathOf <- SearchedPaths
  SpawnTarget = {"ACTIVE"}
  SetTarget = {"SUSPENDED"}
  CloseNext = {"none"}
  Failing = {}
  MaxCalls = 2
  MaxInst = 2
  MaxExits = 1
  MayDeinitialize = TRUE
CHECK_DEADLOCK FALSE
PROPERTIES SpawnReturns QueueEmpties WorkerEnds
