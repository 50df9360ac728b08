SPECIFICATION FairSpec
CONSTANTS
  App = {a1}
  Client = {c1}
  Pool = pool
  PathOf <- SearchedPaths
  SpawnTarget = {"ACTIVE"}
  SetTarget = {"SUSPENDED"}
  CloseNext = {"none"}
  Failing = {}
  MaxCalls = 2
  MaxInst = 1
  MaxExits = 0
  MayDeinitialize = FALSE
CHECK_DEADLOCK FALSE
PROPERTIES UnloadTerminates
