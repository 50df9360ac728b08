SPECIFICATION FairSpec
CONSTANTS
  App = {a1, a2}
  Client = {c1}
  Pool = pool
  PathOf <- SearchedPaths
  SpawnTarget = {"HIBERNATED"}
  SetTarget = {"SUSPENDED"}
  CloseNext = {"none"}
  Failing = {"hibernate"}
  MaxCalls = 2
  MaxInst = 2
  MaxExits = 0
  MayDeinitialize = FALSE
CHECK_DEADLOCK FALSE
PROPERTIES SpawnIsAsynchronous
