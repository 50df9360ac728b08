SPECIFICATION Spec
CONSTANTS
  App = {a1, a2}
  Client = {c1}
  Pool = pool
  PathOf <- SearchedPaths
  SpawnTarget = {"ACTIVE"}
  SetTarget = {"HIBERNATED", "UNLOADED"}
  CloseNext = {"none", "ACTIVE"}
  Failing = {"run", "render", "hibernate", "wake", "terminate", "stop"}
  MaxCalls = 2
  MaxInst = 2
  MaxExits = 1
  MayDeinitialize = FALSE
CHECK_DEADLOCK FALSE
INVARIANT RunOncePerInstance
PROPERTY ForgottenOnlyWhenStopped
