SPECIFICATION Spec
CONSTANTS
  App = {a1}
  Client = {c1, c2}
  Pool = pool
  PathOf <- SearchedPaths
  SpawnTarget = {"ACTIVE"}
  SetTarget = {"HIBERNATED"}
  CloseNext = {"none", "ACTIVE"}
  Failing = {"run", "render", "hibernate", "wake", "stop"}
  MaxCalls = 2
  MaxInst = 2
  MaxExits = 1
  MayDeinitialize = FALSE
SYMMETRY ClientSymmetry
CHECK_DEADLOCK FALSE
INVARIANTS PendingCoherent AnnouncedWhereItIs NoLostWakeUp
PROPERTY ChangesInOrder
