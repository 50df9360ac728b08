SPECIFICATION Spec
CONSTANTS
  Client = {"client"}
  Call = {"launch", "preload", "close", "terminate", "kill", "getLoaded"}
  MaxRequests = 2
  MaxJobs = 1
  Policy = "hibernate"
  Version = {1, 2}
  Failing = {"lock"}
  MaxLocks = 2
INVARIANT TypeOK
INVARIANT AskedIsMarked
INVARIANT OnlyKnownDeadlocks
INVARIANT BlockedIsDue
CHECK_DEADLOCK FALSE
