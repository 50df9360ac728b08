SPECIFICATION Spec
CONSTANTS
  Client = {"client"}
  Call = {"launch", "terminate"}
  MaxRequests = 1
  MaxJobs = 2
  Policy = "none"
  Version = {1, 2}
  Failing = {}
  MaxLocks = 1
PROPERTY VersionKeptUntilTerminated
CHECK_DEADLOCK FALSE
