SPECIFICATION FairSpec
CONSTANTS
  RetryOptions = {0}
  ControlOp = {"pause", "resume", "cancel", "rateLimit"}
  MaxDownloads = 2
  MayDeinitialize = TRUE
CHECK_DEADLOCK FALSE
INVARIANTS Accounted InOrder
PROPERTIES SuccessHasFile InHandIsReported QueuedWhileBusyIsTaken
