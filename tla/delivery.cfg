SPECIFICATION Spec
CONSTANTS
  RuntimeApp = {"a"}
  Inst = {"a1"}
  RuntimeAppOf <- TheApp
  NumUids = 1
  MinPool = 1
  RuntimeFailing = {"connect", "start", "stop"}
  GatewayClient = {1, 2}
  Asks <- AskedFor
  Missing = {"resolver", "responder", "resolution"}
  GatewayFailing = {}
  Event = {"e1", "e2", "e3"}
  Epoch = {"e3"}
  RestartAllowed = TRUE
  Limits = {0, 1, 3}
  Windows = {0, 60}
  CountBits = 3
  MaxJobs = 2
  DownloadId = {"d1", "d2"}
  DownloadCaller = {"c"}
  Retries = 2
  MayDeinitialize = TRUE
  DownloadFailing = {"http", "notFound"}
  DisplayCaller = {1, 2}
  ClientOf <- SameClient
  MaxDeinits = 1
  WindowFailing = {"create"}
  ShellApp = {"a", "b"}
  ShellCall = {1, 2, 3, 4}
  ShellAppOf <- CalledFor
  KindOf <- CalledTo
  Installed = {"b"}
  Workers = 3
  ShellFailing = {"type", "clone", "activate", "state"}
INVARIANTS TypeOK UptimeEventsInOrder
PROPERTIES EndIsTold RequestIsAnswered SubscriberIsServed EventIsSent RestartsAreLimited FailureIsHandled DownloadIsReported DisplayIsAnswered CallsReturn
CHECK_DEADLOCK FALSE
