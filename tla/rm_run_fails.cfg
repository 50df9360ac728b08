SPECIFICATION Spec
CONSTANTS
  App = {"a", "b"}
  Inst = {"a1", "b1"}
  AppOf <- OneEach
  NumUids = 2
  MinPool = 1
  Failing = {"start"}
INVARIANT RunReportsFailure
CHECK_DEADLOCK FALSE
