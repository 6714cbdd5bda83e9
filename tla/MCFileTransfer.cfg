SPECIFICATION FairSpec
CONSTANTS
  Id = {1, 2, 3}
  None = None
  MaxJobs = 2
  MaxSize = 2
  Requests <- ThreeRequests
CHECK_DEADLOCK FALSE
INVARIANTS
  SuccessIsVerified
  ReportedOnce
PROPERTIES
  TransfersEnd
  ImplementsJobs
