SPECIFICATION FairSpec
CONSTANTS
  Id = {i1, i2}
  MaxJobs = 1
  MaxOutput = 2
  Immediate = TRUE
CHECK_DEADLOCK FALSE
INVARIANTS
  SuccessIsReal
  ProcessesAreOwned
PROPERTIES
  EveryStartIsReported
  ImplementsJobs
