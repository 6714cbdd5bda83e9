SPECIFICATION FairSpec
CONSTANTS
  Child = {c1, c2, c3}
  NoProcess = NoProcess
CHECK_DEADLOCK FALSE
INVARIANTS
  OneChild
  FailuresAreReal
PROPERTIES
  StopStops
