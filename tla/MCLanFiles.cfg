SPECIFICATION Spec
CONSTANTS
  rootDir = rootDir
  subDir = subDir
  outDir = outDir
  newDir = newDir
  inFile = inFile
  outFile = outFile
  Dir = {rootDir, subDir, outDir, newDir}
  File = {inFile, outFile}
  Fresh = {t1, t2}
  Name = {"a", "b"}
  Link = Link
  Target = outDir
  None = None
  Base = rootDir
  Tree <- MCTree
  Payload <- MCPayload
  Request <- MCRequest
  Chunk = 2
  MaxChanges = 2
  MaxPending = 1
  MaxRequests = 2
CHECK_DEADLOCK FALSE
SYMMETRY Symmetry
INVARIANTS
  Confined
  WritesAreWhole
  DownloadIsOneContent
PROPERTIES
  NothingReplaced
  ImplementsJobs
