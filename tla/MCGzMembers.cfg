CONSTANTS
  MaxMembers = 3
  MaxData = 2
  Files <- MCFiles
  BufReaderLen = 3
  FailsIn = {"Member", "Boundary"}
  FileErrors = {"Interrupted", "Failed"}
SPECIFICATION Spec
INVARIANT TellsTheTruth
PROPERTY KeepsPromise
\* The source ends and is read no more.
CHECK_DEADLOCK FALSE
