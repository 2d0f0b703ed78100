SPECIFICATION Spec
CONSTANTS
  Test <- MCTest
  Desc <- MCDesc
  Plans <- PlansPrefix
  SigInfo <- MCSigInfo
  Unknown = "unknown"
  MaxRun = 2
  MaxOut = 1
  PipeCap = 2
  Fast = FALSE
  MaxFd = 9
  ReadMax = 1
INVARIANTS XfailHasReason
