SPECIFICATION FairSpec
CONSTANTS
  Test <- MCTest
  Desc <- MCDesc
  Plans <- PlansLive
  SigInfo <- MCSigInfo
  Unknown = "unknown"
  MaxRun = 2
  MaxOut = 2
  PipeCap = 1
  Fast = FALSE
  MaxFd = 9
  ReadMax = 1
INVARIANTS FailureIsReported
PROPERTIES SuiteEnds
CHECK_DEADLOCK FALSE
