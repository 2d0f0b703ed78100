SPECIFICATION Spec
CONSTANTS
  Test <- MCTest
  Desc <- MCDesc
  Plans <- PlansCore
  SigInfo <- MCSigInfo
  Unknown = "unknown"
  MaxRun = 2
  MaxOut = 1
  PipeCap = 2
  Fast = TRUE
  MaxFd = 8
  ReadMax = 1
INVARIANTS TypeOK PassIsEarned ExcuseRespected Accounting FdBalance InstancesClosed EvidenceIsOwn OutputIsOwn
PROPERTIES ImplementsTestSuite
