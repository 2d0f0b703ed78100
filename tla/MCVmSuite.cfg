SPECIFICATION Spec
CONSTANTS
  Systems <- MCSystems
  TagFlaws <- MCTagFlaws
  ResFlaws <- MCResFlaws
  RevFlaws <- MCRevFlaws
  Attempts = 3
  Top = 13
  Spaces <- MCSpaces
  Big = 3
  MaxEpoch = 4
INVARIANTS RightKernelNotFailed ErrorsReported PassLeavesNobody NameGivenBack
PROPERTIES TestEnds
