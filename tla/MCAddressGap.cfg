SPECIFICATION Spec
CONSTANTS
  Systems = {"FreeBSD", "Linux"}
  Width = 4
  UserTop = 7
  Maps <- MCMaps
  Requests <- MCRequests
  RepLen <- MCRepLen
  RepAlign <- MCRepAlign
INVARIANTS FoundIsFree FailsOnlyIfFull FoundIsExtreme
