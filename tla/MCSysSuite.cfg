SPECIFICATION Spec
CONSTANTS
  Systems <- MCSystems
  Flaws <- MCFlaws
  Binaries <- MCBinaries
  Modulus = 1024
  Pad = 4
  CapSize = 2
INVARIANTS RightSystemNotFailed WrongSystemFound ChildSeenOff OneBitOfTheNote
PROPERTIES EveryTestEnds
