SPECIFICATION Spec
CONSTANTS
  Os = "FreeBSD"
  Tests <- MCTests
  Slow <- MCSlow
  HasChild <- MCHasChild
  Matches <- MCMatches
  CommandLines <- MCCommandLines
  Spawners <- MCSpawners
  Modes = {"posix_spawn", "fork", "vfork", "rfork"}
  Extras <- MCExtras
INVARIANTS ChildHasName ChildRoundTrip PassMeansChildRan
