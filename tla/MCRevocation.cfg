SPECIFICATION Spec
CONSTANTS
  N = 4
  MaxChunk = 3
  Scripts <- MCScripts
  Faults = {"missed", "over", "clock", "call"}
INVARIANTS NoFalseAlarm FaultsAreSeen
