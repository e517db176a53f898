SPECIFICATION FairSpec
CONSTANTS
  a = a
  b = b
  Value = {a, b}
  Settable <- MCSettable
  MaxSaves = 2
  MaxLosses = 2
  MaxFaults = 1
  BootTests = {TRUE, FALSE}
INVARIANTS
  MemoryHolds
  VerdictTellsTheMemory
  NeverWithoutAddress
PROPERTIES
  SavedIsWritten
