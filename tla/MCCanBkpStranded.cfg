SPECIFICATION Spec
CONSTANTS
  Models <- OneModel
  Ids <- StatusAndMeasures
  Contents <- QuietOrTwoBits
  MaxValue = 1
INVARIANTS
  PendingIsFlagged
