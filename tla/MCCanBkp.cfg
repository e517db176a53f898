SPECIFICATION Spec
CONSTANTS
  Models <- AllModels
  Ids <- StatusAndMeasures
  Contents <- QuietOrTwoBits
  MaxValue = 1
INVARIANTS
  InterlockReachesC28
  LatchedIsReported
  NothingForgotten
  ShownIsNewest
  FlagIsServed
