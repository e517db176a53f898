SPECIFICATION FairSpec
CONSTANTS
  TableSize = 2
  TimeModulus = 3
  MaxAge = 2
  Local = {"a", "b", "c"}
  Far = {"far"}
  Workload <- Workloads
  Conns = 2
INVARIANTS
  NeverDeaf
  FramesAreWhole
  AnswersGoHome
  FreshIsKnown
PROPERTIES
  WaitsEnd
