SPECIFICATION CurveSpec
CONSTANTS
  free = free
  checked = checked
  fixed = fixed
  Var <- MCVar
  Size <- MCSize
  Writable <- MCWritable
  Accepts <- MCAccepts
  Registration <- MCRegistration
  Choice <- MCChoice
  NBlocks = 3
  BlockSize = 2
  Data <- MCData
  OtherData <- MCOtherData
  Func = {f}
  Op = {"A", "X", "C"}
  MaxVars = 3
  MaxFuncs = 1
  MaxGroups = 4
  VarMaxSize = 4
  Flag = 4
INVARIANTS
  ChecksumIsTheCurves
