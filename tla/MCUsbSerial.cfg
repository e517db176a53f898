SPECIFICATION Spec
CONSTANTS
  Base = 3
  BufSize = 8
  Message <- MCMessage
  Prompt = TRUE
  None = None
INVARIANTS
  NothingLost
  FifoIsServed
PROPERTIES
  Implements
