SPECIFICATION FairSpec
CONSTANTS
  a = a
  b = b
  Peer = {a, b}
  Parts <- MCParts
  MaxAsk = 2
  Slots = 2
  MaxRtx = 2
  Networks = {TRUE, FALSE}
  Orderly = TRUE
  Mixed = Mixed
  Syn = Syn
  Fin = Fin
  None = None
INVARIANTS
  AnswersMine
PROPERTIES
  Implements
  SlotFreed
