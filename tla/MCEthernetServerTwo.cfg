SPECIFICATION Spec
CONSTANTS
  a = a
  b = b
  Peer = {a, b}
  Parts <- MCParts
  MaxAsk = 2
  Slots = 2
  MaxRtx = 1
  Networks = {FALSE}
  Orderly = FALSE
  Mixed = Mixed
  Syn = Syn
  Fin = Fin
  None = None
INVARIANT
  AnswersMine
