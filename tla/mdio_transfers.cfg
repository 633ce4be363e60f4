\* Transfers of two processes, a third that resets the bus, and commands that
\* may outlast the timeout.
SPECIFICATION FairSpec
CONSTANTS
  Clients = {c1, c2}
  Resetters = {w1}
  Regs = {g1, g2}
  Vals <- MCVals
  PowerOn = 0
  SlowEngine = TRUE
  Nobody = Nobody
  NoOp = NoOp
INVARIANTS
  TypeOK
  ReadsAreFresh
  IssuedInOrder
PROPERTIES
  ErrorsSurface
  WritesLand
  TransfersReturn
