\* A reset during a read.
SPECIFICATION Spec
CONSTANTS
  Clients = {c1, c2}
  Resetters = {w1}
  Regs = {g1, g2}
  Vals <- MCVals
  PowerOn = 0
  SlowEngine = FALSE
  Nobody = Nobody
  NoOp = NoOp
INVARIANTS
  ReadsAreAtomic
