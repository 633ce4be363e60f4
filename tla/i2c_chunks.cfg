\* A write of more than one command.
SPECIFICATION Spec
CONSTANTS
  Devices = {d1, d2}
  Transfers <- MCChunks
  PageSize = 3
  BlockMax = 3
  Counts = {0}
  SlowEngine = FALSE
  AnyPage = TRUE
  MaxSerial = 4
  NoCmd = NoCmd
  NoByte = NoByte
CHECK_DEADLOCK FALSE
INVARIANTS
  PolledTillDone
