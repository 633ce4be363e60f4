\* A read that follows a use of both pages of the buffer.
SPECIFICATION Spec
CONSTANTS
  Devices = {d1, d2}
  Transfers <- MCLarge
  PageSize = 3
  BlockMax = 3
  Counts = {0}
  SlowEngine = FALSE
  AnyPage = TRUE
  MaxSerial = 4
  NoCmd = NoCmd
  NoByte = NoByte
CHECK_DEADLOCK FALSE
INVARIANTS
  ReadReturnsOwnData
