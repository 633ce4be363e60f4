\* Register access, with NACKs, late and absent answers and a bus that stays busy.
SPECIFICATION FairSpec
CONSTANTS
  Devices = {d1, d2}
  Transfers <- MCRegisters
  PageSize = 3
  BlockMax = 3
  Counts = {0, 1, 4}
  SlowEngine = TRUE
  AnyPage = FALSE
  MaxSerial = 4
  NoCmd = NoCmd
  NoByte = NoByte
CHECK_DEADLOCK FALSE
INVARIANTS
  TypeOK
  ReadReturnsOwnData
  WriteDelivered
  HeldForTransfer
PROPERTIES
  TransferReturns
