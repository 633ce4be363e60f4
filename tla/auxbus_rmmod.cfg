\* The driver is only removed by rmmod.
SPECIFICATION FairSpec
CONSTANTS
  Callers = {c1, c2}
  Pci = pci
  Adapters = {a1, a2, a3}
  Ids = {i1, i2}
  Foreign = {}
  Offsets <- MCOffsets
  MaxOffset = 4
  BaseBusAddr = 8
  AddrSpace = 16
  HotUnbind = FALSE
  Nobody = Nobody
  NoAdapter = NoAdapter
  NoData = NoData
INVARIANTS
  TypeOK
  NoUseAfterFree
  Accounted
  NothingSurvivesRemove
  AddressesInBar
PROPERTIES
  CallsReturn
