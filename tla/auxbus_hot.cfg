\* The driver may also be unbound while descriptors are open, another FPGA may use the id, and
\* the BAR lies above the addresses that 32 bits can hold.
SPECIFICATION Spec
CONSTANTS
  Callers = {c1, c2, c3}
  Pci = pci
  Adapters = {a1, a2, a3}
  Ids = {i1}
  Foreign = {i1}
  Offsets <- MCOffsets
  MaxOffset = 4
  BaseBusAddr = 24
  AddrSpace = 16
  HotUnbind = TRUE
  Nobody = Nobody
  NoAdapter = NoAdapter
  NoData = NoData
SYMMETRY MCSymmetry
INVARIANTS
  AddressesInBar
PROPERTIES RefinesRegistry
