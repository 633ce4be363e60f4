\* DESTROY_ALL in one process, CREATE in another.
SPECIFICATION Spec
CONSTANTS
  Clients = {c1, c2}
  Drv = drv
  Names = {n1, n2, n3}
  Few = {n1, n2}
  Regs <- MCRegs
  Uses <- MCRace
  MaxAttrs = 2
  Nobody = Nobody
  Unset = Unset
PROPERTIES
  EntriesProtected
