\* Two processes create and destroy, in turn or at will; the CPLD stays or goes away.
SPECIFICATION Spec
CONSTANTS
  Clients = {c1, c2}
  Drv = drv
  Names = {n1, n2, n3}
  Few = {n1, n2}
  Regs <- MCRegs
  Uses <- MCUses
  MaxAttrs = 2
  Nobody = Nobody
  Unset = Unset
SYMMETRY MCSymmetry
INVARIANTS
  TypeOK
  FilesMatchEntries
  NothingSurvivesUnbind
  UniqueNames
