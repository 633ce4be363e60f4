------------------------------ MODULE MCAuxBus ------------------------------
(* Small instances of AuxBus for TLC.  Offset 3 is the last of the BAR, 4 is  *)
(* the first past it, 15 is INVALID_OFFSET in an address space of 16.        *)
EXTENDS AuxBus, TLC

MCOffsets == {3, 4, 15}

\* Callers and adapters are interchangeable: no property names one.
MCSymmetry == Permutations(Callers) \cup Permutations(Adapters)
=============================================================================
