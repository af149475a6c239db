CONSTANTS
  Thread = {t1, t2}
  Readers = {t1, t2}
  SlotCount = 1
  GenMod = 4
  CountMod = 4
  ZeroOnAlloc = FALSE
  ZeroOnRelease = FALSE
  MaxInc = 2
  ExclusiveRelease = FALSE
  ExclusiveUse = FALSE
SPECIFICATION Spec
SYMMETRY Symmetry
INVARIANTS DoubleReleaseRejected
