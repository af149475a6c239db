CONSTANTS
  Thread = {t1, t2}
  Readers = {t1}
  SlotCount = 2
  GenMod = 2
  CountMod = 3
  ZeroOnAlloc = TRUE
  ZeroOnRelease = FALSE
  MaxInc = 1
  ExclusiveRelease = TRUE
  ExclusiveUse = TRUE
SPECIFICATION FairSpec
INVARIANT FreshIsClean
PROPERTIES CallsReturn
