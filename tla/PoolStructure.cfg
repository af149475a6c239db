CONSTANTS
  Thread = {t1, t2}
  Readers = {t1, t2}
  SlotCount = 2
  GenMod = 4
  CountMod = 4
  ZeroOnAlloc = FALSE
  ZeroOnRelease = TRUE
  MaxInc = 2
  ExclusiveRelease = TRUE
  ExclusiveUse = TRUE
SPECIFICATION Spec
SYMMETRY Symmetry
INVARIANTS TypeOK FreeListExact PopLinkFresh OneOwner PointerCurrent TruthNeverExposed FreshIsClean Accounting GenerationMaxCovers ForeachExact
PROPERTIES FailOnlyWhenExhausted ImplementsHandlePool ImplementsStackPool
