CONSTANTS
  Thread = {t1, t2}
  Readers = {t1}
  SlotCount = 1
  GenMod = 4
  CountMod = 4
  ZeroOnAlloc = FALSE
  ZeroOnRelease = FALSE
  MaxInc = 2
  ExclusiveRelease = TRUE
  ExclusiveUse = TRUE
  BufferSize = 8
  IndexMod = 16
  IdMod = 2
  MaxEvent = 3
  MaxDrop = 2
SPECIFICATION TSpec
CHECK_DEADLOCK FALSE
INVARIANTS TraceTellsLives TraceAccounts
