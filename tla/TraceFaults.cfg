CONSTANTS
  Thread = {t1, t2}
  BufferSize = 8
  IndexMod = 32
  IdMod = 1
  Faults = {"open", "short"}
  Faulty = {t2}
  MaxRecord <- MCMaxRecord
  MaxFaulty = 12
  MaxSound = 34
  MaxInit = 1
  MaxBuffer = 2
SPECIFICATION Spec
CHECK_DEADLOCK FALSE
INVARIANTS TypeOK NothingLost FilesInOrder OverwriteCounted
