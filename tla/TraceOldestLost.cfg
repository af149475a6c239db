CONSTANTS
  Thread = {t1}
  BufferSize = 8
  IndexMod = 32
  IdMod = 2
  Faults = {"open"}
  Faulty = {t1}
  MaxRecord <- MCMaxRecord
  MaxFaulty = 10
  MaxSound = 18
  MaxInit = 1
  MaxBuffer = 2
SPECIFICATION Spec
CHECK_DEADLOCK FALSE
INVARIANT OldestLost
