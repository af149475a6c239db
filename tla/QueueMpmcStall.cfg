CONSTANTS
  Producer = {t1, t2}
  Consumer = {t1, t2}
  Observer = {}
  Capacity = 2
  GenMod = 8
  CountMod = 4
  StatMod = 1
  MaxPush = 3
SPECIFICATION FairSpec
CHECK_DEADLOCK FALSE
PROPERTIES CallsReturn
