CONSTANTS
  Producer = {p1, p2, p3}
  Consumer = {}
  Observer = {}
  Capacity = 2
  GenMod = 4
  CountMod = 4
  StatMod = 1
  MaxPush = 3
SPECIFICATION FairSpec
CHECK_DEADLOCK FALSE
PROPERTIES ImplementsFifo CallsReturn
