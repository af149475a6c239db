CONSTANTS
  Producer = {t1, t2}
  Consumer = {t1, t2}
  Observer = {}
  Capacity = 2
  GenMod = 8
  CountMod = 4
  StatMod = 1
  MaxPush = 4
SPECIFICATION Spec
CHECK_DEADLOCK FALSE
INVARIANT LinkNeverStale
