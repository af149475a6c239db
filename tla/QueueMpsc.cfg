CONSTANTS
  Producer = {p1, p2}
  Consumer = {c1}
  Observer = {}
  Capacity = 2
  GenMod = 8
  CountMod = 4
  StatMod = 4
  MaxPush = 3
SPECIFICATION Spec
CHECK_DEADLOCK FALSE
\* states in which a push is about to link to a reused slot are left unexplored (QueueMpmcReuse)
CONSTRAINT LinkNeverStale
SYMMETRY Symmetry
VIEW View
INVARIANTS SlotsConserved CountersExact
PROPERTIES ImplementsFifo
