CONSTANTS
  Producer = {p1}
  Consumer = {c1, c2}
  Observer = {c1, c2}
  Capacity = 2
  GenMod = 8
  CountMod = 4
  StatMod = 1
  MaxPush = 3
SPECIFICATION Spec
CHECK_DEADLOCK FALSE
SYMMETRY Symmetry
INVARIANTS TypeOK SlotsConserved TailInList ReleasesOnce DestroyReleasesAll
PROPERTIES ImplementsFifo PeekFront EmptyHonest
