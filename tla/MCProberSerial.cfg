CONSTANTS
  Nodes = {1, 2, 3}
  Racks = {1, 2}
  PodIds = {p1, p2, p3, p4}
  NoRack = NoRack
  NoPod = NoPod
  HomeAtStart <- MCHomeAtStart
  MaxConcurrent = 1
  Cadence = 1
  MaxAge = 0
  MaxClock = 2
  MaxFaults = 1
  MaxMoves = 1
SPECIFICATION Spec
INVARIANT IInv
INVARIANT QuietBetweenCycles
PROPERTY ProbesOnlyWhenDue
SYMMETRY PodSymmetry
