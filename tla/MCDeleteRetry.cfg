CONSTANTS
  Nodes = {1}
  Racks = {1}
  PodIds = {p1, p2, p3}
  NoRack = NoRack
  NoPod = NoPod
  HomeAtStart <- MCHomeAtStart
  MaxConcurrent = 1
  Cadence = 2
  MaxAge = 1
  MaxClock = 2
  MaxFaults = 1
  MaxMoves = 0
SPECIFICATION DSpec
PROPERTY RetriedNextCycle
