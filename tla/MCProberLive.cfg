CONSTANTS
  Nodes = {1, 2, 3, 4}
  Racks = {1, 2}
  PodIds = {p1, p2, p3}
  NoRack = NoRack
  NoPod = NoPod
  HomeAtStart <- MCHomeAtStart
  MaxConcurrent = 1
  Cadence = 0
  MaxAge = 0
  MaxClock = 0
  MaxFaults = 1
  MaxMoves = 0
SPECIFICATION FairSpec
PROPERTY CycleEnds
PROPERTY LeaksReclaimed
PROPERTY EveryNodeProbed
