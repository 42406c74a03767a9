CONSTANTS
  Nodes = {1, 2, 3}
  Racks = {1, 2}
  PodIds = {p1, p2, p3, p4}
  NoRack = NoRack
  NoPod = NoPod
  HomeAtStart <- MCHomeAtStart
  MaxConcurrent = 2
  Cadence = 1
  MaxAge = 0
  MaxClock = 1
  MaxFaults = 1
  MaxMoves = 0
SPECIFICATION Spec
INVARIANT PermitsConserved
INVARIANT OneProbePerNode
INVARIANT NoStrandedPod
PROPERTY ImplementsRounds
PROPERTY StampsAdvance
SYMMETRY PodSymmetry
