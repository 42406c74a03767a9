CONSTANTS
  n1 = n1
  n2 = n2
  n3 = n3
  Nodes = {n1, n2, n3}
  Null = Null
  MaxProbes = 2
  MaxFaults = 2
SPECIFICATION MCSpec
INVARIANT PairInv
INVARIANT NoFalseOk
INVARIANT NoFalseAlarm
INVARIANT OneStory
PROPERTY Concludes
