CONSTANTS
  Nodes = {1, 2, 3, 4}
  Steady = {1, 2, 3, 4}
  MaxRegistrations = 0
SPECIFICATION Spec
PROPERTY PairCoverage
