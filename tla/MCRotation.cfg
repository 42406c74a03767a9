CONSTANTS
  Nodes = {1, 2, 3, 4}
  Steady = {4}
  MaxRegistrations = 3
  FirstDay = 0
  LastDay = 60000
  Seconds = {0, 59, 3600, 86399}
SPECIFICATION MCSpec
INVARIANT BoundedWait
INVARIANT CivilDates
INVARIANT StringOrderIsTimeOrder
PROPERTY NodeCoverage
