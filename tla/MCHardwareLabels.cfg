CONSTANTS
  Models = {m1, m2}
  ManagedKeys = {m1, m2, "rack", "ready", "failed"}
  Foreign = foreign
  Null = Null
  MaxFaults = 0
  MaxChanges = 1
SPECIFICATION Spec
PROPERTY LabelsFollowHardware
