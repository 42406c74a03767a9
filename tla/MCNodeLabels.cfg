CONSTANTS
  Models = {m1, m2}
  ManagedKeys = {m1, m2, "rack", "ready", "failed"}
  Foreign = foreign
  Null = Null
  MaxFaults = 3
  MaxChanges = 2
SPECIFICATION Spec
INVARIANT LabelInv
INVARIANT RetryExact
PROPERTY ForeignKept
PROPERTY Converges
