SPECIFICATION Spec
CONSTANTS
  Server = {s1, s2, s3}
  Client = {c1, c2}
  Key = {k1}
  Value = {v1}
  None = None
  MaxTerm = 2
  StartsIn <- TwoEach
  Snapshots = TRUE
  MaxRestarts = 1
  MaxOps = 3
SYMMETRY Symmetry
CONSTRAINT Kinds
CHECK_DEADLOCK FALSE
INVARIANTS WaiterAnswered
PROPERTIES ReplicatedImplementsKVSpec
