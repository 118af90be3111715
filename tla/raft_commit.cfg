SPECIFICATION Spec
CONSTANTS
  Server = {s1, s2, s3}
  Command = {c1}
  None = None
  MaxTerm = 4
  MaxIndex = 1
  MaxCalls = 1
  MaxApplied = 0
  MaxRestarts = 0
  Snapshots = FALSE
SYMMETRY Symmetry
CHECK_DEADLOCK FALSE
INVARIANTS LeaderCompleteness
