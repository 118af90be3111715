SPECIFICATION Spec
CONSTANTS
  Server = {s1, s2, s3}
  Command = {c1}
  None = None
  MaxTerm = 1
  MaxIndex = 3
  MaxCalls = 1
  MaxApplied = 3
  MaxRestarts = 0
  Snapshots = TRUE
SYMMETRY Symmetry
CHECK_DEADLOCK FALSE
INVARIANTS AppliedWithoutGap
