SPECIFICATION Spec
CONSTANTS
  Server = {s1, s2, s3}
  Command = {c1}
  None = None
  MaxTerm = 1
  MaxIndex = 2
  MaxCalls = 1
  MaxApplied = 2
  MaxRestarts = 1
  Snapshots = TRUE
SYMMETRY Symmetry
CHECK_DEADLOCK FALSE
INVARIANTS TypeOK ElectionSafety CommitWithinLog SnapshotFitsLog
