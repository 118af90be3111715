SPECIFICATION Spec
CONSTANTS
  Server = {s1, s2, s3}
  Command = {c1}
  None = None
  MaxTerm = 2
  MaxIndex = 1
  MaxCalls = 2
  MaxApplied = 0
  MaxRestarts = 0
  Snapshots = FALSE
SYMMETRY Symmetry
CHECK_DEADLOCK FALSE
INVARIANTS ElectionInv MatchIndexSound CommittedIsDurable
PROPERTIES NeverBack
