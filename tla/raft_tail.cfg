SPECIFICATION Spec
CONSTANTS
  Server = {s1, s2, s3}
  Command = {c1}
  None = None
  MaxTerm = 2
  MaxIndex = 2
  MaxCalls = 1
  MaxApplied = 1
  MaxRestarts = 0
  Snapshots = FALSE
SYMMETRY Symmetry
CHECK_DEADLOCK FALSE
INVARIANTS LogMatching StateMachineSafety
