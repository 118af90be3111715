SPECIFICATION RSMSpec
CONSTANTS
  Server = {s1, s2, s3}
  None = None
  MaxTerm = 3
  StartsIn <- Starts
  Snapshots = FALSE
  MaxRestarts = 0
SYMMETRY Symmetry
CHECK_DEADLOCK FALSE
INVARIANTS SubmitAnswered
