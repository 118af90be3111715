SPECIFICATION FairLockSpec
CONSTANTS
  Client = {c1, c2}
  Key = {k1}
  Value = {c1, c2, free}
  None = None
  l = k1
  Free = free
  MaxLate = 2
  MaxRounds = 2
CHECK_DEADLOCK FALSE
INVARIANTS MutualExclusion ReleaseNeverErrVersion ReleaseFrees
PROPERTIES EveryoneServed ImplementsKVSpec
