SPECIFICATION Spec
CONSTANTS
  Server = {s1, s2}
  Clerk = {c1}
  MaxStarts = 2
  MaxCalls = 1
CHECK_DEADLOCK FALSE
INVARIANTS AckedIsSaved
PROPERTIES NoCallHangsOnDeadServer
