SPECIFICATION Spec
CONSTANTS
  None = None
  MaxTerm = 3
  MaxLen = 3
  MaxCalls = 2
PROPERTIES EventuallyCaughtUp
