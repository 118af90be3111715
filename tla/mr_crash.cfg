SPECIFICATION Spec
CONSTANTS
  Worker = {w1, w2, w3}
  NMap = 2
  NReduce = 2
  MaxCrashes = 2
CHECK_DEADLOCK FALSE
INVARIANTS ReduceSeesAllMaps DoneMeansFinished
PROPERTIES JobEnds
