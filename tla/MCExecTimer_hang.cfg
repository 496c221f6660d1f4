SPECIFICATION FairSpec
CONSTANTS
  L1 = L1
  L2 = L2
  L3 = L3
  Loops <- MCLoops
  Caller = Caller
  Intervals <- MCIntervals
  ParentEnds = {}
PROPERTIES StopAlwaysReturns
CHECK_DEADLOCK FALSE
