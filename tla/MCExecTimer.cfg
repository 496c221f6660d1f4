SPECIFICATION FairSpec
CONSTANTS
  L1 = L1
  L2 = L2
  L3 = L3
  Loops <- MCLoops
  Caller = Caller
  Intervals <- MCSignedIntervals
  ParentEnds = {"canceled", "deadline"}
INVARIANTS OneLiveLoop StopQuiesces IntervalInForce
PROPERTIES StopTerminates
CHECK_DEADLOCK FALSE
