CONSTANTS
  c1 = c1
  m1 = m1
  p1 = p1
  p2 = p2
  Counters <- MCCounters
  Monitors <- MCMonitors
  Posts <- MCPosts
  CollectCount = 2
  Cumalative <- MCCounters
  IgnoreZero <- MCCounters
  Values <- MCValues
  MaxTotal = 2
  MaxCounters = 1
  MaxPayloads = 3
SPECIFICATION FairSpec
CHECK_DEADLOCK FALSE
INVARIANTS
  NoneLost
  OnceEach
  InOrder
  LastAttempt
  Measured
PROPERTIES
  StopReturns
