SPECIFICATION AllSpec
CONSTANTS
  Loops = {l1}
  Owner = owner
  Pingers = {g1, g2}
  nodeCheckTimeout = 1
  Mappings = {m1, m2}
  Discoveries <- MCDiscoveries
  NoAnswer = "x"
  pRefresh = 3
  Minute = 6
  Second = 2
  MaxCall = 1
  MaxFailures = 1
INVARIANTS
  ServerStopped
  MappingsKept
PROPERTIES
  StopTerminates
  DevicePublished
  
CHECK_DEADLOCK FALSE
