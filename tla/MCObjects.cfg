CONSTANTS
  Values <- MCValues
  MaxTotal = 3
  Letters = {"a", "b"}
  Patterns = {"a", "b"}
  MaxPatterns = 2
  MaxText = 5
  Size = 5
  Documents <- MCDocuments
  Clients = {c1, c2}
  Links = {l1, l2}
  LAN = lan
  IPs = {i1, i2}
  Foreign = {i2}
  MaxFaults = 1
SPECIFICATION AllSpec
INVARIANTS
  FilterExact
  WriteAtExact
  ParsedExact
  Undone
PROPERTIES
  ImplementsAbstract
  
\* an object nobody uses any more stays as it is
CHECK_DEADLOCK FALSE
