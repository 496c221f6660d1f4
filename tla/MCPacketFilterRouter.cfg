SPECIFICATION MCSpec
CONSTANTS
  Groups <- MCGroups
  PortForwards <- MCPortForwards
  Traffics <- MCTraffics
  IPs = {"a", "b"}
  FamilyOf <- MCFamilyOf
  MaxSaved = 2
  MaxCopies = 2
  ScopeSize = 2
  MaxMishaps = 1
INVARIANTS
  SharedRulesStay
  NoOrphans
  
  ListRulesMatch
CHECK_DEADLOCK FALSE
CONSTRAINT Explored
