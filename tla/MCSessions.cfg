CONSTANTS
  OutputFilters <- MCOutputFilters
  OutputBytes <- MCOutputBytes
  MaxCommands = 2
  MaxStages = 2
  MaxOutput = 2
  Expects <- MCExpects
  HasEndSession = TRUE
  LineEnd = "nl"
  Chunks <- MCChunks
  MaxExpects = 2
  MaxServed = 1
  MaxTyped = 1
  Requests = {r1, r2}
  MaxFlows = 2
  MaxWaits = 2
SPECIFICATION AllSpec
INVARIANTS
  OutputComplete
  StagesLive
  FlushedOnClose
  
PROPERTIES
  PipeEnds
  CloseReturns
  FlowEnds
\* a session that is over stays as it is
CHECK_DEADLOCK FALSE
