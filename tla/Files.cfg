SPECIFICATION Spec
CONSTANTS
  MaxBlocks = 5
  MaxWire = 4
  Conversations = {x1, x2}
  MaxEntries = 2
  MaxMessages = 2
  MaxRewrites = 1
  MaxFailures = 1
  MaxWrites = 1
  Sessions = {s, f}
  First = s
  MaxSaid = 3
  MaxRuns = 2
  MaxCrashes = 1
  Paths = {p, q}
  MaxCalls = 3
  MaxChanges = 1
  MaxRecords = 1
  MaxKept = 2
  Letters = {a, b}
  MaxLines = 2
  MaxHunkLines = 2
  None = None
INVARIANTS
  WireHolds
  
  
CHECK_DEADLOCK FALSE
