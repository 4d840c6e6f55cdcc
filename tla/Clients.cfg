SPECIFICATION Spec
CONSTANTS
  Paths = {f1}
  MaxPrompts = 2
  MaxSteps = 2
  MaxOpens = 1
  MaxWritten = 2
  MaxTurns = 2
  MaxGaps = 1
  Approvals = {a1, a2}
  MaxLosses = 1
  Terminals = {t1, t2}
  Limit = 1
  MaxOutput = 2
  MaxPending = 1
  MaxKept = 1
  Cards = {1, 2}
  MaxWorks = 4
  MaxRunners = 1
  MaxDeaths = 1
  Plan = Plan
  Validation = Validation
  Roots = {r1, r2}
  Requests = {q1}
  Closers = {c1, c2}
  MaxRuntimes = 3
  QueueLimit = 2
  MaxEvents = 2
  MaxSaid = 2
  None = None
SYMMETRY Symmetry
INVARIANTS
  
  
  ProjectsAreKept
CHECK_DEADLOCK FALSE
