SPECIFICATION Spec
CONSTANTS
  Chain = 2
  MaxAttempts = 4
  Background = FALSE
  Parameters = 1
  Jobs = {j1, j2}
  MaxRunning = 1
  Tokens = {"run", "dispatch", "round"}
  Root = "run"
  Parent <- ParentOf
  Deadlines = {"dispatch"}
  Publishers = {"run", "terminal"}
  Terminals = {"terminal"}
  Subscribers = {"app"}
  QueueLimit = 2
  TerminalLimit = 1
  MaxEvents = 3
  Files = {f1}
  Writers = {w1, w2}
  MaxKeys = 2
  MaxContents = 3
  Callers = {c1, c2}
  MaxClients = 2
  MaxRequests = 2
  MaxFrames = 1
  Dirs = {"top", "docs", "src"}
  Top = "top"
  Words = {"", "git", "git status", "make"}
  Empty = ""
  Below <- BelowOf
  Lines <- SomeLines
  ReadOnly = {"git status"}
  Hosts = {"listed", "other"}
  Preapproved = {}
  Configured = {}
  Stored = {"other"}
  Ceilings <- SomeCeilings
  Roles <- SomeRoles
  Folders = {"docs"}
  Conversations = {k1, k2}
  MaxReloads = 1
  None = None
  Names = {n1, n2}
  MaxBackground = 2
  MaxDispatches = 2
  MaxRuns = 2
  MaxQuestions = 1
  Same = Same
SYMMETRY Symmetry
INVARIANTS
  OneVoice
  JobsAreKnown
  CancelReaches
  LossesAreTold
  ServerIsKept
  PoliciesHold
  NoticesArrive
PROPERTIES
  RestoresExactly
CHECK_DEADLOCK FALSE
