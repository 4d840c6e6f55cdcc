SPECIFICATION Spec
CONSTANTS
  MaxTurns = 2
  RunTurns = 2
  RecentTurns = 2
  StopLimit = 1
  MaxCalls = 1
  MaxAnswers = 2
  MaxPrompts = 2
  MaxRedirects = 0
  MaxRewrites = 0
  MaxOpens = 3
  MaxEvents = 3
INVARIANTS
  ReopensAnswered
CHECK_DEADLOCK FALSE
