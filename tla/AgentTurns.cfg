SPECIFICATION Spec
CONSTANTS
  MaxTurns = 3
  RunTurns = 3
  RecentTurns = 2
  StopLimit = 1
  MaxCalls = 2
  MaxAnswers = 3
  MaxPrompts = 2
  MaxRedirects = 1
  MaxRewrites = 1
  MaxOpens = 3
  MaxEvents = 2
INVARIANTS
  RequestsAreAnswered
  TranscriptIsConversation
  RedirectsArrive
  CompletedHasNoPartialTurn
PROPERTIES
  StopEnds
CHECK_DEADLOCK FALSE
