SPECIFICATION Spec
CONSTANTS
  Sessions = {s1, s2}
  Checked = {s1}
  MaxRounds = 2
  MaxActive = 1
  MaxGoals = 2
  Threads = {t1, t2}
  None = None
SYMMETRY Symmetry
VIEW Seen
PROPERTIES
  GoalsAreWorkedFor
  WorkKeepsConversation
  GoalsAgree
CHECK_DEADLOCK FALSE
