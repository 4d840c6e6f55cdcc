\* Background, foreground and isolated dispatches of two leaders.
CONSTANTS
    Calls <- FiveCalls
    Subagent <- FourSubagents
    Leader <- TwoLeaders
    Background <- BackgroundCalls
    Isolated <- Worktrees
    Path <- Prefixes
    Contains <- Below
    MaxRounds = 2
    MaxBackground = 2

SPECIFICATION Spec
INVARIANTS
    OneWriterPerTree
    NoLeaseLeft
    SharedRunsAlone
    KnownWhileRunning
 
