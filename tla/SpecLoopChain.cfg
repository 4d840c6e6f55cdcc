\* The second card waits for the first; under fairness.  The loop may end.
CONSTANTS
    Plan <- TwoCards
    Lane <- TwoLanes
    After <- Dependent
    FollowUps = 1
    MaxRounds = 2
    MaxActive = 3
    MaxOthers = 0
    MaxRestarts = 1

SPECIFICATION FairSpec
INVARIANT DependenciesFirst

    
    
CHECK_DEADLOCK FALSE
