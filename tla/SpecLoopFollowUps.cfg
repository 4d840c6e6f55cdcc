\* A card in each of two lanes, with follow-ups.
CONSTANTS
    Plan <- TwoCards
    Lane <- TwoLanes
    After <- Independent
    FollowUps = 1
    MaxRounds = 1
    MaxActive = 2
    MaxOthers = 1
    MaxRestarts = 1

SPECIFICATION Spec
INVARIANTS
    CallbackFindsItsCard
    ValidatesFinishedWork
    
PROPERTY EndedUnlessPlanLoaded
