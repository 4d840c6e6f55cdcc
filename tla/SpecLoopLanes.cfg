\* Two cards in one lane and one in another, with two slots and a chat.
CONSTANTS
    Plan <- ThreeCards
    Lane <- LanesOfThree
    After <- Free
    FollowUps = 0
    MaxRounds = 1
    MaxActive = 2
    MaxOthers = 1
    MaxRestarts = 1

SPECIFICATION Spec
INVARIANTS
    
    SlotLimit
