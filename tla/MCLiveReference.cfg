CONSTANTS
    LineupSize = 2
    Weight = {1, 3}
    Board <- MCBoard
    Game <- MCGame
    Rows <- MCRows
    Remaining <- MCRemaining
    PeriodLength = 2
    None = None
    MaxNow = 4
    MaxAnswers = 2
SPECIFICATION Spec
INVARIANTS
    AllocationSound
    EngineFailsOnRepeats
    HorizonIsRequested
    OfferedOrMirroredIsPriced
    AnchorIsOfOthers
PROPERTY
    FeedIsRecent
CHECK_DEADLOCK FALSE
