CONSTANTS
    Games = 4
    Home <- MCHome
    Away <- MCAway
    Date <- MCDate
    Seasons <- MCSeasons
    Finals <- MCFinals
    Boxes <- MCBoxes
    Score <- MCScore
    Board <- MCBoard
    Checkpoints = 2
    LineupSize = 3
    Enough = 3
    Padded = 4
    MinLive = 6
    MaxGood = 2
    None = None
SPECIFICATION RepairSpec
INVARIANT
    NoHindsight
CHECK_DEADLOCK FALSE
