CONSTANTS
    Games = 4
    Home <- MCHome
    Away <- MCAway
    Date <- MCDate
    Seasons <- MCSeasons
    Finals <- MCFinals
    Boxes <- MCBoxes
    Score <- MCScore
    Board <- MCBoard
    Checkpoints = 3
    LineupSize = 3
    Enough = 3
    Padded = 4
    MinLive = 6
    MaxGood = 1
    None = None
SPECIFICATION RepairSpec
INVARIANTS
    NoLookAhead
    ControlsAccounted
    SettledAsPriced
CHECK_DEADLOCK FALSE
