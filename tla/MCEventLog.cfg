CONSTANTS
    Home = Home
    Away = Away
    Stranger = Stranger
    None = None
    GameId = GameId
    OtherGame = OtherGame
    EventId = {1, 2, 3, 4, 5}
    Player <- MCPlayer
    Stat <- MCStat
    LineupSize = 2
    InitialTimeouts = 1
    RegulationPeriods = 1
    RegulationSeconds = 3
    OvertimeSeconds = 2
    Envelope <- MCEnvelope
    Body <- MCBody
    MaxSequence = 5
    h1 = h1
    h2 = h2
    h3 = h3
    a1 = a1
    a2 = a2
    x1 = x1
SPECIFICATION LogSpec
INVARIANTS
    TypeOK
    CourtMatchesLineups
    FiveOnCourt
    RemovedIsOff
    HistoryIsGapless
    ScoreIsReplay
    PlayedWhileRunning
    FoulsAreThisPeriods
    BoxScoreIsReplay
    LineupIsReplay
    RemovedStaysOut
PROPERTIES
    ImplementsOrderedLog
CHECK_DEADLOCK FALSE
