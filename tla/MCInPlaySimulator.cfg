CONSTANTS
    Home = Home
    Away = Away
    Stranger = Stranger
    None = None
    Player <- MCPlayer
    Eligible <- MCEligible
    LineupSize = 2
    OvertimeSeconds = 1
    MaxOvertimes = 2
    PossessionLimit = 3
    Start <- MCStart
    h1 = h1
    h2 = h2
    h3 = h3
    a1 = a1
    a2 = a2
    x1 = x1
SPECIFICATION Spec
SYMMETRY PlayerSymmetry
INVARIANTS
    TypeOK
    ScoresAddUp
    SecondsAddUp
    BoxScoresFit
    IdlePlayersBookNothing
    FinalIsDecided
    PossessionsWithinClock
CHECK_DEADLOCK FALSE
