SPECIFICATION Spec
CONSTANTS
    Process = {p1, p2}
    Games <- MCGames
    StatPages = 2
    Matched <- MCMatched
    Attempts = 2
    Phases <- MCPhases
    Started <- MCStarted
    Repeats = {"str"}
    Blank <- MCBlank
INVARIANTS
    KeptOnceToldApart
    ProductionPassed
PROPERTIES
    SavedAsReceived
    RunsEnd
