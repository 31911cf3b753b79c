SPECIFICATION Spec
CONSTANTS
    Process = {p1}
    Games <- MCGames
    StatPages = 2
    Matched <- MCMatched
    Attempts = 1
    Phases <- MCQuarters
    Started <- MCStarted
    Repeats = {"str"}
    Blank <- MCBlank
INVARIANT
    KeptWhenOver
