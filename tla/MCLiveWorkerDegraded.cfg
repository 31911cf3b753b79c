CONSTANTS
    Game = {g1, g2}
    Model = {m1}
    None = None
    Kinds = {"row", "game", "stats", "offers"}
    MaxStateAge = 0
    Interval = 1
    Horizon = 1
SPECIFICATION Spec
SYMMETRY GameSymmetry
INVARIANT
    DegradedShowsNothing
