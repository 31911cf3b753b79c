CONSTANTS
    Game = {g1}
    Model = {m1}
    None = None
    Kinds = {"row"}
    MaxStateAge = 0
    Interval = 3
    Horizon = 3
    TTL = 2
    MaxOutages = 0
SPECIFICATION SystemSpec
INVARIANT
    ShownIsUnexpired
