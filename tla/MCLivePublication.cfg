CONSTANTS
    Game = {g1}
    Model = {m1, m2}
    None = None
    Kinds = {"row", "offers"}
    MaxStateAge = 0
    Interval = 1
    Horizon = 1
    TTL = 0
    MaxOutages = 1
SPECIFICATION SystemSpec
INVARIANTS
    SystemTypeOK
PROPERTIES
    DemoNeverReturns
    CyclesForever
    PromotionTakesEffect
