SPECIFICATION Spec
CONSTANTS
    None = None
    Tier <- MCTier
    Window <- MCWindow
    MaxTiers = 3
    Rule <- MCRule
    Price = {2}
    Start = 2
    Delay = 1
    MaxTime = 4
INVARIANTS
    NoShowFeesInBounds
PROPERTIES
    TightestTierDecides
    TooLateIsFinal
