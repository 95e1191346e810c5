SPECIFICATION Spec
CONSTANTS
    cut = cut
    bia = bia
    shop = shop
    all = all
    c1 = c1
    c2 = c2
    w1 = w1
    w2 = w2
    None = None
    Config = {c1, c2}
    Subject = {cut, bia, shop, all}
    Level <- MCLevel
    Platform = all
    Period <- MCPeriod
    Worker = {w1, w2}
    MaxTime = 1
    MaxRequests = 3
SYMMETRY Symmetry
INVARIANTS
    SecondsWereRaced
    AnswersAreMostSpecific
CHECK_DEADLOCK FALSE
