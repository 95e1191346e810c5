CONSTANTS
    u1 = u1
    u2 = u2
    gift = gift
    card = card
    w1 = w1
    w2 = w2
    NoUser = NoUser
    NoReward = NoReward
    Rewards = {gift, card}
    SignupBonus = 3
    AwardPoints <- SmallAwards
    Discounts = {}
    Cost <- BothCost
    MinTier <- BothTier
    TotalAvailable <- OneGift
    MaxPerUser <- CardPerUser
    Users = {u1}
    Workers = {w1, w2}
    Tiers = {0}
    Awarded = {"custom"}
    MaxPosted = 6
SYMMETRY Symmetric
SPECIFICATION Spec
INVARIANTS
    SignupBonusOnce
    PointsArePosted
    OnlyExpiryOverdraws
    LimitsHoldUpToWorkers
