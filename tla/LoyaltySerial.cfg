CONSTANTS
    u1 = u1
    u2 = u2
    gift = gift
    card = card
    w1 = w1
    w2 = w2
    NoUser = NoUser
    NoReward = NoReward
    Rewards = {gift}
    SignupBonus = 2
    AwardPoints <- SmallAwards
    Discounts = {1}
    Cost <- GiftCost
    MinTier <- SecondTier
    TotalAvailable <- TwoGifts
    MaxPerUser <- GiftPerUser
    Users = {u1, u2}
    Workers = {w1}
    Tiers = {0, 1}
    Awarded = {"birthday", "custom", "referral"}
    MaxPosted = 4
SYMMETRY SymmetricUsers
SPECIFICATION SerialSpec
INVARIANTS
    BooksBalance
    LimitsHoldInTurn
PROPERTIES
    ImplementsBook
