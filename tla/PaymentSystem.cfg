CONSTANTS
    p1 = p1
    p2 = p2
    paid = paid
    back = back
    other = other
    w1 = w1
    w2 = w2
    r1 = r1
    NoEvent = NoEvent
    Payments = {p1}
    Events = {paid, back}
    PaymentOf <- OnePaymentOf
    StatusOf <- PaidThenBack
    Workers = {w1}
    Runs = {r1}
    MaxAttempts = 2
    Scenarios = {"pending"}
SPECIFICATION Spec
INVARIANTS
    TypeOK
    SessionsSawThePast
PROPERTIES
    StatusChangesHaveCause
    HistoryIsKept
