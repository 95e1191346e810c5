CONSTANTS
    p1 = p1
    p2 = p2
    paid = paid
    back = back
    other = other
    w1 = w1
    w2 = w2
    r1 = r1
    NoEvent = NoEvent
    Payments = {p1, p2}
    Events = {paid, back, other}
    PaymentOf <- TwoPaymentsOf
    StatusOf <- ThreeEvents
    Workers = {w1, w2}
    Runs = {}
    MaxAttempts = 6
    Scenarios = {}
SYMMETRY Symmetric
SPECIFICATION WebhooksSpec
INVARIANTS
    AckedIsProcessed
    CountsEachEventOnce
PROPERTIES
    ImplementsLedger
CHECK_DEADLOCK FALSE
