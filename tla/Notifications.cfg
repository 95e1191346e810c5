SPECIFICATION FairSpec
CONSTANTS
    n1 = n1
    n2 = n2
    e1 = e1
    w = w
    s1 = s1
    NoOne = NoOne
    Notification = {n1, n2}
    Event = {e1}
    EventOf <- MCEventOf
    Priority <- MCPriority
    Reachable = {n1}
    Session = {w, s1}
    Worker = w
    Limit = 1
    MaxRetries = 2
INVARIANTS
    DuplicatesHaveCause
    RetryLeft
    SentWentOut
PROPERTIES
    CancelledStaysCancelled
    PassesEnd
