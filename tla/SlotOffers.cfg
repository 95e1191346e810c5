SPECIFICATION Spec
CONSTANTS
    bia = bia
    leo = leo
    cut = cut
    e1 = e1
    e2 = e2
    r1 = r1
    b1 = b1
    b2 = b2
    q1 = q1
    q2 = q2
    None = None
    Service = {cut}
    Person = {leo}
    Profile = {q1, q2}
    Editor = {e1, e2}
    Duration = {1, 2}
    Percent = {0, 20}
    Commission = {50}
    MaxEdits = 3
    Professional = {bia}
    Windows <- MCWindows
    Interval = {1, 2}
    Booking = {b1, b2}
    Times <- MCTimes
    Reader = {r1}
    MaxReads = 1
    MaxMarks = 1
SYMMETRY Symmetry
INVARIANTS
    OffersAreFree
CHECK_DEADLOCK FALSE
