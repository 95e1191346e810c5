\* Four requests, three at a time, on a package of two bookings.
SPECIFICATION Spec
CONSTANTS
    ana = ana
    rui = rui
    cut = cut
    dye = dye
    spa = spa
    w1 = w1
    w2 = w2
    w3 = w3
    Booking = {cut, dye}
    Package = {spa}
    NoPackage = NoPackage
    PackageOf <- MCPackageOf
    User = {ana, rui}
    Client = {ana}
    ClientOf <- MCClientOf
    Worker = {w1, w2, w3}
    AskedStatus = {"PENDING", "COMPLETED", "NO_SHOW", "CANCELLED"}
    AskedPackage = {"COMPLETED"}
    MaxRequests = 4
SYMMETRY Symmetry
INVARIANTS
    TypeOK
    CancelledAreDated
    PackagesNeverSplit
    PackageMatchesBookings
PROPERTIES
    AcceptedCancelIsStored
    FinishedCancelsWereOpen
CHECK_DEADLOCK FALSE
