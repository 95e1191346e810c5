\* A confirmation that reads a package around its cancellation.
SPECIFICATION Spec
CONSTANTS
    ana = ana
    rui = rui
    cut = cut
    dye = dye
    spa = spa
    w1 = w1
    w2 = w2
    w3 = w3
    Booking = {cut, dye}
    Package = {spa}
    NoPackage = NoPackage
    PackageOf <- MCPackageOf
    User = {ana, rui}
    Client = {ana}
    ClientOf <- MCClientOf
    Worker = {w1, w2}
    AskedStatus = {"PENDING", "NO_SHOW", "CANCELLED"}
    AskedPackage = {"COMPLETED"}
    MaxRequests = 2
SYMMETRY Symmetry
INVARIANTS
    ConfirmedWithBookings
CHECK_DEADLOCK FALSE
