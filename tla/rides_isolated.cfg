\* Clients keep requests about one ride, and requests by one user, apart; any call may fail.
SPECIFICATION Spec
CONSTANTS
    Riders = {u1}
    Drivers = {d1}
    Rides = {r1, r2}
    Tasks = {t1, t2}
    None = None
    Ops <- AllOps
    Isolated = TRUE
    MayFail = TRUE
SYMMETRY TaskAndRideSymmetry
INVARIANT RowConsistent
PROPERTIES StateMachine LedgerSpec
