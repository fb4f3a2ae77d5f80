\* Any two requests may overlap, any call may fail.
SPECIFICATION WatchedSpec
CONSTANTS
    Riders = {u1}
    Drivers = {d1, d2}
    Rides = {r1}
    Tasks = {t1, t2}
    None = None
    Ops <- AllOps
    Isolated = FALSE
    MayFail = TRUE
SYMMETRY TaskAndDriverSymmetry
INVARIANTS TypeOK AcceptOnce OnlyTheWinner NoEventBeforeCommit LockIsNeverLeaked
PROPERTIES AssignmentSpec OffEdgesOnlyWhenStale DriverIsBookedFirst EndFreesTheDriver
