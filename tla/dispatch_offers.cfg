\* Failing calls and one restart, within the TTL.
SPECIFICATION Spec
CONSTANTS
    Rides = {r1}
    Drivers = {d1, d2}
    None = None
    Published <- DispatchTopics
    MaxChannel = 2
    MaxQueue = 2
    MaxCrashes = 1
    MayFail = TRUE
    RetryMayFail = TRUE
    MayExpire = FALSE
SYMMETRY DriverSymmetry
INVARIANTS TypeOK OffersCanBeRetracted NothingAfterAccepted
