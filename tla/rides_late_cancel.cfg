\* A cancel that read the ride before it was started.
SPECIFICATION Spec
CONSTANTS
    Riders = {u1}
    Drivers = {d1}
    Rides = {r1}
    Tasks = {t1, t2}
    None = None
    Ops <- AllOps
    Isolated = FALSE
    MayFail = FALSE
PROPERTY NoCancelOnceInProgress
