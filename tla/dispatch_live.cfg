\* Lost events, failing handlers and one restart; the retry loop survives.
SPECIFICATION LiveSpec
CONSTANTS
    Rides = {r1}
    Drivers = {d1}
    None = None
    Published <- DispatchTopics
    MaxChannel = 1
    MaxQueue = 1
    MaxCrashes = 1
    MayFail = TRUE
    RetryMayFail = FALSE
    MayExpire = TRUE
PROPERTY WaitingRideIsOffered
