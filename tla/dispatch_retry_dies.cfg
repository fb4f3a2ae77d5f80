\* A call of the retry loop raises.
SPECIFICATION LiveSpec
CONSTANTS
    Rides = {r1}
    Drivers = {d1}
    None = None
    Published <- AllTopics
    MaxChannel = 2
    MaxQueue = 1
    MaxCrashes = 0
    MayFail = FALSE
    RetryMayFail = TRUE
    MayExpire = FALSE
PROPERTY StaleRidesAreRetried
