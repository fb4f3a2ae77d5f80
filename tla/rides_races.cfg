\* Two rides of one rider, overlapping requests that may fail, fair scheduling.
SPECIFICATION WatchedLiveSpec
CONSTANTS
    Riders = {u1}
    Drivers = {d1}
    Rides = {r1, r2}
    Tasks = {t1, t2}
    None = None
    Ops = {"request", "accept", "start", "online"}
    Isolated = FALSE
    MayFail = TRUE
PROPERTIES SecondRideOnlyByRace RequestsTerminate
