\* Overlapping and failing requests.
SPECIFICATION Spec
CONSTANTS
    ann = ann
    bob = bob
    amy = amy
    abe = abe
    one = one
    two = two
    three = three
    Users <- AllUsers
    Name <- TheNames
    Members = {ann, bob}
    Registered = {bob}
    Rides <- TheRides
    Tasks = {t1, t2}
    Calls <- OverlapCalls
    None = None
    MayFail = TRUE
SYMMETRY Symmetries
INVARIANTS TypeOK RatedOnce CountsNeverExceed RoleMeansProfile DriverModeMeansProfile OneAccountPerName
PROPERTIES RoleLostOnlyToRatings MarkLostOnlyToStaleSaves
