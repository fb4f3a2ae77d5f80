\* A rating overlapping the registration of the user rated.
SPECIFICATION Spec
CONSTANTS
    ann = ann
    bob = bob
    amy = amy
    abe = abe
    one = one
    two = two
    three = three
    Users <- AllUsers
    Name <- TheNames
    Members = {ann, bob}
    Registered = {bob}
    Rides <- TheRides
    Tasks = {t1, t2}
    Calls <- MemberCalls
    None = None
    MayFail = FALSE
SYMMETRY Symmetries
PROPERTY RoleIsPermanent
