\* A client reconnects before the server notices the old connection is gone.
SPECIFICATION Spec
CONSTANTS
    Rides = {r1}
    Drivers = {d1}
    Conns = {c1, c2}
    None = None
    MaxPending = 1
    AtOnce = 2
CHECK_DEADLOCK FALSE
INVARIANT NewestIsRegistered
