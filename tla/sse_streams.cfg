\* Connections come, go and reconnect under both kinds of key.
SPECIFICATION LiveSpec
CONSTANTS
    Rides = {r1}
    Drivers = {d1}
    Conns = {c1, c2, c3}
    None = None
    MaxPending = 2
    AtOnce = 3
CHECK_DEADLOCK FALSE
INVARIANTS TypeOK RegisteredIsLive CloseIsLast
PROPERTY CompletedStreamsEnd
