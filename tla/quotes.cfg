\* Two overlapping requests of one rider, two drivers of whom a search returns one, and time.
SPECIFICATION Spec
CONSTANTS
    Riders = {ann}
    Distance <- Trip
    Drivers = {d1, d2}
    Tasks = {t1, t2}
    None = None
    Capacity = 2
    Window = 2
    SurgeTtl = 1
    MaxResults = 1
    MaxDelay = 1
    MaxPending = 2
SYMMETRY Symmetries
INVARIANTS TypeOK PricedByCounts QuotesAreFresh BurstsAreBounded MissedOnlyWhenCrowded
