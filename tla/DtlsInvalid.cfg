\* A damaged datagram.
SPECIFICATION Spec
CONSTANTS
    Window = 3
    Saturation = 4
    Server = TRUE
    QueueLimit = 2
    RecordLimit = 3
    AlertCount = 1
    Duplicates = FALSE
    Damage = TRUE
    FlightBound = 1
    ExtraBound = 1
INVARIANTS
    InvalidIsDiscarded
