\* A server; datagrams are lost, reordered and repeated, the client sends its
\* flight again.
SPECIFICATION FairSpec
CONSTANTS
    Window = 3
    Saturation = 4
    Server = TRUE
    QueueLimit = 2
    RecordLimit = 3
    AlertCount = 1
    Duplicates = TRUE
    Damage = FALSE
    FlightBound = 2
    ExtraBound = 1
INVARIANTS
    DeliveredOnce
    FinishedFirst
    AcceptedNotLost
    LossIsTolerated
PROPERTIES
    HeldIsDelivered
