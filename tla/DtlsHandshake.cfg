SPECIFICATION Spec
CONSTANTS
    Configs <- Handshakes
    Size <- LongMessages
    Mtu = 3
    FallbackMtu = 2
    AlertCount = 5
    Ahead = 2
INVARIANT
    TranscriptsAgree
    LossIsTolerated
    KeptUntilReceived
PROPERTY
    Completion
CHECK_DEADLOCK FALSE
