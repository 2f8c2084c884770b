\* Three records of any kind from the peer, a buffer of two records to write,
\* SSL_MODE_AUTO_RETRY set.
SPECIFICATION FairSpec
CONSTANTS
    MaxSeq = 2
    PhhLimit = 1
    PhhRetry = TRUE
    WriteLen = 2
    RoomBound = 3
    ChunkBound = 2
    PeerBound = 3
    Traffic <- AllTraffic
INVARIANTS
    TypeOK
    WireInOrder
    DataExactlyOnce
    StreamInOrder
    NoSpuriousFailure
    RequestsAnswered
PROPERTIES
    ClosedIsFinal
    ReplySent
