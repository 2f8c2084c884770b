\* One record from the peer with a NewSessionTicket and a KeyUpdate.
SPECIFICATION Spec
CONSTANTS
    MaxSeq = 2
    PhhLimit = 1
    PhhRetry = TRUE
    WriteLen = 2
    RoomBound = 1
    ChunkBound = 2
    PeerBound = 2
    Traffic <- AllTraffic
INVARIANT
    NothingMoreToDo
