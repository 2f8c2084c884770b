SPECIFICATION Spec
CONSTANTS
    Configs <- MCConfigs
    RenegotiationBound = 1
    DataBound = 1
    OmissionBound = 1
INVARIANTS
    OmissionDetected
    Agreement
    NoSpuriousFailure
    PeerAuthenticated
PROPERTY Termination
CHECK_DEADLOCK FALSE
