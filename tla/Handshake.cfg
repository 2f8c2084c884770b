\* Every combination of settings; with good certificates a hello may be damaged.
SPECIFICATION FairSpec
CONSTANTS
    None = None
    Configs <- AllConfigs
    Exposed <- DamageConfigs
    DamageBound = 1
INVARIANTS
    TypeOK
    Agreement
    KeysInSync
    NoSpuriousFailure
    PeerAuthenticated
    DamageDetected
PROPERTIES
    PastPreserved
    Termination
