SPECIFICATION Spec
CONSTANTS
    Data <- AllItems
    Key <- KeyOf
    Hash <- HashFunction
    None = None
    MIN_NODES = 2
    LH_LOAD_MULT = 2
    UP_LOAD = 2
    DOWN_LOAD = 1
INVARIANT
    WalkStaysInTable
