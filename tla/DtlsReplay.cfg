\* Numbers of three 3-bit bytes, saturated at half a byte.
SPECIFICATION Spec
CONSTANTS
    Window = 3
    Saturation = 4
    Bytes = 3
    ByteBits = 3
    SeqNum <- Arrivals
INVARIANTS
    CheckIsExact
    ComparesAsNumbers
PROPERTIES
    AtMostOnce
