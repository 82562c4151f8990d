CONSTANTS
    Readers = {r1, r2, r3}
    Sizers <- NoSizers
    None = None
    Unknown = Unknown
    Offsets <- MCOffsets
    Sizes <- TwoSizes
SPECIFICATION Spec
SYMMETRY Symmetry
INVARIANTS
    TypeOK
    OneProbe
    AtMostOneCopy
    NoCopyOutlivesTheHandle
PROPERTIES
    ChosenIsFinal
    NoRequestOnceStaged
    LengthIsSettledOnce
