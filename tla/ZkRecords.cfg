\* Every record of the protocol, cut anywhere.
CONSTANTS
    Base = 4
    IntSize = 2
    LongSize = 3
    Alloc = 2
    MaxDoublings = 3
    MaxCount = 2
    Texts <- MCTexts
SPECIFICATION Spec
INVARIANTS TypeOK WithinBounds RoundTrip NoSilentLoss SafeToFree
