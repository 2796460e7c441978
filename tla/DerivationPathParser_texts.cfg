SPECIFICATION FairSpec
CONSTANTS
    HardenedBit = 2
    Radix = 2
    MaxText = 5
INVARIANTS
    TypeOK
    ReadsPaths
    RoundTrip
PROPERTIES
    Advances
    Ends
CHECK_DEADLOCK FALSE
