SPECIFICATION Spec
CONSTANTS
    HardenedBit = 2
    Radix = 2
    MaxText = 3
INVARIANT RejectsOverflow
CHECK_DEADLOCK FALSE
