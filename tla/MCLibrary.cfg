CONSTANTS
    Subjects = {"base58", "payloads", "encodings", "amounts", "addresses", "hash", "hmac", "nonces", "sponge", "numbers", "containers", "vector", "vectors"}
    a = a
    b = b
    None = None
    Objects = {a, b}
    Values = {0}
    Default = 0
    Gone = Gone
    Unwritten = 9
    N = 1
    SizeMod = 256
    MaxLen = 2
    MaxArg = 1
SPECIFICATION Spec
INVARIANTS
    TextsRoundTrip
    HashesHold
    WireHolds
    OneOwner
PROPERTIES
    KeepsPromise
    IsVector
CHECK_DEADLOCK FALSE
SYMMETRY Symmetry
