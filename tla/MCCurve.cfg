SPECIFICATION Spec
CONSTANTS
    FieldPrime = 43
    CurveB = 7
    Beta = 36
    Order = 31
    Generator <- BasePoint
    ScalarBits = 5
    HalfBits = 3
    MinusB1 = 5
    B2 = 1
    WindowA = 4
    WindowG = 3
    GroupSize = 3
    CombRange = 5
    CombBlocks = 2
    CombTeeth = 2
    Factors = {0, 2, 3, 5}
    WnafBits = 3
    SizeMax = 65535
    Alignment = 4
    PointTableSize = 4
    PippengerThreshold = 2
    MaxPointsPerBatch = 2
    GeSize = 5
    GejSize = 7
    FeSize = 2
    ScalarSize = 2
    IntSize = 1
    StraussPointSize = 4
    PippengerPointSize = 2
    PippengerStateSize = 2
    Top = 47
    Inputs = {0, 1, 5, 17, 30, 31, 33, 47}
    Hash <- SomeHash
    NumSigners = 2
    KeyRings <- SomeKeys
    Seckeys = {3, 10}
    Draws <- Rands
    Tweaks = {22, 40}
    Messages = {1, 2}
    Received = {17}
    AuxBytes = {0, 5}
    MaxTweaks = 2
    MaxSteps = 2
    Few = {0, 1, 13}
    FewOfG = {0, 7}
    SpaceSizes = {80, 110, 150}
    InUse = 3
    SortKeys = {0, 1, 2, 3}
    MaxCount = 6
    BlockSizes = {0, 7, 16, 26, 101, 140}
    Requested = {0, 1, 4, 5, 13, 26, 65533, 65535}
    Counts = {1, 2, 3, 7}
    MaxFrames = 3
    MaxMarks = 2
    Most = 150000
    Step = 499
    Numbers = {1, 2, 87, 88, 89, 500}
    MaxSize = 9
    Base = 32
    ScalarLen = 1
    SizeLen = 2
    Sequence = 3
    Integer = 2
    Subjects = {"points", "multiples", "sums", "frames", "batches", "comb", "keys", "sorting",
                "signing", "schnorr", "musig", "ellswift", "der", "inverse64", "inverse32", "digits",
                "field52", "field26", "scalar4x64", "scalar8x32"}
INVARIANTS
    GroupArithmetic
    Multiples
    SpaceHolds
    KeysInStep
    EcdsaHolds
    SchnorrHolds
    MuSigHolds
    EncodingsHold
    InverseHolds
    LimbsHold
PROPERTY
    HonestVerifies
CHECK_DEADLOCK FALSE
