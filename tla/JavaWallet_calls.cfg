SPECIFICATION FairSpec
CONSTANTS
    Order = 13
    Top = 14
    HardenedBit = 4
    Seed <- MCSeed
    ChainCode <- MCChainCode
    ZeroChainCode = 0
    MasterHmac <- MCMasterHmac
    ChildHmac <- MCChildHmac
    Block = {0, 1}
    SeedLen = 2
    Purpose = 1
    Fingerprint <- MCFingerprint
    Hash160 <- MCHash160
    AddressBytes <- MCAddressBytes
    Keccak256 <- MCKeccak256
    Thread = {t1, t2}
    Array = {a1, a2}
    SharedArray = {a1}
    NullArray = null
    InitialHeap <- MCHeap
    PathText <- AllTexts
    Offered <- MCOffered
    MaxCalls = 2
    MaxWrites = 1
    SeedVector <- MCSeed
    Path <- FullPath
    Coin = {0}
    Account = {0}
    Foreign <- OneForeign
INVARIANTS
    AnswersOfItsArray
    GoodCallsSurvive
PROPERTY
    CallsAnswered
CHECK_DEADLOCK FALSE
