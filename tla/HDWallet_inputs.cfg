SPECIFICATION Spec
CONSTANTS
    Order = 13
    Top = 14
    HardenedBit = 4
    Seed <- MCSeed
    ChainCode <- MCChainCode
    ZeroChainCode = 0
    MasterHmac <- MCMasterHmac
    ChildHmac <- MCChildHmac
    Block = {0, 1}
    SeedLen = 2
    Purpose = 1
    Fingerprint <- MCFingerprint
    Hash160 <- MCHash160
    AddressBytes <- MCAddressBytes
    Keccak256 <- MCKeccak256
    Thread = {t1}
    MaxCalls = 2
    SeedVector <- AllSeeds
    Path <- AllPaths
    Coin = {0, 5}
    Account = {0, 1, 5}
    Foreign <- MCForeign
INVARIANTS
    TypeOK
    NodeConsistent
    NoKeyFromWatchOnly
    KeysValid
PROPERTY
    KeepsPromise
CHECK_DEADLOCK FALSE
