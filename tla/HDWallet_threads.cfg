SPECIFICATION FairSpec
CONSTANTS
    Order = 13
    Top = 14
    HardenedBit = 4
    Seed <- MCSeed
    ChainCode <- MCChainCode
    ZeroChainCode = 0
    MasterHmac <- MCMasterHmac
    ChildHmac <- MCChildHmac
    Block = {0, 1}
    SeedLen = 2
    Purpose = 1
    Fingerprint <- MCFingerprint
    Hash160 <- MCHash160
    AddressBytes <- MCAddressBytes
    Keccak256 <- MCKeccak256
    Thread = {t1, t2}
    MaxCalls = 3
    SeedVector <- OneSeed
    Path <- FewPaths
    Coin = {0}
    Account = {0}
    Foreign <- NoForeign
INVARIANT
    ContextOnce
PROPERTIES
    CallsReturn
    KeepsPromise
CHECK_DEADLOCK FALSE
