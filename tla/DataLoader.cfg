SPECIFICATION FairSpec
CONSTANTS
    Loads = {c1, c2}
    Keys = {k1, k2}
    Rows = {k1}
    MaxBatchSize = 1
    CacheEnabled = TRUE
    NoLoad = NoLoad
    NoKey = NoKey
INVARIANTS
    SingleDispatch
    NoLostWakeup
    NoneOnlyWhenMissing
    CancelStaysInBatch
PROPERTY
    EveryLoadReturns
