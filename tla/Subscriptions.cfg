SPECIFICATION MCSpec
CONSTANTS
    Ids = {a, b}
    Tasks = {t1, t2}
    NoId = NoId
    NoTask = NoTask
    Subscribers = {s1, s2, s3}
    Keys = {k1, k2}
    NoSub = NoSub
INVARIANTS
    TypeOK
    RegistrySound
    LiveTasksRegistered
    CleanupReachesAll
    NotReadyAfterHandle
    OneGenerator
PROPERTIES
    NoReplacement
    ClosingEnds
    HandshakeEnds
    ManagerReturns
    WaitersAreServed
CHECK_DEADLOCK FALSE
