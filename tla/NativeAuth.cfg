SPECIFICATION Spec
CONSTANTS
    Users = {alice, bob}
    Requests = {r1, r2, r3, r4}
    NoUser = NoUser
    NoRequest = NoRequest
SYMMETRY Symmetry
INVARIANTS
    ExchangedOnce
    OneLiveToken
    RevocationsHold
    RegisteredOnce
    ResetOnce
PROPERTY
    OnlyStaleReadsRevive
CHECK_DEADLOCK FALSE
