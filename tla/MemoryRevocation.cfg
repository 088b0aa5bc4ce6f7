SPECIFICATION Spec
CONSTANTS
    t1 = t1
    t2 = t2
    t3 = t3
    u1 = u1
    u2 = u2
    Tokens = {t1, t2, t3}
    Users = {u1, u2}
    Identified = {t1, t2}
    Sub <- MCSub
    IssuedAt <- MCIssuedAt
    Second = 2
    TTL = 2
    MaxTime = 5
    NoUser = NoUser
    NoIat = NoIat
INVARIANTS
    StayAsLongAsCutoff
PROPERTY
    Promise
CHECK_DEADLOCK FALSE
