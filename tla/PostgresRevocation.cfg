SPECIFICATION Spec
CONSTANTS
    t1 = t1
    t2 = t2
    u1 = u1
    Tokens = {t1, t2}
    Users = {u1}
    Identified = {t1}
    Sub <- MCSub
    IssuedAt <- MCIssuedAt
    Second = 2
    TTL = 2
    MaxTime = 4
    NoUser = NoUser
    NoIat = NoIat
    Revokers = {r1, r2}
    Checkers = {k1,k2}
SYMMETRY Symmetry
CHECK_DEADLOCK FALSE
INVARIANTS
    RevokedIsRefused
    OlderIsRefused
    RefusedForAReason
