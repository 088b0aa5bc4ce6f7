SPECIFICATION Spec
CONSTANTS
    Users = {alice}
    Requests = {r1, r2, r3, r4}
    NoUser = NoUser
    NoRequest = NoRequest
SYMMETRY Symmetry
INVARIANT
    ResetChangesPassword
CHECK_DEADLOCK FALSE
