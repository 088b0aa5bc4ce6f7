SPECIFICATION Spec
CONSTANTS
    d1 = d1
    d2 = d2
    read = read
    change = change
    list = list
    guest = guest
    alice = alice
    bob = bob
    service = service
    Processes = {p1, p2}
    Requests = {r1, r2}
    Docs = {d1, d2}
    Operations = {read, change, list}
    DocOf <- MCDocOf
    Mutations = {change}
    Approved = {d1}
    TurboDocs = {d2}
    Callers = {guest, alice, bob, service}
    User <- MCUser
    Scope <- MCScope
    Anonymous = Anonymous
    NoId = NoId
    Configs <- MCConfigs
    Shapes <- MCShapes
    Database = Database
    MaxPolicies = 1
    NoRequest = NoRequest
SYMMETRY Symmetry
INVARIANT
    MutationsAreExecuted
CHECK_DEADLOCK FALSE
