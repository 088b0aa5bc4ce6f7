SPECIFICATION MCSpec
CONSTANTS
    Views = {v1, v2}
    Tenants = {x}
    Readers = {rd1, rd2}
    Writers = {w1}
    Written = {v1, v2}
    Named = {v1}
    CacheErrors = FALSE
    MaxVersion = 2
    NoVersion = NoVersion
    Empty = Empty
    NoKey = NoKey
    NoReader = NoReader
    plain = plain
    printed = printed
    gated = gated
    n1 = n1
    r1 = r1
    a1 = a1
    n2 = n2
    q1 = q1
    q2 = q2
    alice = alice
    guest = guest
    Calls = {c1, c2}
    Callers = {alice, guest}
    Keyless = {guest}
    TTL = 1
    MaxEntries = 1
    Patience = 1
    MaxChanges = 2
    MaxTime = 2
    Texts = {plain, printed, gated}
    Hashes = {n1, r1, a1, n2}
    NoHash = NoHash
    hash_query <- MCHashQuery
    hash_query_raw <- MCHashRaw
    Queries = {q1, q2}
    TextOf <- MCTextOf
    Apollo <- MCApollo
    Stored <- MCStored
    Gated = {gated}
    Shapes <- MCShapes
    MaxSize = 2
    NoCaller = NoCaller
SYMMETRY BothSymmetries
INVARIANTS
    ReadYourWrites
    StaleEntryExplained
    FoundByApollo
PROPERTIES
    DecisionIsRecent
CHECK_DEADLOCK FALSE
