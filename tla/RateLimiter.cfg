SPECIFICATION Spec
CONSTANTS
    Keys = {client, white, black}
    Whitelist = {white}
    Blacklist = {black}
    Calls = {c1, c2, c3}
    NoKey = NoKey
    Configs <- MCConfigs
    Conns = 2
    Second = 2
    Minute = 4
    Hour = 5
    Patience = 1
    MaxClock = 6
SYMMETRY Symmetry
INVARIANTS
    AdmittedPerMinute
    AdmittedPerHour
    NoIdleWait
    WaitIsEnough
CHECK_DEADLOCK FALSE
