SPECIFICATION TTLFairSpec
CONSTANTS
    Events = {e1}
    Keys = {k1}
    KeyHash <- MCKeyHash
    RetentionHours = 2
    MaxHour = 3
    MaxErrors = 1
    MaxReadErrors = 0
    MaxCrashes = 1
    e1 = e1
    k1 = k1
INVARIANTS
    BlockNotLeaked
PROPERTIES
    UnexpiredUntouched
    ExpiredReclaimed
