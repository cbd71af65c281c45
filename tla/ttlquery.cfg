SPECIFICATION TTLQuerySpec
CONSTANTS
    Events = {e1}
    Keys = {k1}
    KeyHash <- MCKeyHash
    RetentionHours = 2
    MaxHour = 2
    MaxErrors = 0
    MaxReadErrors = 0
    MaxCrashes = 1
    e1 = e1
    k1 = k1
    MaxParallel = 2
    CacheSize = 1
    MaxQueries = 2
INVARIANTS
    UnexpiredFound
    OpenFailsOnlyIfExpired
CHECK_DEADLOCK FALSE
