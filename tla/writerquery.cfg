SPECIFICATION SysSpec
CONSTANTS
    e1 = e1
    e2 = e2
    k1 = k1
    k2 = k2
    Events = {e1, e2}
    Keys = {k1, k2}
    KeyHash <- MCKeyHash
    RetentionHours = 1
    MaxHour = 1
    RingBufSize = 2
    MaxBlockRows = 1
    IdxChunkSize = 1
    MaxFaults = 0
    MaxStarts = 2
    MaxParallel = 2
    CacheSize = 1
    MaxQueries = 2
    MaxSkew = 0
INVARIANTS
    QueryTypeOK
    CommittedFound
    OpenSucceeds
CHECK_DEADLOCK FALSE
