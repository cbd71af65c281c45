SPECIFICATION SystemSpec
CONSTANTS
    e1 = e1
    e2 = e2
    k1 = k1
    k2 = k2
    Events = {e1, e2}
    Keys = {k1, k2}
    KeyHash <- MCKeyHash
    RetentionHours = 1
    MaxHour = 2
    RingBufSize = 2
    MaxBlockRows = 1
    IdxChunkSize = 1
    MaxFaults = 0
    MaxStarts = 1
    MaxErrors = 0
    MaxReadErrors = 1
    MaxCrashes = 0
INVARIANTS
    UnexpiredReadable
    BlocksExpire
CHECK_DEADLOCK FALSE
