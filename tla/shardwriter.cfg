SPECIFICATION Spec
CONSTANTS
    e1 = e1
    e2 = e2
    e3 = e3
    k1 = k1
    k2 = k2
    Events = {e1, e2, e3}
    Keys = {k1, k2}
    KeyHash <- MCKeyHash
    RetentionHours = 2
    MaxHour = 2
    RingBufSize = 2
    MaxBlockRows = 2
    IdxChunkSize = 1
    MaxFaults = 1
    MaxStarts = 2
INVARIANTS
    TypeOK
    Accounted
    MemtableLogged
    SealedComplete
    StopSeals
PROPERTIES
    SealedOnTimeImmutable
    ImplementsShard
CHECK_DEADLOCK FALSE
