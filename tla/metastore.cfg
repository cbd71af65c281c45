SPECIFICATION Spec
CONSTANTS
    Base = 2
    Shards = {1, 2}
    Events = {1, 2, 3}
    Keys = {1, 2, 3}
    KeyHash <- MCKeyHash
    RetentionHours = 1
    MaxHour = 1
    OpenHours = {0, 1}
    MaxAppends = 3
    MaxKeys = 3
INVARIANTS
    ScanInSeqOrder
    MigrationsFound
PROPERTIES
    ImplementsStorage
CHECK_DEADLOCK FALSE
