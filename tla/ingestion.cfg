SPECIFICATION FairSpec
CONSTANTS
    Streams = {s1, s2}
    Shards = {a}
    RingBufSize = 1
    MaxBlockRows = 1
    MaxBatches = 2
    MaxWriters = 2
    MaxPos = 2
    MaxHour = 1
    MaxFaults = 1
INVARIANTS
    OneWriterPerShard
    StopSealsAcked
    AckedHeld
PROPERTIES
    BatchAnswered
    ShutdownEnds
CHECK_DEADLOCK FALSE
