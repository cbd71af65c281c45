SPECIFICATION Spec
CONSTANTS
    ZstdLen <- MCZstdLen
    Blocks = {1, 2, 3}
    Batches <- MCBatches
    MaxCalls = 4
    QueryKey = 1
    From = 1
    To = 3
    MaxParallel = 2
    BatchSize = 2
INVARIANTS
    BlockKept
    ReadsOneVersion
    OpenedFileDecodes
    MergedInOrder
    OneTerminal
CHECK_DEADLOCK FALSE
