SPECIFICATION FairSpec
CONSTANTS
    Producers = {p1}
    RingBufSize = 2
    CounterMod = 4
    MaxPush = 7
INVARIANTS
    TypeOK
    PopsInOrder
    PendingIntact
    NoSlotRace
PROPERTIES
    ImplementsFIFO
    AcceptedIsPopped
    PushReturns
