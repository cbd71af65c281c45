SPECIFICATION Spec
CONSTANTS
    Producers = {p1, p2}
    RingBufSize = 2
    CounterMod = 4
    MaxPush = 2
INVARIANTS
    PopsInOrder
