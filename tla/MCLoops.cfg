CONSTANTS
    None = None
    Threads = {t1, t2}
    N = 3
    Mixes <- All
    Count = 2
    MaxDepth = 3
SPECIFICATION Spec
INVARIANTS
    OneIterationAtATime
    NestsAndQueues
PROPERTIES
    LoopsGiveWay
