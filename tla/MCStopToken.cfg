CONSTANTS
    None = None
    Threads = {t1, t2, t3}
    Callbacks = {c1, c2}
    MaxRequests = 1
SPECIFICATION Spec
INVARIANTS
    NoUseAfterDestroy
    StopReachesEachOnce
PROPERTIES
    CallsReturn
