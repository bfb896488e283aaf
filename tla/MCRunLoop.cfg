CONSTANTS
    None = None
    Driver = driver
    Workers = {w1, w2}
    Tasks = {k1, k2, k3}
    MaxPushes = 4
    MaxSpurious = 1
SPECIFICATION Spec
INVARIANTS
    SafeReturn
    FirstInFirstOut
PROPERTIES
    SyncWaitReturns
