CONSTANTS
    None = None
    N = 2
    Clients = {c1}
    Tasks = {k1, k2, k3}
    First = k1
    Jobs = {b1}
    Size = 3
    ChunksPerWorker = 1
    Capacity = 1
    Plans <- MCPlans
SPECIFICATION Spec
INVARIANTS
    InOnePlace
    NoLostWakeup
    JobFindsHelp
    JobCompletesLast
    Drained
PROPERTIES
    WorkCompletes
