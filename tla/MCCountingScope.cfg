CONSTANTS
    None = None
    Work = {w1, w2, w3}
    Joins = {j1, j2, j3}
    ScheduledJoins = {j1}
    MaxAssociations = 2
SPECIFICATION Spec
INVARIANTS
    TypeOK
    DestroyIsSafe
    JoinMeansEmpty
    NoLostJoin
PROPERTIES
    JoinCompletes
    ImplementsJoinableScope
