CONSTANTS
    Nobody = Nobody
    Workers = {w1, w2}
    Depth = 3
    Settings <- Cases
SPECIFICATION Spec
INVARIANTS
    NoUseAfterDestroy
    CompletesAsDeclared
PROPERTIES
    ChainCompletes
