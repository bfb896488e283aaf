CONSTANTS
    N = 3
SPECIFICATION Spec
INVARIANTS
    NoUseAfterDestroy
    OutcomeFollowsChildren
PROPERTIES
    Completes
