SPECIFICATION Spec
INVARIANTS
    NoUseAfterFree
PROPERTIES
    ImplementsFuture
    PromiseKept
