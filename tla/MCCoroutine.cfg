CONSTANTS
    None = None
    Threads = {t1, t2, t3}
    Tasks = 2
    Awaits = 2
    CompletesLater = FALSE
SPECIFICATION Spec
INVARIANTS
    RunsInOnePlace
    NoUseAfterDestroy
PROPERTIES
    TaskEnds
