CONSTANTS
    None = None
    Threads = {t1, t2}
    Tasks = 2
    Awaits = 2
    CompletesLater = TRUE
SPECIFICATION Spec
INVARIANTS
    MarksOwnStart
