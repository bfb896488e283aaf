CONSTANTS
    Thieves = {t1, t2}
    NumItems = 7
    Blocks = 2
    Size = 2
SPECIFICATION Spec
INVARIANTS
    ReadsItsClaim
    AnswersAreTrue
PROPERTIES
    ImplementsStealQueue
    CallsReturn
