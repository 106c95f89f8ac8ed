SPECIFICATION Spec
CONSTANTS
    Scale = 2
    CleanIndex = 1
    ValidIndex = 1
    N = 1999
CHECK_DEADLOCK FALSE
INVARIANTS
    FinishedMeansAll
