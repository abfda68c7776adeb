\* A start ends polling or stopped.  Three Issues exceed a limit of two.
SPECIFICATION Spec
CONSTANTS
    Issues = {i1, i2, i3}
    p1 = p1
    p2 = p2
    Projects <- TwoProjects
    Elsewhere = Elsewhere
    Nobody = Nobody
    QueryLimit = 2
    MaxMoves = 2
SYMMETRY Interchangeable
CHECK_DEADLOCK FALSE
INVARIANTS TypeOK PollingFindsNothingRunning FailureStopsNobodyElse PollingHidesNoFailure
