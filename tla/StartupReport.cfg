SPECIFICATION Spec
CONSTANTS
    Issues = {i1}
    p1 = p1
    p2 = p2
    Projects <- TwoProjects
    Elsewhere = Elsewhere
    Nobody = Nobody
    QueryLimit = 1
    MaxMoves = 0
CHECK_DEADLOCK FALSE
INVARIANTS InterruptionReportIsTrue
