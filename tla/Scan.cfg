\* run() ends when it is aborted or when something throws.
SPECIFICATION FairSpec
CONSTANTS
    Issues = {1, 2}
    NoIssue = 0
    p1 = p1
    p2 = p2
    Projects <- TwoProjects
    Elsewhere = Elsewhere
    ScanLimit = 2
    MaxEdits = 3
CHECK_DEADLOCK FALSE
INVARIANTS TypeOK IdleSawEverything
PROPERTIES ReadyIsServed AbortIsHeeded
