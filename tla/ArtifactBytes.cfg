SPECIFICATION Spec
CONSTANTS
    p1 = p1
    p2 = p2
    Paths <- TwoPaths
    Diffs <- AnyDiffs
    PatchLimit = 8
    BodyLimit = 10
    MaxScribbles = 0
    MaxFaults = 0
CHECK_DEADLOCK FALSE
INVARIANTS PatchIsExact
