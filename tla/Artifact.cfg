\* A verdict that was written to the record ends the execution.
SPECIFICATION Spec
CONSTANTS
    p1 = p1
    p2 = p2
    Paths <- TwoPaths
    Diffs <- ValidDiffs
    PatchLimit = 3
    BodyLimit = 4
    MaxScribbles = 1
    MaxFaults = 2
CHECK_DEADLOCK FALSE
INVARIANTS TypeOK ArtifactIsWhatGitSaid VerdictsAreTrue
