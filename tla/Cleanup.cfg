\* It stops in polling when all IDs are used.
SPECIFICATION Spec
CONSTANTS
    Attempts = {a, b, c}
    None = None
    Strangers = {s}
    Lookalikes = {l}
    MaxFaults = 3
CHECK_DEADLOCK FALSE
INVARIANTS TypeOK OnlyTheCurrentLives
PROPERTIES CleanupSparesTheUsed
