\* A request may be applied after the client gave up on it, and in part.
SPECIFICATION Spec
CONSTANTS
    Issues = {i1, i2}
    Executions = {e1, e2, e3}
    NoExecution = NoExecution
    NoIssue = NoIssue
    MaxFaults = 2
    DelayedWrites = TRUE
    Droppable = {"lifecycle", "execution", "artifact"}
SYMMETRY Interchangeable
INVARIANTS OneAgentPerIssue RanIsNamed ReferenceIsDurable
