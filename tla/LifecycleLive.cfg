SPECIFICATION FairSpec
CONSTANTS
    Issues = {i1, i2}
    Executions = {e1, e2, e3}
    NoExecution = NoExecution
    NoIssue = NoIssue
    MaxFaults = 1
    DelayedWrites = FALSE
    Droppable = {}
PROPERTIES RunningIsFinalized ApprovedIsConsumed
