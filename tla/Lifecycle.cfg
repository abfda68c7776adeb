\* Requests end with the client: a write is applied while its process waits, or never.
SPECIFICATION Spec
CONSTANTS
    Issues = {i1, i2}
    Executions = {e1, e2, e3, e4, e5}
    NoExecution = NoExecution
    NoIssue = NoIssue
    MaxFaults = 3
    DelayedWrites = FALSE
    Droppable = {}
SYMMETRY Interchangeable
INVARIANTS TypeOK NoAttemptOutlivesCleanup ReadyIsGrounded
    RejectedNeverStarted VerifiedIsNeverDiscarded IdleMeansNothingRunning
PROPERTIES TerminalIsFinal KeepsThePromise
